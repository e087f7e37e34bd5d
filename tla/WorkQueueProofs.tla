-------------------------- MODULE WorkQueueProofs ---------------------------
(***************************************************************************)
(* Proofs about the two queues that are kept on documents.  The analyses of *)
(* incidents, for any number of incidents, of processes and of months, for *)
(* every allowance and with any faults: the monthly counter is right and   *)
(* stays within the allowance.  The reports, for any number of reports, of *)
(* builds, of recipients and of occurrences: who is mailed twice was paid for *)
(* by a fault.  Both keep the safety part of the promise of LeasedWork.    *)
(***************************************************************************)
EXTENDS IncidentAnalysis, ReportQueue, FiniteSetTheorems, TLAPS

-----------------------------------------------------------------------------
(* Types.  Attempts are bounded last, once it is known what they count.    *)

AnalystShape ==
    [pc: {"idle", "begin", "reserve", "insert", "collided", "generate", "release",
          "complete", "retry", "failed", "skipped"},
     incident: Incidents \cup {None}, attempts: Nat,
     plan: AiPlans \cup {None}, month: Months,
     error: {"none", "retryable", "final", "fault"}]

DocumentShape ==
    [state: {"resolved", "gone"},
     status: {"null", "pending", "completed", "failed", "skipped"}, attempts: Nat,
     due: BOOLEAN, lease: {"none", "held", "lapsed"}, asks: 0 .. MaxAnalysisAsks]

\* What is known of a job from where it is: whose plan has an allowance where it
\* reserves, that a retry is one the job has left, and that a fault is its last error.
WellPlaced(a) ==
    /\ a.pc = "idle" => a.incident = None
    /\ a.pc # "idle" => a.incident \in Incidents
    /\ a.pc \in {"reserve", "insert", "collided"} =>
           a.plan \in AiPlans /\ HasAiInsights(a.plan)
    /\ a.pc = "retry" => a.attempts < AnalysisAttempts
    /\ a.error = "fault" => a.pc = "release"

JobsFine ==
    /\ analyst \in [Analysts -> AnalystShape]
    /\ \A w \in Analysts : WellPlaced(analyst[w])

PlanFine == aiPlan \in [now: AiPlans, cached: AiPlans \cup {None}, changes: 0 .. MaxPlanChanges]

DocumentsFine == analysis \in [Incidents -> DocumentShape]

CountersFine ==
    /\ aiUsage \in [Months -> Nat \cup {None}]
    /\ answered \in [Months -> Nat] /\ lost \in [Months -> Nat]

RestFine ==
    /\ asker \in Incidents \cup {None} /\ month \in Months /\ aiFaults \in 0 .. MaxAnalysisFaults

Shapes == JobsFine /\ PlanFine /\ DocumentsFine /\ CountersFine /\ RestFine

LEMMA IdleShape ==
    /\ IdleAnalyst \in AnalystShape /\ WellPlaced(IdleAnalyst)
    /\ IdleAnalyst.incident = None /\ IdleAnalyst.pc = "idle" /\ IdleAnalyst.error = "none"
    /\ IdleAnalyst.attempts = 0
BY IncidentAnalysisAssumption DEF IdleAnalyst, AnalystShape, WellPlaced, Months

\* One analyst is given new contents.
LEMMA Put ==
    ASSUME JobsFine, NEW w \in Analysts, NEW a \in AnalystShape, WellPlaced(a),
           analyst' = [analyst EXCEPT ![w] = a]
    PROVE  JobsFine'
BY DEF JobsFine

\* A step of w to another place, with what is asked of that place.
LEMMA Go ==
    ASSUME JobsFine, NEW w \in Analysts, NEW pc, AtAnalysis(w, pc),
           pc \in {"generate", "collided", "failed", "skipped", "complete"},
           analyst[w].pc \notin {"idle", "release"},
           pc = "collided" => analyst[w].pc = "insert"
    PROVE  JobsFine'
<1> DEFINE a == [analyst[w] EXCEPT !.pc = pc]
<1>1. analyst[w] \in AnalystShape /\ WellPlaced(analyst[w])
  BY DEF JobsFine
<1>2. a \in AnalystShape
  BY <1>1 DEF AnalystShape
<1>3. WellPlaced(a)
  BY <1>1 DEF WellPlaced, AnalystShape
<1>4. analyst' = [analyst EXCEPT ![w] = a]
  BY DEF AtAnalysis
<1> QED BY <1>2, <1>3, <1>4, Put

\* What queueing, settling and giving back write.
LEMMA QueuedDocument ==
    ASSUME DocumentsFine, NEW i \in Incidents, NEW due \in BOOLEAN, Queued(i, due)
    PROVE  /\ DocumentsFine'
           /\ \A j \in Incidents \ {i} : analysis'[j] = analysis[j]
           /\ analysis'[i].state = analysis[i].state /\ analysis'[i].status = "pending"
           /\ analysis'[i].attempts = 0 /\ analysis'[i].lease = "none"
<1> DEFINE d == [analysis[i] EXCEPT !.status = "pending", !.attempts = 0, !.due = due,
                                    !.lease = "none"]
<1>1. analysis' = [analysis EXCEPT ![i] = d]
  BY DEF Queued, DocumentsFine
<1>2. /\ d \in DocumentShape
      /\ d.state = analysis[i].state /\ d.status = "pending" /\ d.attempts = 0 /\ d.lease = "none"
  BY DEF DocumentsFine, DocumentShape
<1> HIDE DEF d
<1> QED BY <1>1, <1>2 DEF DocumentsFine

LEMMA SettledDocument ==
    ASSUME DocumentsFine, NEW i \in Incidents, NEW status \in {"completed", "failed", "skipped"},
           analysis' = [analysis EXCEPT ![i].status = status, ![i].due = FALSE, ![i].lease = "none"]
    PROVE  /\ DocumentsFine'
           /\ \A j \in Incidents \ {i} : analysis'[j] = analysis[j]
           /\ analysis'[i].state = analysis[i].state /\ analysis'[i].status = status
           /\ analysis'[i].attempts = analysis[i].attempts /\ analysis'[i].lease = "none"
<1> DEFINE d == [analysis[i] EXCEPT !.status = status, !.due = FALSE, !.lease = "none"]
<1>1. analysis' = [analysis EXCEPT ![i] = d]
  BY DEF DocumentsFine
<1>2. /\ d \in DocumentShape
      /\ d.state = analysis[i].state /\ d.status = status
      /\ d.attempts = analysis[i].attempts /\ d.lease = "none"
  BY DEF DocumentsFine, DocumentShape
<1> HIDE DEF d
<1> QED BY <1>1, <1>2 DEF DocumentsFine

LEMMA FreedDocument ==
    ASSUME DocumentsFine, NEW i \in Incidents,
           analysis' = [analysis EXCEPT ![i].due = FALSE, ![i].lease = "none"]
    PROVE  /\ DocumentsFine'
           /\ \A j \in Incidents \ {i} : analysis'[j] = analysis[j]
           /\ analysis'[i].state = analysis[i].state /\ analysis'[i].status = analysis[i].status
           /\ analysis'[i].attempts = analysis[i].attempts /\ analysis'[i].lease = "none"
<1> DEFINE d == [analysis[i] EXCEPT !.due = FALSE, !.lease = "none"]
<1>1. analysis' = [analysis EXCEPT ![i] = d]
  BY DEF DocumentsFine
<1>2. /\ d \in DocumentShape
      /\ d.state = analysis[i].state /\ d.status = analysis[i].status
      /\ d.attempts = analysis[i].attempts /\ d.lease = "none"
  BY DEF DocumentsFine, DocumentShape
<1> HIDE DEF d
<1> QED BY <1>1, <1>2 DEF DocumentsFine

LEMMA ClaimedDocument ==
    ASSUME DocumentsFine, NEW i \in Incidents,
           analysis' = [analysis EXCEPT ![i].lease = "held", ![i].attempts = @ + 1]
    PROVE  /\ DocumentsFine'
           /\ \A j \in Incidents \ {i} : analysis'[j] = analysis[j]
           /\ analysis'[i].state = analysis[i].state /\ analysis'[i].status = analysis[i].status
           /\ analysis'[i].attempts = analysis[i].attempts + 1 /\ analysis'[i].lease = "held"
<1> DEFINE d == [analysis[i] EXCEPT !.lease = "held", !.attempts = analysis[i].attempts + 1]
<1>1. analysis' = [analysis EXCEPT ![i] = d]
  BY DEF DocumentsFine, DocumentShape
<1>2. /\ d \in DocumentShape
      /\ d.state = analysis[i].state /\ d.status = analysis[i].status
      /\ d.attempts = analysis[i].attempts + 1 /\ d.lease = "held"
  BY DEF DocumentsFine, DocumentShape
<1> HIDE DEF d
<1> QED BY <1>1, <1>2 DEF DocumentsFine

\* The other writes keep what the queue looks at, but for what they are named for.
LEMMA OtherDocuments ==
    ASSUME DocumentsFine, NEW i \in Incidents
    PROVE  /\ AskForAnalysis(i) \/ AnalysisFallsDue(i) =>
                  /\ DocumentsFine'
                  /\ \A j \in Incidents :
                         /\ analysis'[j].state = analysis[j].state
                         /\ analysis'[j].status = analysis[j].status
                         /\ analysis'[j].attempts = analysis[j].attempts
                         /\ analysis'[j].lease = analysis[j].lease
           /\ DeleteIncident(i) =>
                  /\ DocumentsFine'
                  /\ \A j \in Incidents \ {i} : analysis'[j] = analysis[j]
                  /\ analysis'[i].state = "gone"
                  /\ analysis'[i].status = analysis[i].status
                  /\ analysis'[i].attempts = analysis[i].attempts
                  /\ analysis'[i].lease = analysis[i].lease
           /\ AnalysisLeaseLapses(i) =>
                  /\ DocumentsFine'
                  /\ \A j \in Incidents \ {i} : analysis'[j] = analysis[j]
                  /\ analysis'[i].state = analysis[i].state
                  /\ analysis'[i].status = analysis[i].status
                  /\ analysis'[i].attempts = analysis[i].attempts
                  /\ analysis'[i].lease = "lapsed"
<1>1. ASSUME AskForAnalysis(i)
      PROVE  /\ DocumentsFine'
             /\ \A j \in Incidents :
                    /\ analysis'[j].state = analysis[j].state
                    /\ analysis'[j].status = analysis[j].status
                    /\ analysis'[j].attempts = analysis[j].attempts
                    /\ analysis'[j].lease = analysis[j].lease
  <2>1. analysis[i].asks + 1 \in 0 .. MaxAnalysisAsks
    BY <1>1, IncidentAnalysisAssumption DEF AskForAnalysis, DocumentsFine, DocumentShape
  <2>2. analysis' = [analysis EXCEPT ![i] = [analysis[i] EXCEPT !.asks = analysis[i].asks + 1]]
    BY <1>1 DEF AskForAnalysis, DocumentsFine, DocumentShape
  <2> QED BY <2>1, <2>2 DEF DocumentsFine, DocumentShape
<1>2. ASSUME AnalysisFallsDue(i)
      PROVE  /\ DocumentsFine'
             /\ \A j \in Incidents :
                    /\ analysis'[j].state = analysis[j].state
                    /\ analysis'[j].status = analysis[j].status
                    /\ analysis'[j].attempts = analysis[j].attempts
                    /\ analysis'[j].lease = analysis[j].lease
  BY <1>2 DEF AnalysisFallsDue, DocumentsFine, DocumentShape
<1>3. ASSUME DeleteIncident(i)
      PROVE  /\ DocumentsFine'
             /\ \A j \in Incidents \ {i} : analysis'[j] = analysis[j]
             /\ analysis'[i].state = "gone"
             /\ analysis'[i].status = analysis[i].status
             /\ analysis'[i].attempts = analysis[i].attempts
             /\ analysis'[i].lease = analysis[i].lease
  BY <1>3 DEF DeleteIncident, DocumentsFine, DocumentShape
<1>4. ASSUME AnalysisLeaseLapses(i)
      PROVE  /\ DocumentsFine'
             /\ \A j \in Incidents \ {i} : analysis'[j] = analysis[j]
             /\ analysis'[i].state = analysis[i].state
             /\ analysis'[i].status = analysis[i].status
             /\ analysis'[i].attempts = analysis[i].attempts
             /\ analysis'[i].lease = "lapsed"
  BY <1>4 DEF AnalysisLeaseLapses, DocumentsFine, DocumentShape
<1> QED BY <1>1, <1>2, <1>3, <1>4

LEMMA InitShapes == AnalysisInit => Shapes
<1> SUFFICES ASSUME AnalysisInit PROVE Shapes
  OBVIOUS
<1>1. 0 \in Months /\ 0 \in 0 .. MaxAnalysisAsks /\ 0 \in 0 .. MaxAnalysisFaults
      /\ 0 \in 0 .. MaxPlanChanges
  BY IncidentAnalysisAssumption DEF Months
<1>2. JobsFine
  BY IdleShape DEF AnalysisInit, JobsFine
<1>3. DocumentsFine /\ CountersFine
  BY <1>1 DEF AnalysisInit, DocumentsFine, DocumentShape, CountersFine
<1>4. PlanFine /\ RestFine
  BY <1>1 DEF AnalysisInit, PlanFine, RestFine
<1> QED BY <1>2, <1>3, <1>4 DEF Shapes

\* The plan a job sees is one.
LEMMA SeenPlanType == PlanFine => SeenPlan \in AiPlans
BY DEF PlanFine, SeenPlan

\* A reservation counts one more.
LEMMA ReserveShapes ==
    ASSUME Shapes, NEW w \in Analysts, NEW m \in Months, Reserve(w, m),
           analyst[w].pc \in {"reserve", "insert", "collided"}
    PROVE  Shapes'
<1> DEFINE a == [analyst[w] EXCEPT !.pc = "generate", !.month = m]
<1>1. analyst[w] \in AnalystShape /\ WellPlaced(analyst[w])
  BY DEF Shapes, JobsFine
<1>2. a \in AnalystShape
  BY <1>1 DEF AnalystShape
<1>3. WellPlaced(a)
  BY <1>1 DEF WellPlaced, AnalystShape
<1>4. analyst' = [analyst EXCEPT ![w] = a]
  BY DEF Reserve
<1>5. JobsFine'
  BY <1>2, <1>3, <1>4, Put DEF Shapes
<1>6. aiUsage' \in [Months -> Nat \cup {None}]
  BY DEF Reserve, Shapes, CountersFine
<1> QED BY <1>5, <1>6
        DEF Reserve, AnalysisKeeps, Shapes, CountersFine, PlanFine, DocumentsFine, RestFine

LEMMA WorkShapes ==
    ASSUME Shapes, NEW w \in Analysts, AnalystWorks(w)
    PROVE  Shapes'
<1>0. analyst[w] \in AnalystShape /\ WellPlaced(analyst[w]) /\ JobsFine
  BY DEF Shapes, JobsFine
<1>1. CASE BeginAnalysis(w)
  <2>1. /\ UNCHANGED <<analysis, aiUsage, answered, lost, asker, month, aiFaults>>
        /\ analyst[w].pc = "begin"
    BY <1>1 DEF BeginAnalysis, UsageKeeps
  <2>2. CASE \/ AtAnalysis(w, "failed") /\ UNCHANGED aiPlan
             \/ AtAnalysis(w, "skipped") /\ UNCHANGED aiPlan
    <3>1. JobsFine'
      BY <1>0, <2>1, <2>2, Go
    <3> QED BY <2>1, <2>2, <3>1 DEF Shapes, PlanFine, DocumentsFine, CountersFine, RestFine
  <2>3. CASE /\ analyst' = [analyst EXCEPT
                    ![w].pc = IF HasAiInsights(SeenPlan) THEN "reserve" ELSE "skipped",
                    ![w].plan = SeenPlan]
             /\ aiPlan' = [aiPlan EXCEPT !.cached = SeenPlan]
    <3> DEFINE a == [analyst[w] EXCEPT
                       !.pc = IF HasAiInsights(SeenPlan) THEN "reserve" ELSE "skipped",
                       !.plan = SeenPlan]
    <3>1. SeenPlan \in AiPlans
      BY SeenPlanType DEF Shapes
    <3>2. a \in AnalystShape
      BY <1>0, <3>1 DEF AnalystShape
    <3>3. WellPlaced(a)
      BY <1>0, <2>1, <3>1 DEF WellPlaced, AnalystShape
    <3>4. analyst' = [analyst EXCEPT ![w] = a]
      BY <2>3
    <3>5. JobsFine'
      BY <1>0, <3>2, <3>3, <3>4, Put
    <3>6. PlanFine'
      BY <2>3, <3>1 DEF Shapes, PlanFine
    <3> QED BY <2>1, <3>5, <3>6 DEF Shapes, DocumentsFine, CountersFine, RestFine
  <2> QED BY <1>1, <2>2, <2>3 DEF BeginAnalysis
<1>2. CASE ReserveGeneration(w)
  <2>1. CASE Reserve(w, month)
    BY <1>2, <2>1, ReserveShapes DEF ReserveGeneration, Shapes, RestFine
  <2>2. CASE /\ analyst' = [analyst EXCEPT ![w].pc = "insert", ![w].month = month]
             /\ UNCHANGED analysis /\ UsageKeeps /\ AnalysisKeeps
    <3> DEFINE a == [analyst[w] EXCEPT !.pc = "insert", !.month = month]
    <3>1. a \in AnalystShape
      BY <1>0 DEF AnalystShape, Shapes, RestFine
    <3>2. WellPlaced(a)
      BY <1>0, <1>2 DEF WellPlaced, AnalystShape, ReserveGeneration
    <3>3. analyst' = [analyst EXCEPT ![w] = a]
      BY <2>2
    <3>4. JobsFine'
      BY <1>0, <3>1, <3>2, <3>3, Put
    <3> QED BY <2>2, <3>4
            DEF UsageKeeps, AnalysisKeeps, Shapes, PlanFine, DocumentsFine, CountersFine, RestFine
  <2> QED BY <1>2, <2>1, <2>2 DEF ReserveGeneration
<1>3. CASE InsertUsage(w) \/ ReserveAgain(w)
  <2>1. CASE Reserve(w, analyst[w].month)
    BY <1>0, <1>3, <2>1, ReserveShapes DEF InsertUsage, ReserveAgain, AnalystShape
  <2>2. CASE /\ AtAnalysis(w, "collided") \/ AtAnalysis(w, "skipped")
             /\ AtAnalysis(w, "collided") => analyst[w].pc = "insert"
             /\ UNCHANGED analysis /\ UsageKeeps /\ AnalysisKeeps
    <3>1. JobsFine'
      BY <1>0, <1>3, <2>2, Go DEF InsertUsage, ReserveAgain
    <3> QED BY <2>2, <3>1
            DEF UsageKeeps, AnalysisKeeps, Shapes, PlanFine, DocumentsFine, CountersFine, RestFine
  <2>3. CASE InsertUsage(w)
    BY <2>1, <2>2, <2>3 DEF InsertUsage
  <2>4. CASE ReserveAgain(w) /\ ~Reserve(w, analyst[w].month)
    <3>1. AtAnalysis(w, "skipped") /\ UNCHANGED analysis /\ UsageKeeps /\ AnalysisKeeps
      BY <2>4 DEF ReserveAgain
    <3>2. JobsFine'
      BY <1>0, <2>4, <3>1, Go DEF ReserveAgain
    <3> QED BY <3>1, <3>2
            DEF UsageKeeps, AnalysisKeeps, Shapes, PlanFine, DocumentsFine, CountersFine, RestFine
  <2> QED BY <1>3, <2>1, <2>3, <2>4
<1>4. CASE Generate(w)
  <2>1. /\ UNCHANGED <<analysis, asker, month, aiPlan, aiUsage, lost>>
        /\ analyst[w].pc = "generate"
    BY <1>4 DEF Generate
  <2>2. CASE AtAnalysis(w, "complete") /\ answered' = [answered EXCEPT ![analyst[w].month] = @ + 1]
    <3>1. JobsFine'
      BY <1>0, <2>1, <2>2, Go
    <3>2. analyst'[w].error # "fault"
      BY <1>0, <2>1, <3>1, <2>2 DEF AtAnalysis, WellPlaced, AnalystShape, JobsFine
    <3>3. UNCHANGED aiFaults
      BY <1>4, <3>2 DEF Generate
    <3>4. answered' \in [Months -> Nat]
      BY <1>0, <2>2 DEF Shapes, CountersFine, AnalystShape
    <3> QED BY <2>1, <3>1, <3>3, <3>4
            DEF Shapes, PlanFine, DocumentsFine, CountersFine, RestFine
  <2>3. ASSUME NEW e \in {"retryable", "final", "fault"},
               e = "fault" => aiFaults < MaxAnalysisFaults,
               analyst' = [analyst EXCEPT ![w].pc = "release", ![w].error = e],
               UNCHANGED answered
        PROVE  Shapes'
    <3> DEFINE a == [analyst[w] EXCEPT !.pc = "release", !.error = e]
    <3>1. a \in AnalystShape /\ a.error = e
      BY <1>0 DEF AnalystShape
    <3>2. WellPlaced(a)
      BY <1>0, <2>1 DEF WellPlaced, AnalystShape
    <3>3. analyst' = [analyst EXCEPT ![w] = a]
      BY <2>3
    <3>4. JobsFine' /\ analyst'[w].error = e
      BY <1>0, <3>1, <3>2, <3>3, Put DEF JobsFine
    <3>5. aiFaults' \in 0 .. MaxAnalysisFaults
      BY <1>4, <2>3, <3>4, IncidentAnalysisAssumption DEF Generate, Shapes, RestFine
    <3> QED BY <2>1, <2>3, <3>4, <3>5
            DEF Shapes, PlanFine, DocumentsFine, CountersFine, RestFine
  <2> QED BY <1>4, <2>2, <2>3 DEF Generate
<1>5. CASE ReleaseGeneration(w)
  <2>1. AfterRelease(w) \in AnalystShape /\ WellPlaced(AfterRelease(w))
    <3>1. CASE analyst[w].error = "fault"
      BY <3>1, IdleShape DEF AfterRelease
    <3>2. CASE /\ analyst[w].error # "fault"
               /\ analyst[w].error = "retryable" /\ analyst[w].attempts < AnalysisAttempts
      <4>1. AfterRelease(w) = [analyst[w] EXCEPT !.pc = "retry"]
        BY <3>2 DEF AfterRelease
      <4> QED BY <1>0, <1>5, <3>2, <4>1 DEF AnalystShape, WellPlaced, ReleaseGeneration
    <3>3. CASE /\ analyst[w].error # "fault"
               /\ ~(analyst[w].error = "retryable" /\ analyst[w].attempts < AnalysisAttempts)
      <4>1. AfterRelease(w) = [analyst[w] EXCEPT !.pc = "failed"]
        BY <3>3 DEF AfterRelease
      <4> QED BY <1>0, <1>5, <3>3, <4>1 DEF AnalystShape, WellPlaced, ReleaseGeneration
    <3> QED BY <3>1, <3>2, <3>3
  <2>2. JobsFine'
    BY <1>0, <1>5, <2>1, Put DEF ReleaseGeneration
  <2>3. aiUsage' \in [Months -> Nat \cup {None}]
    <3>1. PICK m \in Months : m = ReleasedMonth(w)
      BY <1>0 DEF ReleasedMonth, AnalystShape
    <3> DEFINE u == aiUsage[m]
    <3>2. u \in Nat \cup {None} /\ aiUsage \in [Months -> Nat \cup {None}]
      BY <3>1 DEF Shapes, CountersFine
    <3>3. (IF u # None /\ u > 0 THEN u - 1 ELSE u) \in Nat \cup {None}
      <4> HIDE DEF u
      <4> QED BY <3>2
    <3>4. aiUsage' = [aiUsage EXCEPT ![m] = IF u # None /\ u > 0 THEN u - 1 ELSE u]
      BY <1>5, <3>1, <3>2 DEF ReleaseGeneration
    <3> QED BY <3>2, <3>3, <3>4
  <2> QED BY <1>5, <2>2, <2>3
          DEF ReleaseGeneration, AnalysisKeeps, Shapes, PlanFine, DocumentsFine, CountersFine, RestFine
<1>6. ASSUME analyst' = [analyst EXCEPT ![w] = IdleAnalyst], UsageKeeps, AnalysisKeeps,
             DocumentsFine'
      PROVE  Shapes'
  <2>1. JobsFine'
    BY <1>0, <1>6, IdleShape, Put
  <2> QED BY <1>6, <2>1 DEF UsageKeeps, AnalysisKeeps, Shapes, PlanFine, CountersFine, RestFine
<1>7. ASSUME NEW status \in {"completed", "failed", "skipped"}, SettleAnalysis(w, status)
      PROVE  Shapes'
  <2>1. DocumentsFine'
    BY <1>0, <1>7, SettledDocument DEF SettleAnalysis, Shapes, DocumentsFine
  <2> QED BY <1>6, <1>7, <2>1 DEF SettleAnalysis
<1>8. CASE RetryAnalysis(w)
  <2>1. DocumentsFine'
    BY <1>0, <1>8, FreedDocument DEF RetryAnalysis, Shapes, DocumentsFine
  <2> QED BY <1>6, <1>8, <2>1 DEF RetryAnalysis
<1> QED BY <1>1, <1>2, <1>3, <1>4, <1>5, <1>7, <1>8 DEF AnalystWorks, EndAnalysis

LEMMA ShapesStep == Shapes /\ [AnalysisNext]_analysisVars => Shapes'
<1> SUFFICES ASSUME Shapes, [AnalysisNext]_analysisVars PROVE Shapes'
  OBVIOUS
<1>1. JobsFine /\ DocumentsFine
  BY DEF Shapes
<1>2. CASE UNCHANGED analysisVars
  BY <1>2 DEF analysisVars, Shapes, JobsFine, PlanFine, DocumentsFine, CountersFine, RestFine
<1>3. ASSUME NEW i \in Incidents,
             EnqueueAutomatic(i) \/ DeleteIncident(i) \/ AnalysisFallsDue(i)
      PROVE  Shapes'
  <2>1. DocumentsFine'
    BY <1>1, <1>3, QueuedDocument, OtherDocuments DEF EnqueueAutomatic
  <2> QED BY <1>3, <2>1
          DEF EnqueueAutomatic, DeleteIncident, AnalysisFallsDue, UsageKeeps, AnalysisKeeps,
              Shapes, JobsFine, PlanFine, CountersFine, RestFine
<1>4. ASSUME NEW i \in Incidents, AskForAnalysis(i)
      PROVE  Shapes'
  <2>1. DocumentsFine'
    BY <1>1, <1>4, OtherDocuments
  <2> QED BY <1>4, <2>1
          DEF AskForAnalysis, UsageKeeps, Shapes, JobsFine, PlanFine, CountersFine, RestFine
<1>5. ASSUME NEW i \in Incidents, AnalysisLeaseLapses(i)
      PROVE  Shapes'
  <2>1. DocumentsFine'
    BY <1>1, <1>5, OtherDocuments
  <2>2. aiFaults' \in 0 .. MaxAnalysisFaults
    BY <1>5, IncidentAnalysisAssumption DEF AnalysisLeaseLapses, Shapes, RestFine
  <2> QED BY <1>5, <2>1, <2>2
          DEF AnalysisLeaseLapses, UsageKeeps, Shapes, JobsFine, PlanFine, CountersFine, RestFine
<1>6. ASSUME NEW w \in Analysts, NEW i \in Incidents, ClaimAnalysis(w, i)
      PROVE  Shapes'
  <2> DEFINE a == [IdleAnalyst EXCEPT !.pc = "begin", !.incident = i,
                                      !.attempts = analysis[i].attempts + 1]
  <2>1. DocumentsFine'
    BY <1>1, <1>6, ClaimedDocument DEF ClaimAnalysis
  <2>2. analysis[i].attempts + 1 \in Nat
    BY <1>1 DEF DocumentsFine, DocumentShape
  <2>3. a \in AnalystShape /\ WellPlaced(a)
    BY <2>2, IdleShape DEF AnalystShape, WellPlaced, IdleAnalyst
  <2>4. JobsFine'
    BY <1>1, <1>6, <2>3, Put DEF ClaimAnalysis
  <2> QED BY <1>6, <2>1, <2>4
          DEF ClaimAnalysis, UsageKeeps, AnalysisKeeps, Shapes, PlanFine, CountersFine, RestFine
<1>7. ASSUME NEW w \in Analysts, AnalystStops(w)
      PROVE  Shapes'
  <2>1. JobsFine'
    BY <1>1, <1>7, IdleShape, Put DEF AnalystStops
  <2>2. aiFaults' \in 0 .. MaxAnalysisFaults
    BY <1>7, IncidentAnalysisAssumption DEF AnalystStops, Shapes, RestFine
  <2>3. lost' \in [Months -> Nat]
    <3>1. analyst[w].month \in Months
      BY <1>1 DEF JobsFine, AnalystShape
    <3> QED BY <1>7, <3>1 DEF AnalystStops, Shapes, CountersFine
  <2> QED BY <1>7, <2>1, <2>2, <2>3
          DEF AnalystStops, Shapes, PlanFine, DocumentsFine, CountersFine, RestFine
<1>8. CASE RequestAnalysis
  <2>1. DocumentsFine'
    <3>1. CASE Queued(asker, TRUE)
      BY <1>1, <1>8, <3>1, QueuedDocument DEF RequestAnalysis, Shapes, RestFine
    <3>2. CASE UNCHANGED analysis
      BY <1>1, <3>2 DEF DocumentsFine
    <3> QED BY <1>8, <3>1, <3>2 DEF RequestAnalysis
  <2> QED BY <1>8, <2>1
          DEF RequestAnalysis, UsageKeeps, Shapes, JobsFine, PlanFine, CountersFine, RestFine
<1>9. CASE MonthBegins \/ CachedPlanExpires \/ ChangeAiPlan
  <2>1. PlanFine'
    <3>1. CASE MonthBegins \/ CachedPlanExpires
      BY <3>1 DEF MonthBegins, CachedPlanExpires, Shapes, PlanFine
    <3>2. CASE ChangeAiPlan
      <4>1. aiPlan.changes + 1 \in 0 .. MaxPlanChanges
        BY <3>2, IncidentAnalysisAssumption DEF ChangeAiPlan, Shapes, PlanFine
      <4> QED BY <3>2, <4>1 DEF ChangeAiPlan, Shapes, PlanFine
    <3> QED BY <1>9, <3>1, <3>2
  <2>2. month' \in Months
    <3>1. month \in Months /\ (month' = month \/ (month < MaxMonth /\ month' = month + 1))
      BY <1>9 DEF MonthBegins, CachedPlanExpires, ChangeAiPlan, Shapes, RestFine
    <3> QED BY <3>1, IncidentAnalysisAssumption DEF Months
  <2> QED BY <1>9, <2>1, <2>2
          DEF MonthBegins, CachedPlanExpires, ChangeAiPlan, UsageKeeps, Shapes, JobsFine,
              DocumentsFine, CountersFine, RestFine
<1> QED BY <1>2, <1>3, <1>4, <1>5, <1>6, <1>7, <1>8, <1>9, WorkShapes DEF AnalysisNext

-----------------------------------------------------------------------------
(* The allowance.                                                          *)

LEMMA ReservedInFinite ==
    ASSUME NEW m
    PROVE  IsFiniteSet(ReservedIn(m)) /\ Cardinality(ReservedIn(m)) \in Nat
<1>1. ReservedIn(m) \in SUBSET Analysts
  BY DEF ReservedIn
<1>2. IsFiniteSet(ReservedIn(m))
  BY <1>1, FS_Subset, IncidentAnalysisAssumption
<1> QED BY <1>2, FS_CardinalityType

LEMMA SpentType ==
    ASSUME CountersFine, NEW m \in Months
    PROVE  Spent(m) \in Nat
BY DEF CountersFine, Spent

\* A step that moves no reservation.
LEMMA SameCount ==
    ASSUME AllowanceHolds, UNCHANGED <<aiUsage, answered, lost>>,
           \A m \in Months : ReservedIn(m)' = ReservedIn(m)
    PROVE  AllowanceHolds'
BY DEF AllowanceHolds, Spent

\* A job that holds no reservation before and after.
LEMMA NoReservation ==
    ASSUME NEW w \in Analysts, \A v \in Analysts \ {w} : analyst'[v] = analyst[v],
           \/ ~Reserved(w) /\ ~Reserved(w)'
           \/ Reserved(w) /\ Reserved(w)' /\ analyst'[w].month = analyst[w].month
    PROVE  \A m \in Months : ReservedIn(m)' = ReservedIn(m)
BY DEF ReservedIn, Reserved

LEMMA SameAnalysts ==
    ASSUME UNCHANGED analyst
    PROVE  \A m \in Months : ReservedIn(m)' = ReservedIn(m)
BY DEF ReservedIn, Reserved

\* A reservation is made below the limit of a plan the job has seen, or is the first of its
\* month, with a plan that allows one.
LEMMA ReserveCount ==
    ASSUME Shapes, AllowanceHolds, NEW w \in Analysts, NEW m \in Months, Reserve(w, m),
           analyst[w].pc \in {"reserve", "insert", "collided"},
           BelowAllowance(w, m) \/ aiUsage[m] = None
    PROVE  AllowanceHolds'
<1>0. /\ analyst \in [Analysts -> AnalystShape] /\ CountersFine /\ CountersFine'
      /\ analyst[w].plan \in AiPlans /\ HasAiInsights(analyst[w].plan)
      /\ ~Reserved(w)
  BY ReserveShapes DEF Shapes, JobsFine, WellPlaced, Reserved
<1>1. Reserved(w)' /\ analyst'[w].month = m /\ \A v \in Analysts \ {w} : analyst'[v] = analyst[v]
  BY <1>0 DEF Reserve, Reserved, AnalystShape
<1>2. ReservedIn(m)' = ReservedIn(m) \cup {w} /\ w \notin ReservedIn(m)
  BY <1>0, <1>1 DEF ReservedIn, Reserved
<1>3. \A n \in Months \ {m} : ReservedIn(n)' = ReservedIn(n)
  BY <1>0, <1>1 DEF ReservedIn, Reserved
<1>4. Cardinality(ReservedIn(m)') = Cardinality(ReservedIn(m)) + 1
  BY <1>2, ReservedInFinite, FS_AddElement
<1>5. UNCHANGED <<answered, lost>> /\ \A n \in Months \ {m} : aiUsage'[n] = aiUsage[n]
  BY <1>0 DEF Reserve, CountersFine
<1>6. aiUsage'[m] = Spent(m) + 1
  BY <1>0 DEF Reserve, CountersFine, Spent
<1>7. Spent(m)' = Spent(m) + 1
  BY <1>0, <1>6, SpentType, IncidentAnalysisAssumption DEF Spent
<1>8. \A n \in Months \ {m} : Spent(n)' = Spent(n)
  BY <1>5 DEF Spent
<1>9. Spent(m) < Allowance[analyst[w].plan]
  <2>1. Allowance[analyst[w].plan] \in Nat
    BY <1>0, IncidentAnalysisAssumption DEF AiPlans
  <2> QED BY <1>0, <2>1 DEF BelowAllowance, Spent, HasAiInsights
<1>10. ASSUME NEW p \in AiPlans, \A q \in AiPlans : Allowance[q] <= Allowance[p]
       PROVE  Spent(m)' <= Allowance[p]
  <2>1. Allowance[analyst[w].plan] <= Allowance[p]
    BY <1>0, <1>10
  <2>2. Allowance[analyst[w].plan] \in Nat /\ Allowance[p] \in Nat
    BY <1>0, IncidentAnalysisAssumption DEF AiPlans
  <2> QED BY <1>0, <1>7, <1>9, <2>1, <2>2, SpentType
<1>11. Spent(m)' = answered'[m] + lost'[m] + Cardinality(ReservedIn(m)')
  <2>1. Spent(m) = answered[m] + lost[m] + Cardinality(ReservedIn(m))
    BY DEF AllowanceHolds
  <2>2. answered[m] \in Nat /\ lost[m] \in Nat
    BY <1>0 DEF CountersFine
  <2> QED BY <1>4, <1>5, <1>7, <2>1, <2>2, ReservedInFinite
<1>12. ASSUME NEW n \in Months
       PROVE  /\ Spent(n)' = answered'[n] + lost'[n] + Cardinality(ReservedIn(n)')
              /\ \A p \in AiPlans : (\A q \in AiPlans : Allowance[q] <= Allowance[p])
                                    => Spent(n)' <= Allowance[p]
  <2>1. CASE n = m
    BY <1>10, <1>11, <2>1
  <2>2. CASE n # m
    BY <1>3, <1>5, <1>8, <2>2 DEF AllowanceHolds
  <2> QED BY <2>1, <2>2
<1> QED BY <1>12 DEF AllowanceHolds

\* A reservation ends as a summary, as a generation a fault cut off, or is given back.
LEMMA LeaveCount ==
    ASSUME Shapes, AllowanceHolds, NEW w \in Analysts, Reserved(w), ~Reserved(w)',
           \A v \in Analysts \ {w} : analyst'[v] = analyst[v],
           NEW m \in Months, m = analyst[w].month,
           CountersFine',
           \A n \in Months \ {m} : /\ aiUsage'[n] = aiUsage[n]
                                   /\ answered'[n] = answered[n] /\ lost'[n] = lost[n],
           \/ /\ aiUsage'[m] = aiUsage[m]
              /\ answered'[m] + lost'[m] = answered[m] + lost[m] + 1
           \/ /\ aiUsage'[m] = IF aiUsage[m] # None /\ aiUsage[m] > 0 THEN aiUsage[m] - 1
                                                                     ELSE aiUsage[m]
              /\ answered'[m] = answered[m] /\ lost'[m] = lost[m]
    PROVE  AllowanceHolds'
<1>0. CountersFine
  BY DEF Shapes
<1>1. ReservedIn(m)' = ReservedIn(m) \ {w} /\ w \in ReservedIn(m)
  BY DEF ReservedIn, Reserved
<1>2. \A n \in Months \ {m} : ReservedIn(n)' = ReservedIn(n)
  BY DEF ReservedIn, Reserved
<1>3. Cardinality(ReservedIn(m)') = Cardinality(ReservedIn(m)) - 1
  BY <1>1, ReservedInFinite, FS_RemoveElement
<1>4. Cardinality(ReservedIn(m)') \in Nat
  BY <1>1, ReservedInFinite, FS_RemoveElement, FS_CardinalityType
<1>5. Spent(m) = answered[m] + lost[m] + Cardinality(ReservedIn(m))
  BY DEF AllowanceHolds
<1>6. /\ answered[m] \in Nat /\ lost[m] \in Nat /\ answered'[m] \in Nat /\ lost'[m] \in Nat
      /\ Spent(m) \in Nat /\ Cardinality(ReservedIn(m)) \in Nat
  BY <1>0, SpentType, ReservedInFinite DEF CountersFine
<1>7. Spent(m) > 0
  BY <1>3, <1>4, <1>5, <1>6
<1>8. aiUsage[m] # None /\ aiUsage[m] = Spent(m)
  BY <1>7 DEF Spent
<1>9. /\ Spent(m)' = answered'[m] + lost'[m] + Cardinality(ReservedIn(m)')
      /\ Spent(m)' <= Spent(m)
  <2>1. CASE /\ aiUsage'[m] = aiUsage[m]
             /\ answered'[m] + lost'[m] = answered[m] + lost[m] + 1
    <3>1. Spent(m)' = Spent(m)
      BY <2>1 DEF Spent
    <3> QED BY <1>3, <1>4, <1>5, <1>6, <2>1, <3>1
  <2>2. CASE /\ aiUsage'[m] = IF aiUsage[m] # None /\ aiUsage[m] > 0 THEN aiUsage[m] - 1
                                                                     ELSE aiUsage[m]
             /\ answered'[m] = answered[m] /\ lost'[m] = lost[m]
    <3>1. aiUsage'[m] = Spent(m) - 1
      BY <1>7, <1>8, <2>2
    <3>2. Spent(m) - 1 \in Nat
      BY <1>6, <1>7
    <3>3. Spent(m)' = Spent(m) - 1
      BY <3>1, <3>2, IncidentAnalysisAssumption DEF Spent
    <3> QED BY <1>3, <1>4, <1>5, <1>6, <2>2, <3>3
  <2> QED BY <2>1, <2>2
<1>10. \A n \in Months \ {m} : Spent(n)' = Spent(n)
  BY DEF Spent
<1>11. ASSUME NEW n \in Months
       PROVE  /\ Spent(n)' = answered'[n] + lost'[n] + Cardinality(ReservedIn(n)')
              /\ \A p \in AiPlans : (\A q \in AiPlans : Allowance[q] <= Allowance[p])
                                    => Spent(n)' <= Allowance[p]
  <2>1. CASE n = m
    <3>1. \A p \in AiPlans : Allowance[p] \in Nat
      BY IncidentAnalysisAssumption DEF AiPlans
    <3>2. Spent(m)' \in Nat
      BY SpentType DEF Spent, CountersFine
    <3>3. ASSUME NEW p \in AiPlans, \A q \in AiPlans : Allowance[q] <= Allowance[p]
          PROVE  Spent(m)' <= Allowance[p]
      <4>1. Spent(m) <= Allowance[p]
        BY <3>3 DEF AllowanceHolds
      <4> QED BY <1>6, <1>9, <3>1, <3>2, <4>1
    <3> QED BY <1>9, <2>1, <3>3
  <2>2. CASE n # m
    BY <1>2, <1>10, <2>2 DEF AllowanceHolds
  <2> QED BY <2>1, <2>2
<1> QED BY <1>11 DEF AllowanceHolds

LEMMA WorkCount ==
    ASSUME Shapes, AllowanceHolds, NEW w \in Analysts, AnalystWorks(w)
    PROVE  AllowanceHolds'
<1>0. /\ analyst \in [Analysts -> AnalystShape] /\ WellPlaced(analyst[w])
      /\ analyst[w].month \in Months /\ month \in Months
  BY DEF Shapes, JobsFine, RestFine, AnalystShape
<1>1. ASSUME ~Reserved(w), NEW a, analyst' = [analyst EXCEPT ![w] = a],
             a.pc \notin {"generate", "release"}, UNCHANGED <<aiUsage, answered, lost>>
      PROVE  AllowanceHolds'
  <2>1. analyst'[w] = a /\ \A v \in Analysts \ {w} : analyst'[v] = analyst[v]
    BY <1>0, <1>1
  <2> QED BY <1>1, <2>1, NoReservation, SameCount DEF Reserved
<1>2. ASSUME ~Reserved(w), NEW pc, AtAnalysis(w, pc), pc \notin {"generate", "release"},
             UNCHANGED <<aiUsage, answered, lost>>
      PROVE  AllowanceHolds'
  <2> DEFINE a == [analyst[w] EXCEPT !.pc = pc]
  <2>1. analyst' = [analyst EXCEPT ![w] = a] /\ a.pc = pc
    BY <1>0, <1>2 DEF AtAnalysis, AnalystShape
  <2> HIDE DEF a
  <2> QED BY <1>1, <1>2, <2>1
<1>3. CASE BeginAnalysis(w)
  <2>1. ~Reserved(w) /\ UNCHANGED <<aiUsage, answered, lost>>
    BY <1>3 DEF BeginAnalysis, Reserved, UsageKeeps
  <2>2. CASE AtAnalysis(w, "failed") \/ AtAnalysis(w, "skipped")
    BY <1>2, <2>1, <2>2
  <2>3. CASE analyst' = [analyst EXCEPT
                 ![w].pc = IF HasAiInsights(SeenPlan) THEN "reserve" ELSE "skipped",
                 ![w].plan = SeenPlan]
    <3> DEFINE a == [analyst[w] EXCEPT
                 !.pc = IF HasAiInsights(SeenPlan) THEN "reserve" ELSE "skipped",
                 !.plan = SeenPlan]
    <3>1. analyst' = [analyst EXCEPT ![w] = a] /\ a.pc \in {"reserve", "skipped"}
      BY <1>0, <2>3 DEF AnalystShape
    <3> HIDE DEF a
    <3> QED BY <1>1, <2>1, <3>1
  <2> QED BY <1>3, <2>2, <2>3 DEF BeginAnalysis
<1>4. CASE ReserveGeneration(w)
  <2>1. CASE BelowAllowance(w, month) /\ Reserve(w, month)
    BY <1>0, <1>4, <2>1, ReserveCount DEF ReserveGeneration
  <2>2. CASE /\ analyst' = [analyst EXCEPT ![w].pc = "insert", ![w].month = month]
             /\ UsageKeeps
    <3> DEFINE a == [analyst[w] EXCEPT !.pc = "insert", !.month = month]
    <3>1. analyst' = [analyst EXCEPT ![w] = a] /\ a.pc = "insert"
      BY <1>0, <2>2 DEF AnalystShape
    <3>2. ~Reserved(w)
      BY <1>4 DEF ReserveGeneration, Reserved
    <3> HIDE DEF a
    <3> QED BY <1>1, <2>2, <3>1, <3>2 DEF UsageKeeps
  <2> QED BY <1>4, <2>1, <2>2 DEF ReserveGeneration
<1>5. CASE InsertUsage(w) \/ ReserveAgain(w)
  <2>1. analyst[w].pc \in {"reserve", "insert", "collided"} /\ ~Reserved(w)
    BY <1>5 DEF InsertUsage, ReserveAgain, Reserved
  <2>2. \/ /\ Reserve(w, analyst[w].month)
           /\ BelowAllowance(w, analyst[w].month) \/ aiUsage[analyst[w].month] = None
        \/ (AtAnalysis(w, "collided") \/ AtAnalysis(w, "skipped")) /\ UsageKeeps
    BY <1>5 DEF InsertUsage, ReserveAgain
  <2> QED BY <1>0, <1>2, <2>1, <2>2, ReserveCount DEF UsageKeeps
<1>6. CASE Generate(w)
  <2>1. UNCHANGED <<aiUsage, lost>> /\ Reserved(w)
    BY <1>6 DEF Generate, Reserved
  <2>2. CountersFine /\ CountersFine'
    BY <1>6, WorkShapes DEF Shapes, AnalystWorks
  <2>3. CASE AtAnalysis(w, "complete") /\ answered' = [answered EXCEPT ![analyst[w].month] = @ + 1]
    <3>1. ~Reserved(w)' /\ \A v \in Analysts \ {w} : analyst'[v] = analyst[v]
      BY <1>0, <2>3 DEF AtAnalysis, AnalystShape, Reserved
    <3>2. \A n \in Months \ {analyst[w].month} : answered'[n] = answered[n]
      BY <2>2, <2>3 DEF CountersFine
    <3>3. answered'[analyst[w].month] = answered[analyst[w].month] + 1
      BY <1>0, <2>2, <2>3 DEF CountersFine
    <3>4. /\ answered[analyst[w].month] \in Nat /\ lost[analyst[w].month] \in Nat
      BY <1>0, <2>2 DEF CountersFine
    <3>5. answered'[analyst[w].month] + lost'[analyst[w].month]
             = answered[analyst[w].month] + lost[analyst[w].month] + 1
      BY <2>1, <3>3, <3>4
    <3> QED BY <1>0, <2>1, <2>2, <3>1, <3>2, <3>5, LeaveCount
  <2>4. ASSUME NEW e, analyst' = [analyst EXCEPT ![w].pc = "release", ![w].error = e],
               UNCHANGED answered
        PROVE  AllowanceHolds'
    <3>1. /\ Reserved(w)' /\ analyst'[w].month = analyst[w].month
          /\ \A v \in Analysts \ {w} : analyst'[v] = analyst[v]
      BY <1>0, <2>4 DEF AnalystShape, Reserved
    <3> QED BY <2>1, <2>4, <3>1, NoReservation, SameCount
  <2> QED BY <1>6, <2>3, <2>4 DEF Generate
<1>7. CASE ReleaseGeneration(w)
  <2>1. UNCHANGED <<answered, lost>> /\ Reserved(w)
    BY <1>7 DEF ReleaseGeneration, Reserved
  <2>2. CountersFine /\ CountersFine'
    BY <1>7, WorkShapes DEF Shapes, AnalystWorks
  <2>3. AfterRelease(w).pc \in {"idle", "retry", "failed"}
    BY <1>0, IdleShape DEF AfterRelease, AnalystShape
  <2>4. ~Reserved(w)' /\ \A v \in Analysts \ {w} : analyst'[v] = analyst[v]
    BY <1>0, <1>7, <2>3 DEF ReleaseGeneration, Reserved
  <2> DEFINE m == analyst[w].month
  <2>5. aiUsage'[m] = IF aiUsage[m] # None /\ aiUsage[m] > 0 THEN aiUsage[m] - 1 ELSE aiUsage[m]
    BY <1>0, <1>7, <2>2 DEF ReleaseGeneration, ReleasedMonth, CountersFine
  <2>6. \A n \in Months \ {m} : aiUsage'[n] = aiUsage[n]
    BY <1>7, <2>2 DEF ReleaseGeneration, ReleasedMonth, CountersFine
  <2> QED BY <1>0, <2>1, <2>2, <2>4, <2>5, <2>6, LeaveCount
<1>8. CASE EndAnalysis(w) \/ RetryAnalysis(w)
  <2>1. ~Reserved(w) /\ analyst' = [analyst EXCEPT ![w] = IdleAnalyst] /\ UsageKeeps
    BY <1>8 DEF EndAnalysis, SettleAnalysis, RetryAnalysis, Reserved
  <2> QED BY <1>1, <2>1, IdleShape DEF UsageKeeps
<1> QED BY <1>3, <1>4, <1>5, <1>6, <1>7, <1>8 DEF AnalystWorks

LEMMA StopCount ==
    ASSUME Shapes, AllowanceHolds, NEW w \in Analysts, AnalystStops(w), CountersFine'
    PROVE  AllowanceHolds'
<1>0. /\ analyst \in [Analysts -> AnalystShape] /\ analyst[w].month \in Months /\ CountersFine
  BY DEF Shapes, JobsFine, AnalystShape
<1>1. ~Reserved(w)' /\ \A v \in Analysts \ {w} : analyst'[v] = analyst[v]
  BY <1>0, IdleShape DEF AnalystStops, Reserved
<1>2. CASE ~Reserved(w)
  BY <1>1, <1>2, NoReservation, SameCount DEF AnalystStops
<1>3. CASE Reserved(w)
  <2> DEFINE m == analyst[w].month
  <2>1. lost' = [lost EXCEPT ![m] = @ + 1] /\ UNCHANGED <<aiUsage, answered>>
    BY <1>3 DEF AnalystStops
  <2>2. lost'[m] = lost[m] + 1 /\ \A n \in Months \ {m} : lost'[n] = lost[n]
    BY <1>0, <2>1 DEF CountersFine
  <2>3. lost[m] \in Nat /\ answered[m] \in Nat
    BY <1>0 DEF CountersFine
  <2>4. answered'[m] + lost'[m] = answered[m] + lost[m] + 1
    BY <2>1, <2>2, <2>3
  <2> QED BY <1>0, <1>1, <1>3, <2>1, <2>2, <2>4, LeaveCount
<1> QED BY <1>2, <1>3

LEMMA CountStep == Shapes /\ AllowanceHolds /\ [AnalysisNext]_analysisVars => AllowanceHolds'
<1> SUFFICES ASSUME Shapes, AllowanceHolds, [AnalysisNext]_analysisVars PROVE AllowanceHolds'
  OBVIOUS
<1>1. ASSUME UNCHANGED <<analyst, aiUsage, answered, lost>>
      PROVE  AllowanceHolds'
  BY <1>1, SameAnalysts, SameCount
<1>2. CASE UNCHANGED analysisVars
  BY <1>1, <1>2 DEF analysisVars
<1>3. ASSUME NEW i \in Incidents,
             \/ EnqueueAutomatic(i) \/ AskForAnalysis(i) \/ DeleteIncident(i)
             \/ AnalysisFallsDue(i) \/ AnalysisLeaseLapses(i)
      PROVE  AllowanceHolds'
  BY <1>1, <1>3
     DEF EnqueueAutomatic, AskForAnalysis, DeleteIncident, AnalysisFallsDue,
         AnalysisLeaseLapses, UsageKeeps
<1>4. CASE RequestAnalysis \/ MonthBegins \/ ChangeAiPlan \/ CachedPlanExpires
  BY <1>1, <1>4 DEF RequestAnalysis, MonthBegins, ChangeAiPlan, CachedPlanExpires, UsageKeeps
<1>5. ASSUME NEW w \in Analysts, NEW i \in Incidents, ClaimAnalysis(w, i)
      PROVE  AllowanceHolds'
  <2>1. analyst \in [Analysts -> AnalystShape]
    BY DEF Shapes, JobsFine
  <2>2. analyst'[w].pc = "begin" /\ \A v \in Analysts \ {w} : analyst'[v] = analyst[v]
    BY <1>5, <2>1 DEF ClaimAnalysis, IdleAnalyst
  <2> QED BY <1>5, <2>2, NoReservation, SameCount DEF ClaimAnalysis, Reserved, UsageKeeps
<1>6. ASSUME NEW w \in Analysts, AnalystStops(w)
      PROVE  AllowanceHolds'
  <2>1. CountersFine'
    BY ShapesStep DEF Shapes
  <2> QED BY <1>6, <2>1, StopCount
<1> QED BY <1>2, <1>3, <1>4, <1>5, <1>6, WorkCount DEF AnalysisNext

LEMMA InitCount == AnalysisInit => AllowanceHolds
<1> SUFFICES ASSUME AnalysisInit PROVE AllowanceHolds
  OBVIOUS
<1>1. ASSUME NEW m \in Months
      PROVE  Spent(m) = 0 /\ answered[m] = 0 /\ lost[m] = 0 /\ Cardinality(ReservedIn(m)) = 0
  <2>1. ReservedIn(m) = {}
    BY IdleShape DEF AnalysisInit, ReservedIn, Reserved
  <2> QED BY <2>1, FS_EmptySet DEF AnalysisInit, Spent
<1>2. \A p \in AiPlans : Allowance[p] >= 0
  BY IncidentAnalysisAssumption DEF AiPlans
<1> QED BY <1>1, <1>2 DEF AllowanceHolds

\* The counter of a month is what was answered, what is under way and what a fault lost, and
\* no more than the largest allowance is ever paid for.
THEOREM AllowanceHoldsAlways == AnalysisSpec => []AllowanceHolds
BY InitShapes, InitCount, ShapesStep, CountStep, PTL DEF AnalysisSpec

-----------------------------------------------------------------------------
(* How often an analysis is taken up.  Jobs overlap on an incident only    *)
(* after a fault, and only those with attempts left give it back, so that  *)
(* every attempt beyond the last one planned is paid for by a fault.       *)

\* The jobs that work on an incident, but those a fault has already ended.
On(i) == {w \in Analysts : analyst[w].incident = i /\ analyst[w].error # "fault"}

CanRetry(i) == {w \in On(i) : analyst[w].attempts < AnalysisAttempts}

\* The lease is held, and there is somebody to let go of it.
HeldByJob(i) == analysis[i].lease = "held" /\ On(i) # {}

FewAtOnce(i) ==
    /\ Cardinality(On(i)) <= aiFaults + 1
    /\ analysis[i].state = "resolved" /\ analysis[i].lease # "held" =>
           Cardinality(On(i)) <= aiFaults

FewTries(i) ==
    /\ analysis[i].attempts <= AnalysisAttempts + aiFaults
    /\ Pending(i) /\ analysis[i].attempts >= AnalysisAttempts =>
           analysis[i].attempts + Cardinality(CanRetry(i)) + (IF HeldByJob(i) THEN 0 ELSE 1)
               <= AnalysisAttempts + aiFaults

OnlyPendingHeld(i) == analysis[i].lease = "held" => analysis[i].status = "pending"

QueueFine(i) == FewAtOnce(i) /\ FewTries(i) /\ OnlyPendingHeld(i)

JobsBounded == \A w \in Analysts : analyst[w].attempts <= AnalysisAttempts + aiFaults

QueueInv == JobsBounded /\ \A i \in Incidents : QueueFine(i)

SameDocument(i) ==
    /\ analysis'[i].state = analysis[i].state /\ analysis'[i].status = analysis[i].status
    /\ analysis'[i].attempts = analysis[i].attempts /\ analysis'[i].lease = analysis[i].lease

SameJobs(i) == On(i)' = On(i) /\ CanRetry(i)' = CanRetry(i)

Numbers ==
    /\ aiFaults \in Nat /\ AnalysisAttempts \in Nat /\ AnalysisAttempts > 0
    /\ \A i \in Incidents : analysis[i].attempts \in Nat
    /\ \A w \in Analysts : analyst[w].attempts \in Nat

LEMMA ShapesNumbers == Shapes => Numbers
BY IncidentAnalysisAssumption
   DEF Shapes, Numbers, JobsFine, AnalystShape, DocumentsFine, DocumentShape, RestFine

LEMMA OnFinite ==
    ASSUME NEW i
    PROVE  /\ IsFiniteSet(On(i)) /\ Cardinality(On(i)) \in Nat
           /\ IsFiniteSet(CanRetry(i)) /\ Cardinality(CanRetry(i)) \in Nat
           /\ Cardinality(CanRetry(i)) <= Cardinality(On(i))
<1>1. On(i) \in SUBSET Analysts /\ CanRetry(i) \in SUBSET On(i)
  BY DEF On, CanRetry
<1>2. IsFiniteSet(On(i))
  BY <1>1, FS_Subset, IncidentAnalysisAssumption
<1>3. IsFiniteSet(CanRetry(i)) /\ Cardinality(CanRetry(i)) <= Cardinality(On(i))
  BY <1>1, <1>2, FS_Subset
<1> QED BY <1>2, <1>3, FS_CardinalityType

\* An incident whose document and jobs stay as they are.
LEMMA FineKept ==
    ASSUME Numbers, Numbers', NEW i \in Incidents, QueueFine(i), SameDocument(i), SameJobs(i),
           aiFaults' >= aiFaults
    PROVE  QueueFine(i)'
<1>1. FewAtOnce(i)'
  BY OnFinite DEF QueueFine, FewAtOnce, SameDocument, SameJobs, Numbers
<1>2. HeldByJob(i)' = HeldByJob(i) /\ Pending(i)' = Pending(i)
  BY DEF HeldByJob, Pending, SameDocument, SameJobs
<1>3. FewTries(i)'
  BY <1>2, OnFinite DEF QueueFine, FewTries, SameDocument, SameJobs, Numbers
<1> QED BY <1>1, <1>3 DEF QueueFine, OnlyPendingHeld, SameDocument

\* A fault that takes a job away.
LEMMA FineFewer ==
    ASSUME Numbers, Numbers', NEW i \in Incidents, QueueFine(i), SameDocument(i),
           On(i)' \subseteq On(i), CanRetry(i)' \subseteq CanRetry(i),
           aiFaults' >= aiFaults + 1
    PROVE  QueueFine(i)'
<1>1. /\ Cardinality(On(i)') <= Cardinality(On(i))
      /\ Cardinality(CanRetry(i)') <= Cardinality(CanRetry(i))
      /\ Cardinality(On(i)') \in Nat /\ Cardinality(CanRetry(i)') \in Nat
  BY OnFinite, FS_Subset, FS_CardinalityType
<1>2. FewAtOnce(i)'
  BY <1>1, OnFinite DEF QueueFine, FewAtOnce, SameDocument, Numbers
<1>3. Pending(i)' = Pending(i)
  BY DEF Pending, SameDocument
<1>4. FewTries(i)'
  <2>1. analysis'[i].attempts <= AnalysisAttempts + aiFaults'
    BY DEF QueueFine, FewTries, SameDocument, Numbers
  <2>2. ASSUME Pending(i), analysis[i].attempts >= AnalysisAttempts
        PROVE  analysis[i].attempts + Cardinality(CanRetry(i)') + 1
                   <= AnalysisAttempts + aiFaults'
    <3>1. analysis[i].attempts + Cardinality(CanRetry(i)) <= AnalysisAttempts + aiFaults
      BY <2>2, OnFinite DEF QueueFine, FewTries, Numbers
    <3> QED BY <1>1, <3>1, OnFinite DEF Numbers
  <2>3. analysis'[i].attempts = analysis[i].attempts
    BY DEF SameDocument
  <2>4. (IF HeldByJob(i)' THEN 0 ELSE 1) \in {0, 1}
    OBVIOUS
  <2> QED BY <1>1, <1>3, <2>1, <2>2, <2>3, <2>4 DEF FewTries, Numbers
<1> QED BY <1>2, <1>4 DEF QueueFine, OnlyPendingHeld, SameDocument

\* A job that ends lets go of what it had: it settles the analysis or gives it back.
LEMMA FineLeft ==
    ASSUME Numbers, Numbers', NEW i \in Incidents, QueueFine(i), NEW w \in On(i),
           On(i)' = On(i) \ {w}, CanRetry(i)' = CanRetry(i) \ {w}, UNCHANGED aiFaults,
           analysis'[i].attempts = analysis[i].attempts, OnlyPendingHeld(i)',
           \/ ~Pending(i)'
           \/ Pending(i) /\ w \in CanRetry(i)
    PROVE  QueueFine(i)'
<1>1. Cardinality(On(i)') = Cardinality(On(i)) - 1 /\ Cardinality(On(i)') \in Nat
  BY OnFinite, FS_RemoveElement, FS_CardinalityType
<1>2. FewAtOnce(i)'
  BY <1>1, OnFinite DEF QueueFine, FewAtOnce, Numbers
<1>3. FewTries(i)'
  <2>1. CASE ~Pending(i)'
    BY <2>1 DEF QueueFine, FewTries, Numbers
  <2>2. CASE Pending(i) /\ w \in CanRetry(i)
    <3>1. Cardinality(CanRetry(i)') = Cardinality(CanRetry(i)) - 1
      BY <2>2, OnFinite, FS_RemoveElement
    <3>2. (IF HeldByJob(i)' THEN 0 ELSE 1) \in {0, 1} /\ (IF HeldByJob(i) THEN 0 ELSE 1) \in {0, 1}
      OBVIOUS
    <3> QED BY <2>2, <3>1, <3>2, OnFinite DEF QueueFine, FewTries, Numbers
  <2> QED BY <2>1, <2>2
<1> QED BY <1>2, <1>3 DEF QueueFine

\* A lease lapses at no cost only where nobody is left to hold it.
LEMMA FineLapsed ==
    ASSUME Numbers, Numbers', NEW i \in Incidents, QueueFine(i), SameJobs(i),
           analysis[i].lease = "held", analysis'[i].lease = "lapsed",
           analysis'[i].state = analysis[i].state, analysis'[i].status = analysis[i].status,
           analysis'[i].attempts = analysis[i].attempts,
           aiFaults' >= aiFaults, On(i) # {} => aiFaults' = aiFaults + 1
    PROVE  QueueFine(i)'
<1>1. On(i) = {} => Cardinality(On(i)) = 0
  BY FS_EmptySet
<1>2. FewAtOnce(i)'
  BY <1>1, OnFinite DEF QueueFine, FewAtOnce, SameJobs, Numbers
<1>3. Pending(i)' = Pending(i) /\ ~HeldByJob(i)'
  BY DEF Pending, HeldByJob
<1>4. FewTries(i)'
  <2>1. CASE On(i) = {}
    BY <1>3, <2>1, OnFinite DEF QueueFine, FewTries, HeldByJob, SameJobs, Numbers
  <2>2. CASE On(i) # {}
    BY <1>3, <2>2, OnFinite DEF QueueFine, FewTries, HeldByJob, SameJobs, Numbers
  <2> QED BY <2>1, <2>2
<1> QED BY <1>2, <1>4 DEF QueueFine, OnlyPendingHeld

\* One more takes up an analysis that nobody keeps.
LEMMA FineClaimed ==
    ASSUME Numbers, Numbers', NEW i \in Incidents, QueueFine(i), NEW w, w \notin On(i),
           Pending(i), analysis[i].lease # "held",
           On(i)' = On(i) \cup {w},
           analysis[i].attempts + 1 >= AnalysisAttempts => CanRetry(i)' = CanRetry(i),
           analysis'[i].attempts = analysis[i].attempts + 1,
           analysis'[i].lease = "held", Pending(i)', UNCHANGED aiFaults
    PROVE  QueueFine(i)'
<1>1. Cardinality(On(i)') = Cardinality(On(i)) + 1
  BY OnFinite, FS_AddElement
<1>2. Cardinality(On(i)) <= aiFaults
  BY DEF QueueFine, FewAtOnce, Pending
<1>3. FewAtOnce(i)'
  BY <1>1, <1>2, OnFinite DEF FewAtOnce, Numbers
<1>4. HeldByJob(i)' /\ ~HeldByJob(i)
  BY DEF HeldByJob
<1>5. FewTries(i)'
  <2>1. CASE analysis[i].attempts >= AnalysisAttempts
    <3>1. analysis[i].attempts + Cardinality(CanRetry(i)) + 1 <= AnalysisAttempts + aiFaults
      BY <1>4, <2>1 DEF QueueFine, FewTries
    <3>2. CanRetry(i)' = CanRetry(i)
      BY <2>1 DEF Numbers
    <3> QED BY <1>4, <3>1, <3>2, OnFinite DEF FewTries, Numbers
  <2>2. CASE analysis[i].attempts + 1 = AnalysisAttempts
    <3>1. CanRetry(i)' = CanRetry(i)
      BY <2>2 DEF Numbers
    <3>2. Cardinality(CanRetry(i)) <= aiFaults
      BY <1>2, OnFinite DEF Numbers
    <3> QED BY <1>4, <2>2, <3>1, <3>2, OnFinite DEF FewTries, Numbers
  <2>3. CASE analysis[i].attempts + 1 < AnalysisAttempts
    BY <2>3 DEF FewTries, Numbers
  <2> QED BY <2>1, <2>2, <2>3 DEF Numbers
<1> QED BY <1>3, <1>5 DEF QueueFine, OnlyPendingHeld, Pending

\* Asked for anew: the attempts start again, and nobody holds it.
LEMMA FineQueued ==
    ASSUME Numbers, Numbers', NEW i \in Incidents, QueueFine(i), SameJobs(i),
           analysis[i].state = "resolved", analysis[i].status # "pending",
           analysis'[i].attempts = 0, analysis'[i].lease = "none", UNCHANGED aiFaults
    PROVE  QueueFine(i)'
<1>1. FewAtOnce(i)'
  BY DEF QueueFine, FewAtOnce, OnlyPendingHeld, SameJobs
<1> QED BY <1>1 DEF QueueFine, FewTries, OnlyPendingHeld, Numbers

LEMMA FineDeleted ==
    ASSUME Numbers, Numbers', NEW i \in Incidents, QueueFine(i), SameJobs(i),
           analysis'[i].state = "gone", analysis'[i].attempts = analysis[i].attempts,
           OnlyPendingHeld(i)', UNCHANGED aiFaults
    PROVE  QueueFine(i)'
BY DEF QueueFine, FewAtOnce, FewTries, Pending, SameJobs

-----------------------------------------------------------------------------
\* A job goes on with its incident, or leaves it when a fault had ended it before.
SameWork(w) ==
    \/ /\ analyst'[w].incident = analyst[w].incident
       /\ analyst'[w].attempts = analyst[w].attempts
       /\ (analyst'[w].error = "fault") = (analyst[w].error = "fault")
    \/ analyst[w].error = "fault" /\ analyst'[w].incident = None

EndedByFault(w) ==
    analyst'[w].error = "fault" /\ analyst'[w].incident = analyst[w].incident

LEMMA SameOn ==
    ASSUME NEW w \in Analysts, \A v \in Analysts \ {w} : analyst'[v] = analyst[v],
           SameWork(w)
    PROVE  \A i \in Incidents : SameJobs(i)
<1> SUFFICES ASSUME NEW i \in Incidents PROVE SameJobs(i)
  OBVIOUS
<1>1. On(i)' = On(i)
  BY IncidentAnalysisAssumption DEF On, SameWork
<1>2. \A v \in On(i) : analyst'[v].attempts = analyst[v].attempts
  BY IncidentAnalysisAssumption DEF On, SameWork
<1> QED BY <1>1, <1>2 DEF SameJobs, CanRetry

LEMMA UnchangedOn ==
    ASSUME UNCHANGED analyst PROVE \A i \in Incidents : SameJobs(i)
BY DEF SameJobs, On, CanRetry

\* A job leaves the incident it was on, if it was on one.
LEMMA LeftOn ==
    ASSUME NEW w \in Analysts, \A v \in Analysts \ {w} : analyst'[v] = analyst[v],
           \/ analyst'[w].incident = None
           \/ EndedByFault(w)
    PROVE  \A i \in Incidents :
               /\ On(i)' = On(i) \ {w} /\ CanRetry(i)' = CanRetry(i) \ {w}
               /\ i # analyst[w].incident => SameJobs(i)
<1> SUFFICES ASSUME NEW i \in Incidents
             PROVE  /\ On(i)' = On(i) \ {w} /\ CanRetry(i)' = CanRetry(i) \ {w}
                    /\ i # analyst[w].incident => SameJobs(i)
  OBVIOUS
<1>1. On(i)' = On(i) \ {w}
  BY IncidentAnalysisAssumption DEF On, EndedByFault
<1>2. \A v \in On(i) \ {w} : analyst'[v].attempts = analyst[v].attempts
  BY DEF On
<1>3. CanRetry(i)' = CanRetry(i) \ {w}
  BY <1>1, <1>2 DEF CanRetry
<1>4. i # analyst[w].incident => w \notin On(i) /\ w \notin CanRetry(i)
  BY DEF On, CanRetry
<1> QED BY <1>1, <1>3, <1>4 DEF SameJobs

\* The attempts a job has counted are those of its claim.
LEMMA BoundedKept ==
    ASSUME JobsBounded, Numbers, Numbers', aiFaults' >= aiFaults,
           \A w \in Analysts : analyst'[w].attempts \in {analyst[w].attempts, 0}
    PROVE  JobsBounded'
BY DEF JobsBounded, Numbers

\* The steps of a job on its own memory: it goes on, or a fault ends it.
Carries(w) ==
    /\ \A v \in Analysts \ {w} : analyst'[v] = analyst[v]
    /\ analyst'[w].attempts \in {analyst[w].attempts, 0}
    /\ \/ SameWork(w) /\ UNCHANGED aiFaults
       \/ EndedByFault(w) /\ aiFaults' = aiFaults + 1

LEMMA WorkCarries ==
    ASSUME Shapes, NEW w \in Analysts, AnalystWorks(w), ~EndAnalysis(w), ~RetryAnalysis(w)
    PROVE  Carries(w) /\ UNCHANGED analysis
<1>0. analyst \in [Analysts -> AnalystShape] /\ analyst[w] \in AnalystShape
  BY DEF Shapes, JobsFine
<1>1. ASSUME NEW a, analyst' = [analyst EXCEPT ![w] = a], a.incident = analyst[w].incident,
             a.attempts = analyst[w].attempts, a.error = analyst[w].error, UNCHANGED aiFaults
      PROVE  Carries(w)
  BY <1>0, <1>1 DEF Carries, SameWork, EndedByFault
<1>2. ASSUME NEW pc, AtAnalysis(w, pc), UNCHANGED aiFaults
      PROVE  Carries(w)
  <2> DEFINE a == [analyst[w] EXCEPT !.pc = pc]
  <2>1. /\ analyst' = [analyst EXCEPT ![w] = a] /\ a.incident = analyst[w].incident
        /\ a.attempts = analyst[w].attempts /\ a.error = analyst[w].error
    BY <1>0, <1>2 DEF AtAnalysis, AnalystShape
  <2> HIDE DEF a
  <2> QED BY <1>1, <1>2, <2>1
<1>3. ASSUME NEW m, Reserve(w, m)
      PROVE  Carries(w) /\ UNCHANGED analysis
  <2> DEFINE a == [analyst[w] EXCEPT !.pc = "generate", !.month = m]
  <2>1. /\ analyst' = [analyst EXCEPT ![w] = a] /\ a.incident = analyst[w].incident
        /\ a.attempts = analyst[w].attempts /\ a.error = analyst[w].error
    BY <1>0, <1>3 DEF Reserve, AnalystShape
  <2> HIDE DEF a
  <2> QED BY <1>1, <1>3, <2>1 DEF Reserve, AnalysisKeeps
<1>4. CASE BeginAnalysis(w)
  <2>1. UNCHANGED <<analysis, aiFaults>>
    BY <1>4 DEF BeginAnalysis
  <2>2. CASE AtAnalysis(w, "failed") \/ AtAnalysis(w, "skipped")
    BY <1>2, <2>1, <2>2
  <2>3. CASE analyst' = [analyst EXCEPT
                 ![w].pc = IF HasAiInsights(SeenPlan) THEN "reserve" ELSE "skipped",
                 ![w].plan = SeenPlan]
    <3> DEFINE a == [analyst[w] EXCEPT
                 !.pc = IF HasAiInsights(SeenPlan) THEN "reserve" ELSE "skipped",
                 !.plan = SeenPlan]
    <3>1. /\ analyst' = [analyst EXCEPT ![w] = a] /\ a.incident = analyst[w].incident
          /\ a.attempts = analyst[w].attempts /\ a.error = analyst[w].error
      BY <1>0, <2>3 DEF AnalystShape
    <3> HIDE DEF a
    <3> QED BY <1>1, <2>1, <3>1
  <2> QED BY <1>4, <2>2, <2>3 DEF BeginAnalysis
<1>5. CASE ReserveGeneration(w)
  <2>1. CASE /\ analyst' = [analyst EXCEPT ![w].pc = "insert", ![w].month = month]
             /\ UNCHANGED analysis /\ AnalysisKeeps
    <3> DEFINE a == [analyst[w] EXCEPT !.pc = "insert", !.month = month]
    <3>1. /\ analyst' = [analyst EXCEPT ![w] = a] /\ a.incident = analyst[w].incident
          /\ a.attempts = analyst[w].attempts /\ a.error = analyst[w].error
      BY <1>0, <2>1 DEF AnalystShape
    <3> HIDE DEF a
    <3> QED BY <1>1, <2>1, <3>1 DEF AnalysisKeeps
  <2> QED BY <1>3, <1>5, <2>1 DEF ReserveGeneration
<1>6. CASE InsertUsage(w) \/ ReserveAgain(w)
  BY <1>2, <1>3, <1>6 DEF InsertUsage, ReserveAgain, AnalysisKeeps
<1>7. CASE Generate(w)
  <2>1. UNCHANGED analysis
    BY <1>7 DEF Generate
  <2>2. CASE AtAnalysis(w, "complete")
    <3>1. analyst'[w].error = analyst[w].error
      BY <1>0, <2>2 DEF AtAnalysis, AnalystShape
    <3>2. analyst[w].error # "fault"
      BY <1>7 DEF Shapes, JobsFine, WellPlaced, Generate
    <3>3. UNCHANGED aiFaults
      BY <1>7, <3>1, <3>2 DEF Generate
    <3> QED BY <1>2, <2>1, <2>2, <3>3
  <2>3. ASSUME NEW e, analyst' = [analyst EXCEPT ![w].pc = "release", ![w].error = e]
        PROVE  Carries(w)
    <3> DEFINE a == [analyst[w] EXCEPT !.pc = "release", !.error = e]
    <3>1. /\ analyst' = [analyst EXCEPT ![w] = a] /\ a.incident = analyst[w].incident
          /\ a.attempts = analyst[w].attempts /\ a.error = e
      BY <1>0, <2>3 DEF AnalystShape
    <3> HIDE DEF a
    <3>2. /\ analyst'[w] = a /\ \A v \in Analysts \ {w} : analyst'[v] = analyst[v]
      BY <1>0, <3>1
    <3>3. analyst[w].error # "fault"
      BY <1>7 DEF Shapes, JobsFine, WellPlaced, Generate
    <3>4. aiFaults' = IF e = "fault" THEN aiFaults + 1 ELSE aiFaults
      BY <1>7, <3>1, <3>2 DEF Generate
    <3> QED BY <3>1, <3>2, <3>3, <3>4 DEF Carries, SameWork, EndedByFault
  <2> QED BY <1>7, <2>1, <2>2, <2>3 DEF Generate
<1>8. CASE ReleaseGeneration(w)
  <2>1. UNCHANGED <<analysis, aiFaults>> /\ analyst' = [analyst EXCEPT ![w] = AfterRelease(w)]
    BY <1>8 DEF ReleaseGeneration, AnalysisKeeps
  <2>2. CASE analyst[w].error = "fault"
    <3>1. AfterRelease(w) = IdleAnalyst
      BY <2>2 DEF AfterRelease
    <3> QED BY <1>0, <2>1, <2>2, <3>1, IdleShape DEF Carries, SameWork, EndedByFault
  <2>3. CASE analyst[w].error # "fault"
    <3>1. /\ AfterRelease(w).incident = analyst[w].incident
          /\ AfterRelease(w).attempts = analyst[w].attempts
          /\ AfterRelease(w).error = analyst[w].error
      BY <1>0, <2>3 DEF AfterRelease, AnalystShape
    <3> QED BY <1>1, <2>1, <3>1
  <2> QED BY <2>1, <2>2, <2>3
<1> QED BY <1>4, <1>5, <1>6, <1>7, <1>8 DEF AnalystWorks

LEMMA CarriedStep ==
    ASSUME Numbers, Numbers', QueueInv, NEW w \in Analysts, Carries(w), UNCHANGED analysis
    PROVE  QueueInv'
<1>1. aiFaults' >= aiFaults /\ \A i \in Incidents : SameDocument(i)
  BY DEF Carries, SameDocument, Numbers
<1>2. JobsBounded'
  BY <1>1, BoundedKept DEF QueueInv, Carries
<1>3. CASE SameWork(w) /\ UNCHANGED aiFaults
  <2>1. \A i \in Incidents : SameJobs(i)
    BY <1>3, SameOn DEF Carries
  <2> QED BY <1>1, <1>2, <2>1, FineKept DEF QueueInv
<1>4. CASE EndedByFault(w) /\ aiFaults' = aiFaults + 1
  <2>1. \A i \in Incidents : On(i)' \subseteq On(i) /\ CanRetry(i)' \subseteq CanRetry(i)
    BY <1>4, LeftOn DEF Carries
  <2>2. aiFaults' >= aiFaults + 1
    BY <1>4 DEF Numbers
  <2> QED BY <1>1, <1>2, <2>1, <2>2, FineFewer DEF QueueInv
<1> QED BY <1>3, <1>4 DEF Carries

\* What is left of an incident's document when the job that had it ends.
LEMMA LeavingDocument ==
    ASSUME Shapes, NEW w \in Analysts, EndAnalysis(w) \/ RetryAnalysis(w)
    PROVE  /\ analyst[w].incident \in Incidents /\ w \in On(analyst[w].incident)
           /\ analyst' = [analyst EXCEPT ![w] = IdleAnalyst] /\ UNCHANGED aiFaults
           /\ RetryAnalysis(w) => w \in CanRetry(analyst[w].incident)
           /\ ~Pending(analyst[w].incident) => UNCHANGED analysis
           /\ Pending(analyst[w].incident) =>
                  /\ \A j \in Incidents \ {analyst[w].incident} : analysis'[j] = analysis[j]
                  /\ analysis'[analyst[w].incident].attempts
                         = analysis[analyst[w].incident].attempts
                  /\ analysis'[analyst[w].incident].lease = "none"
                  /\ EndAnalysis(w) => analysis'[analyst[w].incident].status # "pending"
                  /\ RetryAnalysis(w) =>
                         /\ analysis'[analyst[w].incident].state = "resolved"
                         /\ analysis'[analyst[w].incident].status = "pending"
<1> PICK i : i = analyst[w].incident
  OBVIOUS
<1>0. WellPlaced(analyst[w]) /\ DocumentsFine
  BY DEF Shapes, JobsFine
<1>1. i \in Incidents /\ w \in On(i)
  BY <1>0 DEF WellPlaced, EndAnalysis, RetryAnalysis, On
<1>2. analyst' = [analyst EXCEPT ![w] = IdleAnalyst] /\ UNCHANGED aiFaults
  BY DEF EndAnalysis, RetryAnalysis, SettleAnalysis, AnalysisKeeps
<1>3. RetryAnalysis(w) => w \in CanRetry(i)
  BY <1>0, <1>1 DEF WellPlaced, RetryAnalysis, CanRetry
<1>4. ~Pending(i) => UNCHANGED analysis
  BY DEF EndAnalysis, RetryAnalysis, SettleAnalysis
<1>5. ASSUME Pending(i), NEW status \in {"completed", "failed", "skipped"},
             SettleAnalysis(w, status)
      PROVE  /\ \A j \in Incidents \ {i} : analysis'[j] = analysis[j]
             /\ analysis'[i].attempts = analysis[i].attempts
             /\ analysis'[i].lease = "none" /\ analysis'[i].status # "pending"
  BY <1>0, <1>1, <1>5, SettledDocument DEF SettleAnalysis
<1>6. ASSUME Pending(i), RetryAnalysis(w)
      PROVE  /\ \A j \in Incidents \ {i} : analysis'[j] = analysis[j]
             /\ analysis'[i].attempts = analysis[i].attempts
             /\ analysis'[i].lease = "none"
             /\ analysis'[i].state = "resolved" /\ analysis'[i].status = "pending"
             /\ ~EndAnalysis(w)
  BY <1>0, <1>1, <1>6, FreedDocument DEF RetryAnalysis, EndAnalysis, Pending
<1>7. EndAnalysis(w) => /\ ~RetryAnalysis(w)
                        /\ \E status \in {"completed", "failed", "skipped"} :
                               SettleAnalysis(w, status)
  BY DEF EndAnalysis, RetryAnalysis
<1> QED BY <1>1, <1>2, <1>3, <1>4, <1>5, <1>6, <1>7

LEMMA LeavingStep ==
    ASSUME Shapes, Numbers, Numbers', QueueInv, NEW w \in Analysts,
           EndAnalysis(w) \/ RetryAnalysis(w)
    PROVE  QueueInv'
<1> PICK i \in Incidents : i = analyst[w].incident
  BY LeavingDocument
<1>0. analyst \in [Analysts -> AnalystShape]
  BY DEF Shapes, JobsFine
<1>1. analyst'[w] = IdleAnalyst /\ \A v \in Analysts \ {w} : analyst'[v] = analyst[v]
  BY <1>0, LeavingDocument
<1>2. UNCHANGED aiFaults /\ aiFaults' >= aiFaults
  BY LeavingDocument DEF Numbers
<1>3. JobsBounded'
  BY <1>1, <1>2, IdleShape, BoundedKept DEF QueueInv
<1>4. ASSUME NEW j \in Incidents PROVE QueueFine(j)'
  <2>1. CASE j # i
    <3>1. SameJobs(j)
      BY <1>1, <2>1, IdleShape, LeftOn
    <3>2. SameDocument(j)
      BY <2>1, LeavingDocument DEF SameDocument
    <3> QED BY <1>2, <3>1, <3>2, FineKept DEF QueueInv
  <2>2. CASE j = i
    <3>1. On(i)' = On(i) \ {w} /\ CanRetry(i)' = CanRetry(i) \ {w} /\ w \in On(i)
      BY <1>1, IdleShape, LeftOn, LeavingDocument
    <3>2. QueueFine(i)
      BY DEF QueueInv
    <3>3. analysis'[i].attempts = analysis[i].attempts /\ OnlyPendingHeld(i)'
      BY <3>2, LeavingDocument DEF QueueFine, OnlyPendingHeld
    <3>4. ~Pending(i)' \/ (Pending(i) /\ w \in CanRetry(i))
      BY LeavingDocument DEF Pending
    <3> QED BY <1>2, <2>2, <3>1, <3>2, <3>3, <3>4, FineLeft
  <2> QED BY <2>1, <2>2
<1> QED BY <1>3, <1>4 DEF QueueInv

\* The process stops: a fault takes its job away.
LEMMA StoppedStep ==
    ASSUME Shapes, Numbers, Numbers', QueueInv, NEW w \in Analysts, AnalystStops(w)
    PROVE  QueueInv'
<1>0. analyst \in [Analysts -> AnalystShape]
  BY DEF Shapes, JobsFine
<1>1. analyst'[w] = IdleAnalyst /\ \A v \in Analysts \ {w} : analyst'[v] = analyst[v]
  BY <1>0 DEF AnalystStops
<1>2. aiFaults' >= aiFaults + 1 /\ aiFaults' >= aiFaults
      /\ \A i \in Incidents : SameDocument(i)
  BY DEF AnalystStops, Numbers, SameDocument
<1>3. JobsBounded'
  BY <1>1, <1>2, IdleShape, BoundedKept DEF QueueInv
<1>4. \A i \in Incidents : On(i)' \subseteq On(i) /\ CanRetry(i)' \subseteq CanRetry(i)
  BY <1>1, IdleShape, LeftOn
<1> QED BY <1>2, <1>3, <1>4, FineFewer DEF QueueInv

LEMMA ClaimStep ==
    ASSUME Shapes, Numbers, Numbers', QueueInv, NEW w \in Analysts, NEW i \in Incidents,
           ClaimAnalysis(w, i)
    PROVE  QueueInv'
<1>0. analyst \in [Analysts -> AnalystShape] /\ DocumentsFine /\ WellPlaced(analyst[w])
  BY DEF Shapes, JobsFine
<1>1. /\ analyst'[w].incident = i /\ analyst'[w].attempts = analysis[i].attempts + 1
      /\ analyst'[w].error = "none" /\ \A v \in Analysts \ {w} : analyst'[v] = analyst[v]
  BY <1>0 DEF ClaimAnalysis, IdleAnalyst
<1>2. /\ \A j \in Incidents \ {i} : analysis'[j] = analysis[j]
      /\ analysis'[i].state = analysis[i].state /\ analysis'[i].status = analysis[i].status
      /\ analysis'[i].attempts = analysis[i].attempts + 1 /\ analysis'[i].lease = "held"
  BY <1>0, ClaimedDocument DEF ClaimAnalysis
<1>3. UNCHANGED aiFaults /\ aiFaults' >= aiFaults
  BY DEF ClaimAnalysis, AnalysisKeeps, Numbers
<1>4. Pending(i) /\ analysis[i].lease # "held" /\ Pending(i)'
  BY <1>2 DEF ClaimAnalysis, Claimable, Pending
<1>5. analyst[w].incident = None /\ None \notin Incidents
  BY <1>0, IncidentAnalysisAssumption DEF ClaimAnalysis, WellPlaced
<1>6. QueueFine(i)'
  <2>1. w \notin On(i) /\ On(i)' = On(i) \cup {w}
    BY <1>1, <1>5 DEF On
  <2>2. ASSUME analysis[i].attempts + 1 >= AnalysisAttempts
        PROVE  CanRetry(i)' = CanRetry(i)
    <3>1. ~(analyst'[w].attempts < AnalysisAttempts)
      BY <1>1, <2>2 DEF Numbers
    <3>2. \A v \in On(i) : analyst'[v].attempts = analyst[v].attempts
      BY <1>1, <2>1 DEF On
    <3> QED BY <2>1, <3>1, <3>2 DEF CanRetry
  <2> QED BY <1>2, <1>3, <1>4, <2>1, <2>2, FineClaimed DEF QueueInv
<1>7. ASSUME NEW j \in Incidents \ {i} PROVE QueueFine(j)'
  <2>1. On(j)' = On(j)
    BY <1>1, <1>5 DEF On
  <2>2. \A v \in On(j) : analyst'[v].attempts = analyst[v].attempts
    BY <1>1, <1>5 DEF On
  <2>3. SameJobs(j) /\ SameDocument(j)
    BY <1>2, <2>1, <2>2 DEF SameJobs, SameDocument, CanRetry
  <2> QED BY <1>3, <2>3, FineKept DEF QueueInv
<1>8. analysis'[i].attempts <= AnalysisAttempts + aiFaults'
  BY <1>6 DEF QueueFine, FewTries
<1>9. JobsBounded'
  BY <1>1, <1>2, <1>3, <1>8 DEF QueueInv, JobsBounded
<1> QED BY <1>6, <1>7, <1>9 DEF QueueInv

\* Everything that is not the step of a job.
LEMMA OutsideStep ==
    ASSUME Shapes, Numbers, Numbers', QueueInv,
           \/ \E i \in Incidents : EnqueueAutomatic(i) \/ AskForAnalysis(i) \/ DeleteIncident(i)
                                   \/ AnalysisFallsDue(i) \/ AnalysisLeaseLapses(i)
           \/ RequestAnalysis \/ MonthBegins \/ ChangeAiPlan \/ CachedPlanExpires
           \/ UNCHANGED analysisVars
    PROVE  QueueInv'
<1>0. DocumentsFine
  BY DEF Shapes
<1>1. UNCHANGED analyst /\ \A i \in Incidents : SameJobs(i)
  BY UnchangedOn
     DEF EnqueueAutomatic, AskForAnalysis, DeleteIncident, AnalysisFallsDue, AnalysisLeaseLapses,
         RequestAnalysis, MonthBegins, ChangeAiPlan, CachedPlanExpires, analysisVars
<1>2. ASSUME aiFaults' >= aiFaults PROVE JobsBounded'
  BY <1>1, <1>2, BoundedKept DEF QueueInv
<1>3. ASSUME UNCHANGED aiFaults, NEW i \in Incidents, QueueFine(i)',
             \A j \in Incidents \ {i} : analysis'[j] = analysis[j]
      PROVE  QueueInv'
  <2>1. aiFaults' >= aiFaults
    BY <1>3 DEF Numbers
  <2>2. \A j \in Incidents \ {i} : QueueFine(j)'
    BY <1>1, <1>3, <2>1, FineKept DEF QueueInv, SameDocument
  <2> QED BY <1>2, <1>3, <2>1, <2>2 DEF QueueInv
<1>4. ASSUME UNCHANGED aiFaults, \A i \in Incidents : SameDocument(i)
      PROVE  QueueInv'
  <2>1. aiFaults' >= aiFaults
    BY <1>4 DEF Numbers
  <2> QED BY <1>1, <1>2, <1>4, <2>1, FineKept DEF QueueInv
<1>5. ASSUME NEW i \in Incidents, NEW due \in BOOLEAN, Queued(i, due), UNCHANGED aiFaults,
             analysis[i].state = "resolved", analysis[i].status # "pending"
      PROVE  QueueInv'
  <2>1. QueueFine(i)'
    BY <1>0, <1>1, <1>5, QueuedDocument, FineQueued DEF QueueInv
  <2> QED BY <1>0, <1>3, <1>5, <2>1, QueuedDocument
<1>6. ASSUME NEW i \in Incidents, EnqueueAutomatic(i) PROVE QueueInv'
  BY <1>5, <1>6 DEF EnqueueAutomatic, AnalysisKeeps
<1>7. ASSUME NEW i \in Incidents, AskForAnalysis(i) \/ AnalysisFallsDue(i) PROVE QueueInv'
  <2>1. UNCHANGED aiFaults
    BY <1>7 DEF AskForAnalysis, AnalysisFallsDue, AnalysisKeeps
  <2>2. \A j \in Incidents : SameDocument(j)
    BY <1>0, <1>7, OtherDocuments DEF SameDocument
  <2> QED BY <1>4, <2>1, <2>2
<1>8. ASSUME NEW i \in Incidents, DeleteIncident(i) PROVE QueueInv'
  <2>1. UNCHANGED aiFaults
    BY <1>8 DEF DeleteIncident, AnalysisKeeps
  <2>2. OnlyPendingHeld(i)'
    BY <1>0, <1>8, OtherDocuments DEF QueueInv, QueueFine, OnlyPendingHeld
  <2>3. QueueFine(i)'
    BY <1>0, <1>1, <1>8, <2>1, <2>2, OtherDocuments, FineDeleted DEF QueueInv
  <2> QED BY <1>0, <1>3, <1>8, <2>1, <2>3, OtherDocuments
<1>9. ASSUME NEW i \in Incidents, AnalysisLeaseLapses(i) PROVE QueueInv'
  <2>1. aiFaults' >= aiFaults /\ (On(i) # {} => aiFaults' = aiFaults + 1)
    BY <1>9 DEF AnalysisLeaseLapses, Attended, On, Numbers
  <2>2. analysis[i].lease = "held"
    BY <1>9 DEF AnalysisLeaseLapses
  <2>3. QueueFine(i)'
    BY <1>0, <1>1, <1>9, <2>1, <2>2, OtherDocuments, FineLapsed DEF QueueInv
  <2>4. \A j \in Incidents \ {i} : QueueFine(j)'
    BY <1>0, <1>1, <1>9, <2>1, OtherDocuments, FineKept DEF QueueInv, SameDocument
  <2> QED BY <1>2, <2>1, <2>3, <2>4 DEF QueueInv
<1>10. CASE RequestAnalysis
  <2>1. asker \in Incidents /\ UNCHANGED aiFaults
    BY <1>10 DEF RequestAnalysis, Shapes, RestFine
  <2>2. CASE UNCHANGED analysis
    BY <1>4, <2>1, <2>2 DEF SameDocument
  <2>3. CASE /\ Queued(asker, TRUE)
             /\ analysis[asker].state = "resolved" /\ analysis[asker].status # "pending"
    BY <1>5, <2>1, <2>3
  <2> QED BY <1>10, <2>2, <2>3 DEF RequestAnalysis
<1>11. CASE MonthBegins \/ ChangeAiPlan \/ CachedPlanExpires \/ UNCHANGED analysisVars
  BY <1>4, <1>11 DEF MonthBegins, ChangeAiPlan, CachedPlanExpires, analysisVars, SameDocument
<1> QED BY <1>6, <1>7, <1>8, <1>9, <1>10, <1>11

LEMMA QueueStep == Shapes /\ QueueInv /\ [AnalysisNext]_analysisVars => QueueInv'
<1> SUFFICES ASSUME Shapes, QueueInv, [AnalysisNext]_analysisVars PROVE QueueInv'
  OBVIOUS
<1>1. Numbers /\ Numbers'
  <2>1. Shapes'
    BY ShapesStep
  <2>2. Shapes' => Numbers'
    BY ShapesNumbers, PTL
  <2> QED BY <2>1, <2>2, ShapesNumbers
<1>2. ASSUME NEW w \in Analysts, AnalystWorks(w) PROVE QueueInv'
  BY <1>1, <1>2, WorkCarries, CarriedStep, LeavingStep
<1> QED BY <1>1, <1>2, ClaimStep, StoppedStep, OutsideStep DEF AnalysisNext

LEMMA InitQueue == AnalysisInit => QueueInv
<1> SUFFICES ASSUME AnalysisInit PROVE QueueInv
  OBVIOUS
<1>1. JobsBounded
  BY IdleShape, IncidentAnalysisAssumption DEF AnalysisInit, JobsBounded
<1>2. ASSUME NEW i \in Incidents PROVE QueueFine(i)
  <2>1. On(i) = {}
    BY IdleShape, IncidentAnalysisAssumption DEF AnalysisInit, On
  <2>2. Cardinality(On(i)) = 0
    BY <2>1, FS_EmptySet
  <2> QED BY <2>2, IncidentAnalysisAssumption
          DEF AnalysisInit, QueueFine, FewAtOnce, FewTries, OnlyPendingHeld, Pending
<1> QED BY <1>1, <1>2 DEF QueueInv

LEMMA QueueAlways == AnalysisSpec => [](Shapes /\ QueueInv)
<1>1. AnalysisInit => Shapes /\ QueueInv
  BY InitShapes, InitQueue
<1>2. Shapes /\ QueueInv /\ [AnalysisNext]_analysisVars => (Shapes /\ QueueInv)'
  BY ShapesStep, QueueStep
<1> QED BY <1>1, <1>2, PTL DEF AnalysisSpec

-----------------------------------------------------------------------------
(* The results about the queue.                                            *)

\* claimDueAnalysis counts every claim in attempts, also those of processes that then stop:
\* the count stays within the attempts that are planned and one for every fault.
THEOREM AnalysisTypesAlways == AnalysisSpec => []AnalysisTypeOK
<1>1. Shapes /\ QueueInv => AnalysisTypeOK
  <2> SUFFICES ASSUME Shapes, QueueInv PROVE AnalysisTypeOK
    OBVIOUS
  <2>1. \A k \in Nat : k <= AnalysisAttempts + aiFaults
                       => k \in 0 .. AnalysisAttempts + MaxAnalysisFaults
    BY IncidentAnalysisAssumption DEF Shapes, RestFine
  <2>2. analysis \in [Incidents -> Analysis]
    <3>1. ASSUME NEW i \in Incidents PROVE analysis[i] \in Analysis
      <4>1. analysis[i] \in DocumentShape
        BY DEF Shapes, DocumentsFine
      <4>2. analysis[i].attempts \in 0 .. AnalysisAttempts + MaxAnalysisFaults
        BY <2>1, <4>1 DEF QueueInv, QueueFine, FewTries, DocumentShape
      <4> QED BY <4>1, <4>2 DEF DocumentShape, Analysis
    <3> QED BY <3>1 DEF Shapes, DocumentsFine
  <2>3. analyst \in [Analysts -> Analyst]
    <3>1. ASSUME NEW w \in Analysts PROVE analyst[w] \in Analyst
      <4>1. analyst[w] \in AnalystShape
        BY DEF Shapes, JobsFine
      <4>2. analyst[w].attempts \in 0 .. AnalysisAttempts + MaxAnalysisFaults
        BY <2>1, <4>1 DEF QueueInv, JobsBounded, AnalystShape
      <4> QED BY <4>1, <4>2 DEF AnalystShape, Analyst
    <3> QED BY <3>1 DEF Shapes, JobsFine
  <2> QED BY <2>2, <2>3 DEF AnalysisTypeOK, Shapes, CountersFine, RestFine, PlanFine
<1> QED BY <1>1, QueueAlways, PTL

\* The work and the tries LeasedWork sees.
WorkOf(i) == IF ~Pending(i) THEN "none" ELSE IF analysis[i].lease = "held" THEN "held" ELSE "waiting"

TriesOf(i) == IF Pending(i) THEN analysis[i].attempts ELSE 0

\* A step of LeasedWork, or none, on one piece of work.
WorkStep(i) ==
    \/ WorkOf(i) = "none" /\ WorkOf(i)' = "waiting" /\ TriesOf(i)' = TriesOf(i)
    \/ /\ WorkOf(i) = "waiting" /\ WorkOf(i)' = "held"
       /\ TriesOf(i) < AnalysisAttempts + MaxAnalysisFaults /\ TriesOf(i)' = TriesOf(i) + 1
    \/ WorkOf(i) = "held" /\ WorkOf(i)' = "waiting" /\ TriesOf(i)' = TriesOf(i)
    \/ WorkOf(i) # "none" /\ WorkOf(i)' = "none" /\ TriesOf(i)' = 0
    \/ WorkOf(i)' = WorkOf(i) /\ TriesOf(i)' = TriesOf(i)

WorkStays(i) == WorkOf(i)' = WorkOf(i) /\ TriesOf(i)' = TriesOf(i)

LEMMA Mapped ==
    ASSUME NEW i \in Incidents, WorkStep(i), \A j \in Incidents \ {i} : WorkStays(j)
    PROVE  [Analyses!Next]_(Analyses!workVars)
BY DEF WorkStep, WorkStays, WorkOf, TriesOf, Analyses!Next, Analyses!workVars, Analyses!Offer,
       Analyses!Claim, Analyses!GiveBack, Analyses!Settle

\* Documents that stay as they are, as far as LeasedWork sees them.
LEMMA StaysLikeDocument ==
    ASSUME NEW j, SameDocument(j)
    PROVE  WorkStays(j)
BY DEF SameDocument, WorkStays, WorkOf, TriesOf, Pending

LEMMA MappedWork ==
    ASSUME Shapes, QueueInv, NEW w \in Analysts, AnalystWorks(w)
    PROVE  [Analyses!Next]_(Analyses!workVars)
<1>1. CASE ~EndAnalysis(w) /\ ~RetryAnalysis(w)
  <2>1. UNCHANGED analysis
    BY <1>1, WorkCarries
  <2> QED BY <2>1 DEF Analyses!workVars, Pending
<1>2. CASE EndAnalysis(w) \/ RetryAnalysis(w)
  <2> PICK i : i = analyst[w].incident
    OBVIOUS
  <2>1. i \in Incidents
    BY <1>2, LeavingDocument
  <2>2. CASE ~Pending(i)
    <3>1. UNCHANGED analysis
      BY <1>2, <2>2, LeavingDocument
    <3> QED BY <3>1 DEF Analyses!workVars, Pending
  <2>3. CASE Pending(i)
    <3>1. \A j \in Incidents \ {i} : WorkStays(j)
      BY <1>2, <2>3, LeavingDocument, StaysLikeDocument DEF SameDocument
    <3>2. WorkStep(i)
      BY <1>2, <2>3, LeavingDocument DEF WorkStep, WorkOf, TriesOf, Pending
    <3> QED BY <2>1, <3>1, <3>2, Mapped
  <2> QED BY <2>2, <2>3
<1> QED BY <1>1, <1>2

LEMMA MappedClaim ==
    ASSUME Shapes, Shapes', QueueInv', NEW w \in Analysts, NEW i \in Incidents,
           ClaimAnalysis(w, i)
    PROVE  [Analyses!Next]_(Analyses!workVars)
<1>1. /\ \A j \in Incidents \ {i} : analysis'[j] = analysis[j]
      /\ analysis'[i].state = analysis[i].state /\ analysis'[i].status = analysis[i].status
      /\ analysis'[i].attempts = analysis[i].attempts + 1 /\ analysis'[i].lease = "held"
  BY ClaimedDocument DEF Shapes, ClaimAnalysis
<1>2. Pending(i) /\ analysis[i].lease # "held" /\ Pending(i)'
  BY <1>1 DEF ClaimAnalysis, Claimable, Pending
<1>3. analysis[i].attempts < AnalysisAttempts + MaxAnalysisFaults
  <2>1. analysis'[i].attempts <= AnalysisAttempts + aiFaults'
    BY DEF QueueInv, QueueFine, FewTries
  <2>2. /\ aiFaults' \in Nat /\ MaxAnalysisFaults \in Nat /\ aiFaults' <= MaxAnalysisFaults
        /\ AnalysisAttempts \in Nat /\ analysis[i].attempts \in Nat
    BY IncidentAnalysisAssumption
       DEF Shapes, RestFine, DocumentsFine, DocumentShape
  <2> QED BY <1>1, <2>1, <2>2
<1>4. WorkStep(i)
  BY <1>1, <1>2, <1>3 DEF WorkStep, WorkOf, TriesOf
<1>5. \A j \in Incidents \ {i} : WorkStays(j)
  BY <1>1, StaysLikeDocument DEF SameDocument
<1> QED BY <1>4, <1>5, Mapped

LEMMA MappedOutside ==
    ASSUME Shapes, QueueInv,
           \/ \E i \in Incidents : EnqueueAutomatic(i) \/ AskForAnalysis(i) \/ DeleteIncident(i)
                                   \/ AnalysisFallsDue(i) \/ AnalysisLeaseLapses(i)
           \/ RequestAnalysis \/ MonthBegins \/ ChangeAiPlan \/ CachedPlanExpires
           \/ UNCHANGED analysisVars
    PROVE  [Analyses!Next]_(Analyses!workVars)
<1>0. DocumentsFine
  BY DEF Shapes
<1>1. ASSUME UNCHANGED analysis PROVE [Analyses!Next]_(Analyses!workVars)
  BY <1>1 DEF Analyses!workVars, Pending
<1>2. ASSUME NEW i \in Incidents, NEW due \in BOOLEAN, Queued(i, due),
             analysis[i].state = "resolved", analysis[i].status # "pending"
      PROVE  [Analyses!Next]_(Analyses!workVars)
  <2>1. /\ \A j \in Incidents \ {i} : analysis'[j] = analysis[j]
        /\ analysis'[i].state = "resolved" /\ analysis'[i].status = "pending"
        /\ analysis'[i].attempts = 0 /\ analysis'[i].lease = "none"
    BY <1>0, <1>2, QueuedDocument
  <2>2. WorkStep(i)
    BY <1>2, <2>1 DEF WorkStep, WorkOf, TriesOf, Pending
  <2>3. \A j \in Incidents \ {i} : WorkStays(j)
    BY <2>1, StaysLikeDocument DEF SameDocument
  <2> QED BY <2>2, <2>3, Mapped
<1>3. ASSUME NEW i \in Incidents, EnqueueAutomatic(i)
      PROVE  [Analyses!Next]_(Analyses!workVars)
  BY <1>2, <1>3 DEF EnqueueAutomatic
<1>4. ASSUME NEW i \in Incidents, AskForAnalysis(i) \/ AnalysisFallsDue(i)
      PROVE  [Analyses!Next]_(Analyses!workVars)
  <2>1. \A j \in Incidents : WorkStays(j)
    BY <1>0, <1>4, OtherDocuments, StaysLikeDocument DEF SameDocument
  <2>2. WorkStep(i)
    BY <2>1 DEF WorkStep, WorkStays
  <2> QED BY <2>1, <2>2, Mapped
<1>5. ASSUME NEW i \in Incidents, DeleteIncident(i)
      PROVE  [Analyses!Next]_(Analyses!workVars)
  <2>1. \A j \in Incidents \ {i} : analysis'[j] = analysis[j]
    BY <1>0, <1>5, OtherDocuments
  <2>2. analysis'[i].state = "gone"
    BY <1>0, <1>5, OtherDocuments
  <2>3. WorkStep(i)
    BY <2>2 DEF WorkStep, WorkOf, TriesOf, Pending
  <2>4. \A j \in Incidents \ {i} : WorkStays(j)
    BY <2>1, StaysLikeDocument DEF SameDocument
  <2> QED BY <2>3, <2>4, Mapped
<1>6. ASSUME NEW i \in Incidents, AnalysisLeaseLapses(i)
      PROVE  [Analyses!Next]_(Analyses!workVars)
  <2>1. /\ \A j \in Incidents \ {i} : analysis'[j] = analysis[j]
        /\ analysis'[i].state = analysis[i].state /\ analysis'[i].status = analysis[i].status
        /\ analysis'[i].attempts = analysis[i].attempts /\ analysis'[i].lease = "lapsed"
        /\ analysis[i].lease = "held"
    BY <1>0, <1>6, OtherDocuments DEF AnalysisLeaseLapses
  <2>2. WorkStep(i)
    BY <2>1 DEF WorkStep, WorkOf, TriesOf, Pending
  <2>3. \A j \in Incidents \ {i} : WorkStays(j)
    BY <2>1, StaysLikeDocument DEF SameDocument
  <2> QED BY <2>2, <2>3, Mapped
<1>7. CASE RequestAnalysis
  <2>1. asker \in Incidents
    BY <1>7 DEF RequestAnalysis, Shapes, RestFine
  <2>2. \/ UNCHANGED analysis
        \/ Queued(asker, TRUE) /\ analysis[asker].state = "resolved"
           /\ analysis[asker].status # "pending"
    BY <1>7 DEF RequestAnalysis
  <2> QED BY <1>1, <1>2, <2>1, <2>2
<1>8. CASE MonthBegins \/ ChangeAiPlan \/ CachedPlanExpires \/ UNCHANGED analysisVars
  BY <1>1, <1>8 DEF MonthBegins, ChangeAiPlan, CachedPlanExpires, analysisVars
<1> QED BY <1>3, <1>4, <1>5, <1>6, <1>7, <1>8

\* claimDueAnalysis, completeAnalysis, settleAnalysisWithout, retryAnalysisLater: the analyses
\* on the documents of the incidents keep the safety part of what LeasedWork promises:
\* taken up only while offered and held by nobody, a bounded number of times for each
\* request, whatever processes stop, leases lapse and stale holders settle.
THEOREM AnalysesAreLeasedWork ==
    AnalysisSpec => Analyses!Init /\ [][Analyses!Next]_(Analyses!workVars)
<1>1. AnalysisInit => Analyses!Init
  BY DEF AnalysisInit, Analyses!Init, Pending
<1>2. ASSUME Shapes, Shapes', QueueInv, QueueInv', [AnalysisNext]_analysisVars
      PROVE  [Analyses!Next]_(Analyses!workVars)
  <2>1. ASSUME NEW w \in Analysts, AnalystStops(w)
        PROVE  [Analyses!Next]_(Analyses!workVars)
    BY <2>1 DEF AnalystStops, Analyses!workVars, Pending
  <2> QED BY <1>2, <2>1, MappedWork, MappedClaim, MappedOutside DEF AnalysisNext
<1> QED BY <1>1, <1>2, QueueAlways, PTL DEF AnalysisSpec

-----------------------------------------------------------------------------
(* Reports and their schedules.                                            *)

\* Only runs of a schedule mail anything, for an occurrence that has come.
RunsInOrder ==
    /\ \A b \in Builders :
           /\ builder[b].run <= schedule.occurrence
           /\ builder[b].pc = "idle" => builder[b].run = 0
           /\ builder[b].pc \in {"create", "deliver", "finally"} => builder[b].run > 0
    /\ schedule.due => schedule.occurrence > 0
    /\ \A o \in Occurrences, x \in Recipients : o > schedule.occurrence => mails[o][x] = 0

\* The runs for an occurrence that may still mail a recipient, and whether one may still start.
Mailing(o, x) ==
    {b \in Builders : builder[b].run = o /\ builder[b].pc # "finally" /\ x \in builder[b].left}

MayStart(o) ==
    /\ schedule.due /\ schedule.occurrence = o
    /\ schedule.lease = "held" => \A b \in Builders : builder[b].run # o

StillToStart(o) == IF MayStart(o) THEN 1 ELSE 0

\* Each mail sent or still possible is the one of its occurrence, or was paid for by a fault.
MailsPaidFor ==
    \A o \in Occurrences, x \in Recipients :
        mails[o][x] + Cardinality(Mailing(o, x)) + StillToStart(o) <= 1 + cutOff[o]

ReportInv == ReportTypeOK /\ RunsInOrder /\ MailsPaidFor

-----------------------------------------------------------------------------
LEMMA MailingFinite ==
    ASSUME NEW o, NEW x
    PROVE  IsFiniteSet(Mailing(o, x)) /\ Cardinality(Mailing(o, x)) \in Nat
<1>1. Mailing(o, x) \subseteq Builders
  BY DEF Mailing
<1> QED BY <1>1, ReportQueueAssumption, FS_Subset, FS_CardinalityType

LEMMA MailingFiniteNext ==
    ASSUME NEW o, NEW x
    PROVE  IsFiniteSet(Mailing(o, x)') /\ Cardinality(Mailing(o, x)') \in Nat
<1>1. Mailing(o, x)' \subseteq Builders
  BY DEF Mailing
<1> QED BY <1>1, ReportQueueAssumption, FS_Subset, FS_CardinalityType

\* The sum of an occurrence, when no run for it is added and a start becomes possible only
\* at the price of a fault.
LEMMA StaysPaid ==
    ASSUME ReportTypeOK, MailsPaidFor, NEW o \in Occurrences, NEW x \in Recipients,
           Mailing(o, x)' \subseteq Mailing(o, x), mails'[o][x] = mails[o][x],
           cutOff'[o] \in Nat, cutOff'[o] >= cutOff[o],
           MayStart(o)' => MayStart(o) \/ cutOff'[o] > cutOff[o]
    PROVE  mails'[o][x] + Cardinality(Mailing(o, x)') + StillToStart(o)' <= 1 + cutOff'[o]
<1>1. Cardinality(Mailing(o, x)') <= Cardinality(Mailing(o, x))
  BY MailingFinite, FS_Subset
<1>2. mails[o][x] + Cardinality(Mailing(o, x)) + StillToStart(o) <= 1 + cutOff[o]
  BY DEF MailsPaidFor
<1>3. mails[o][x] \in Nat /\ cutOff[o] \in Nat
  BY DEF ReportTypeOK
<1>4. /\ StillToStart(o) \in {0, 1} /\ StillToStart(o)' \in {0, 1}
      /\ StillToStart(o)' <= StillToStart(o) + (cutOff'[o] - cutOff[o])
  <2>1. CASE MayStart(o)'
    BY <1>3, <2>1 DEF StillToStart
  <2>2. CASE ~MayStart(o)'
    BY <1>3, <2>2 DEF StillToStart
  <2> QED BY <2>1, <2>2
<1>5. Cardinality(Mailing(o, x)) \in Nat /\ Cardinality(Mailing(o, x)') \in Nat
  BY MailingFinite, MailingFiniteNext
<1> HIDE DEF Mailing, StillToStart
<1> QED BY <1>1, <1>2, <1>3, <1>4, <1>5

-----------------------------------------------------------------------------
\* Builder b goes on with its run, and mails nobody else.
RunGoesOn(b, pc) ==
    /\ builder' \in [Builders -> Builder]
    /\ \A c \in Builders \ {b} : builder'[c] = builder[c]
    /\ builder'[b].pc = pc /\ builder'[b].run = builder[b].run
    /\ builder'[b].left = builder[b].left

\* It ends.
BuilderIdles(b) ==
    /\ builder' \in [Builders -> Builder]
    /\ \A c \in Builders \ {b} : builder'[c] = builder[c]
    /\ builder'[b].pc = "idle" /\ builder'[b].run = 0 /\ builder'[b].left = {}

LEMMA RunGoesOnEffect ==
    ASSUME ReportTypeOK, NEW b \in Builders,
           NEW pc \in {"create", "build", "ready", "failed", "deliver", "finally"},
           BuilderGoes(b, pc)
    PROVE  RunGoesOn(b, pc)
BY DEF ReportTypeOK, BuilderGoes, RunGoesOn, Builder

LEMMA IdlesOnEffect ==
    ASSUME ReportTypeOK, NEW b \in Builders, builder' = [builder EXCEPT ![b] = IdleBuilder]
    PROVE  BuilderIdles(b)
<1>1. IdleBuilder \in Builder /\ IdleBuilder.pc = "idle" /\ IdleBuilder.run = 0
      /\ IdleBuilder.left = {}
  BY ReportQueueAssumption DEF IdleBuilder, Builder
<1> QED BY <1>1 DEF ReportTypeOK, BuilderIdles

LEMMA BuildEndsEffect ==
    ASSUME ReportTypeOK, NEW b \in Builders, NEW pc \in {"deliver", "finally"}, BuildEnds(b, pc)
    PROVE  \/ Scheduled(b) /\ RunGoesOn(b, pc)
           \/ ~Scheduled(b) /\ BuilderIdles(b)
<1>1. CASE Scheduled(b)
  BY <1>1 DEF ReportTypeOK, BuildEnds, RunGoesOn, Builder
<1>2. CASE ~Scheduled(b)
  <2>1. builder' = [builder EXCEPT ![b] = IdleBuilder]
    BY <1>2 DEF BuildEnds
  <2> QED BY <1>2, <2>1, IdlesOnEffect
<1> QED BY <1>1, <1>2

Promises == RunsInOrder /\ MailsPaidFor

\* A run that goes on, one that is over, and one that was cut off.
LEMMA RunGoesOnKeeps ==
    ASSUME ReportTypeOK, Promises, NEW b \in Builders, NEW pc, RunGoesOn(b, pc),
           pc # "idle", builder[b].pc # "finally",
           pc \in {"create", "deliver", "finally"} => builder[b].run > 0,
           schedule' = schedule, mails' = mails, cutOff' = cutOff
    PROVE  Promises'
<1>1. \A c \in Builders : builder'[c].run = builder[c].run /\ builder'[c].left = builder[c].left
  BY DEF RunGoesOn
<1>2. RunsInOrder'
  BY <1>1 DEF Promises, RunsInOrder, RunGoesOn
<1>3. ASSUME NEW o \in Occurrences, NEW x \in Recipients
      PROVE  /\ Mailing(o, x)' \subseteq Mailing(o, x)
             /\ MayStart(o)' => MayStart(o)
  BY <1>1 DEF Mailing, MayStart, RunGoesOn
<1>4. \A o \in Occurrences : cutOff[o] \in Nat
  BY DEF ReportTypeOK
<1>5. MailsPaidFor'
  <2> SUFFICES ASSUME NEW o \in Occurrences, NEW x \in Recipients
               PROVE  mails'[o][x] + Cardinality(Mailing(o, x)') + StillToStart(o)' <= 1 + cutOff'[o]
    BY DEF MailsPaidFor
  <2> QED BY <1>3, <1>4, StaysPaid DEF Promises
<1> QED BY <1>2, <1>5 DEF Promises

LEMMA IdlesKeeps ==
    ASSUME ReportTypeOK, Promises, NEW b \in Builders, BuilderIdles(b), mails' = mails,
           schedule'.occurrence = schedule.occurrence, schedule'.due => schedule.due,
           cutOff' \in [Occurrences -> Nat], \A o \in Occurrences : cutOff'[o] >= cutOff[o],
           \/ ~schedule'.due
           \/ schedule' = schedule /\ builder[b].run = 0
           \/ schedule' = schedule /\ builder[b].run \in Occurrences
              /\ cutOff'[builder[b].run] > cutOff[builder[b].run]
    PROVE  Promises'
<1>1. RunsInOrder'
  <2>1. schedule.occurrence \in Nat
    BY ReportQueueAssumption DEF ReportTypeOK, Schedule
  <2> QED BY <2>1 DEF Promises, RunsInOrder, BuilderIdles
<1>2. ASSUME NEW o \in Occurrences, NEW x \in Recipients
      PROVE  Mailing(o, x)' \subseteq Mailing(o, x)
  BY DEF Mailing, BuilderIdles
<1>3. ASSUME NEW o \in Occurrences, MayStart(o)', ~MayStart(o) PROVE cutOff'[o] > cutOff[o]
  <2>1. schedule' = schedule
    BY <1>3 DEF MayStart
  <2>2. PICK c \in Builders : builder[c].run = o /\ builder'[c].run # o
    BY <1>3, <2>1 DEF MayStart
  <2>3. c = b /\ builder[b].run = o /\ o # 0
    BY <2>2 DEF BuilderIdles, Occurrences
  <2> QED BY <1>3, <2>1, <2>3 DEF MayStart
<1>4. MailsPaidFor'
  <2> SUFFICES ASSUME NEW o \in Occurrences, NEW x \in Recipients
               PROVE  mails'[o][x] + Cardinality(Mailing(o, x)') + StillToStart(o)' <= 1 + cutOff'[o]
    BY DEF MailsPaidFor
  <2> QED BY <1>2, <1>3, StaysPaid DEF Promises
<1> QED BY <1>1, <1>4 DEF Promises

\* The schedule moves, the runs do not.
LEMMA ScheduleKeeps ==
    ASSUME ReportTypeOK, Promises, builder' = builder, mails' = mails,
           schedule' \in Schedule, schedule'.occurrence >= schedule.occurrence,
           schedule'.due => schedule'.occurrence > 0,
           cutOff' \in [Occurrences -> Nat],
           \A o \in Occurrences :
               /\ cutOff'[o] >= cutOff[o]
               /\ MayStart(o)' /\ ~MayStart(o) =>
                      \/ cutOff'[o] > cutOff[o]
                      \/ o > schedule.occurrence
    PROVE  Promises'
<1>1. /\ schedule.occurrence \in Nat /\ schedule'.occurrence \in Nat /\ Occurrences \subseteq Nat
      /\ \A b \in Builders : builder[b].run \in Nat
  BY ReportQueueAssumption DEF ReportTypeOK, Schedule, Builder, Occurrences
<1>2. RunsInOrder'
  BY <1>1 DEF Promises, RunsInOrder
<1>3. \A o, x : Mailing(o, x)' = Mailing(o, x)
  BY DEF Mailing
<1>4. MailsPaidFor'
  <2> SUFFICES ASSUME NEW o \in Occurrences, NEW x \in Recipients
               PROVE  mails'[o][x] + Cardinality(Mailing(o, x)') + StillToStart(o)' <= 1 + cutOff'[o]
    BY DEF MailsPaidFor
  <2>1. CASE MayStart(o)' => MayStart(o) \/ cutOff'[o] > cutOff[o]
    BY <1>3, <2>1, StaysPaid DEF Promises
  <2>2. CASE MayStart(o)' /\ ~MayStart(o) /\ o > schedule.occurrence
    <3>1. mails'[o][x] = 0
      BY <2>2 DEF Promises, RunsInOrder
    <3>2. \A b \in Builders : builder'[b].run # o
      BY <1>1, <2>2 DEF Promises, RunsInOrder
    <3>3. Mailing(o, x)' = {}
      BY <3>2 DEF Mailing
    <3>4. Cardinality(Mailing(o, x)') = 0
      BY <3>3, FS_EmptySet
    <3>5. StillToStart(o)' = 1 /\ cutOff'[o] \in Nat
      BY <2>2 DEF StillToStart
    <3> HIDE DEF Mailing
    <3> QED BY <3>1, <3>4, <3>5
  <2> QED BY <2>1, <2>2
<1> QED BY <1>2, <1>4 DEF Promises

LEMMA ClaimDueKeeps ==
    ASSUME ReportTypeOK, Promises, NEW b \in Builders, ClaimDueSchedule(b)
    PROVE  Promises' /\ builder' \in [Builders -> Builder] /\ schedule' \in Schedule
<1> DEFINE run == schedule.occurrence
           n == [IdleBuilder EXCEPT !.pc = "create", !.run = run, !.left = Recipients]
<1>1. /\ builder[b].pc = "idle" /\ schedule.due /\ schedule.lease # "held"
      /\ schedule' = [schedule EXCEPT !.lease = "held"] /\ builder' = [builder EXCEPT ![b] = n]
      /\ mails' = mails /\ cutOff' = cutOff
  BY DEF ClaimDueSchedule, ClaimableSchedule, ScheduleDue, ReportHistory
<1>2. /\ run \in Occurrences /\ run \in 0 .. MaxOccurrences /\ run > 0 /\ run \in Nat
  BY <1>1, ReportQueueAssumption DEF ReportTypeOK, Schedule, Promises, RunsInOrder, Occurrences
<1>3. n \in Builder /\ n.pc = "create" /\ n.run = run /\ n.left = Recipients
  BY <1>2, ReportQueueAssumption DEF IdleBuilder, Builder
<1> HIDE DEF n
<1>4. /\ builder' \in [Builders -> Builder] /\ builder'[b] = n
      /\ \A c \in Builders \ {b} : builder'[c] = builder[c]
  BY <1>1, <1>3 DEF ReportTypeOK
<1>5. /\ schedule' \in Schedule /\ schedule'.occurrence = run /\ schedule'.due /\ schedule'.lease = "held"
  BY <1>1 DEF ReportTypeOK, Schedule, Leases
<1>6. RunsInOrder'
  BY <1>1, <1>2, <1>3, <1>4, <1>5 DEF Promises, RunsInOrder
<1>7. MailsPaidFor'
  <2> SUFFICES ASSUME NEW o \in Occurrences, NEW x \in Recipients
               PROVE  mails'[o][x] + Cardinality(Mailing(o, x)') + StillToStart(o)' <= 1 + cutOff'[o]
    BY DEF MailsPaidFor
  <2>1. b \notin Mailing(o, x)
    BY <1>1 DEF Mailing, Promises, RunsInOrder, Occurrences
  <2>2. mails[o][x] \in Nat /\ cutOff[o] \in Nat
    BY DEF ReportTypeOK
  <2>3. mails[o][x] + Cardinality(Mailing(o, x)) + StillToStart(o) <= 1 + cutOff[o]
    BY DEF Promises, MailsPaidFor
  <2>4. CASE o = run
    <3>1. StillToStart(o) = 1
      BY <1>1, <2>4 DEF StillToStart, MayStart
    <3>2. StillToStart(o)' = 0
      BY <1>3, <1>4, <1>5, <2>4 DEF StillToStart, MayStart
    <3>3. Mailing(o, x)' = Mailing(o, x) \cup {b}
      BY <1>3, <1>4, <2>4 DEF Mailing
    <3>4. Cardinality(Mailing(o, x)') = Cardinality(Mailing(o, x)) + 1
      BY <2>1, <3>3, MailingFinite, FS_AddElement
    <3>5. Cardinality(Mailing(o, x)) \in Nat
      BY MailingFinite
    <3> HIDE DEF Mailing
    <3> QED BY <1>1, <2>2, <2>3, <3>1, <3>2, <3>4, <3>5
  <2>5. CASE o # run
    <3>1. Mailing(o, x)' \subseteq Mailing(o, x)
      BY <1>3, <1>4, <2>5 DEF Mailing
    <3>2. ~MayStart(o)'
      BY <1>5, <2>5 DEF MayStart
    <3> QED BY <1>1, <2>2, <3>1, <3>2, StaysPaid DEF Promises
  <2> QED BY <2>4, <2>5
<1> QED BY <1>4, <1>5, <1>6, <1>7 DEF Promises

LEMMA MailKeeps ==
    ASSUME ReportTypeOK, Promises, NEW b \in Builders, NEW y \in Recipients, MailReport(b, y)
    PROVE  /\ Promises' /\ builder' \in [Builders -> Builder]
           /\ mails' \in [Occurrences -> [Recipients -> Nat]]
<1> DEFINE run == builder[b].run
<1>1. /\ builder[b].pc = "deliver" /\ y \in builder[b].left
      /\ builder' = [builder EXCEPT ![b].left = @ \ {y}]
      /\ mails' = [mails EXCEPT ![run][y] = @ + 1]
      /\ schedule' = schedule /\ cutOff' = cutOff
  BY DEF MailReport
<1>2. run \in Occurrences /\ run <= schedule.occurrence
  BY <1>1, ReportQueueAssumption DEF ReportTypeOK, Builder, Promises, RunsInOrder, Occurrences
<1>3. /\ builder' \in [Builders -> Builder]
      /\ \A c \in Builders : /\ builder'[c].pc = builder[c].pc /\ builder'[c].run = builder[c].run
                             /\ c # b => builder'[c].left = builder[c].left
      /\ builder'[b].left = builder[b].left \ {y}
  BY <1>1 DEF ReportTypeOK, Builder
<1>4. /\ mails' \in [Occurrences -> [Recipients -> Nat]]
      /\ \A o \in Occurrences, x \in Recipients :
             mails'[o][x] = IF o = run /\ x = y THEN mails[o][x] + 1 ELSE mails[o][x]
  BY <1>1, <1>2 DEF ReportTypeOK
<1>5. RunsInOrder'
  <2>1. \A o \in Occurrences : o > schedule.occurrence => o # run
    BY <1>2, ReportQueueAssumption DEF ReportTypeOK, Schedule, Occurrences
  <2> QED BY <1>1, <1>3, <1>4, <2>1 DEF Promises, RunsInOrder
<1>6. \A o \in Occurrences : MayStart(o)' => MayStart(o)
  BY <1>1, <1>3 DEF MayStart
<1>7. MailsPaidFor'
  <2> SUFFICES ASSUME NEW o \in Occurrences, NEW x \in Recipients
               PROVE  mails'[o][x] + Cardinality(Mailing(o, x)') + StillToStart(o)' <= 1 + cutOff'[o]
    BY DEF MailsPaidFor
  <2>1. mails[o][x] \in Nat /\ cutOff[o] \in Nat
    BY DEF ReportTypeOK
  <2>2. CASE o = run /\ x = y
    <3>1. b \in Mailing(o, x) /\ Mailing(o, x)' = Mailing(o, x) \ {b}
      BY <1>1, <1>3, <2>2 DEF Mailing
    <3>2. Cardinality(Mailing(o, x)') = Cardinality(Mailing(o, x)) - 1
      BY <3>1, MailingFinite, FS_RemoveElement
    <3>3. StillToStart(o)' <= StillToStart(o) /\ StillToStart(o) \in {0, 1} /\ StillToStart(o)' \in {0, 1}
      BY <1>6 DEF StillToStart
    <3>4. Cardinality(Mailing(o, x)) \in Nat
      BY MailingFinite
    <3>5. mails[o][x] + Cardinality(Mailing(o, x)) + StillToStart(o) <= 1 + cutOff[o]
      BY DEF Promises, MailsPaidFor
    <3>6. mails'[o][x] = mails[o][x] + 1
      BY <1>4, <2>2
    <3> HIDE DEF Mailing, StillToStart
    <3> QED BY <1>1, <2>1, <3>2, <3>3, <3>4, <3>5, <3>6
  <2>3. CASE ~(o = run /\ x = y)
    <3>1. Mailing(o, x)' \subseteq Mailing(o, x)
      BY <1>3 DEF Mailing
    <3>2. mails'[o][x] = mails[o][x]
      BY <1>4, <2>3
    <3> QED BY <1>1, <1>6, <2>1, <3>1, <3>2, StaysPaid DEF Promises
  <2> QED BY <2>2, <2>3
<1> QED BY <1>3, <1>4, <1>5, <1>7 DEF Promises
-----------------------------------------------------------------------------
\* Reports change, the runs and what they mail do not.
LEMMA ReportsKeep ==
    ASSUME Promises, UNCHANGED <<schedule, builder, mails, cutOff>>
    PROVE  Promises'
BY DEF Promises, RunsInOrder, MailsPaidFor, Mailing, StillToStart, MayStart

\* The queue of reports.
LEMMA ReportRequests ==
    ASSUME ReportInv, NEW r \in Reports,
           RequestReport(r) \/ DeleteReport(r) \/ ReportFallsDue(r) \/ ReportLeaseLapses(r)
    PROVE  ReportInv'
<1>1. /\ UNCHANGED <<schedule, builder, mails, cutOff>>
      /\ outlived' \subseteq Reports /\ reportFaults' \in 0 .. MaxReportFaults
  <2>1. CASE RequestReport(r) \/ DeleteReport(r) \/ ReportFallsDue(r)
    BY <2>1 DEF ReportInv, ReportTypeOK, RequestReport, DeleteReport, ReportFallsDue, ReportHistory
  <2>2. CASE ReportLeaseLapses(r)
    BY <2>2, ReportQueueAssumption
    DEF ReportInv, ReportTypeOK, ReportLeaseLapses, FaultAllowed
  <2> QED BY <2>1, <2>2
<1>2. report' \in [Reports -> Report]
  <2>1. CASE RequestReport(r)
    BY <2>1 DEF ReportInv, ReportTypeOK, RequestReport, CreateReport, Report
  <2>2. CASE DeleteReport(r)
    BY <2>2 DEF ReportInv, ReportTypeOK, DeleteReport, Report
  <2>3. CASE ReportFallsDue(r)
    BY <2>3 DEF ReportInv, ReportTypeOK, ReportFallsDue, Report
  <2>4. CASE ReportLeaseLapses(r)
    BY <2>4 DEF ReportInv, ReportTypeOK, ReportLeaseLapses, Report, Leases
  <2> QED BY <2>1, <2>2, <2>3, <2>4
<1>3. Promises'
  BY <1>1, ReportsKeep DEF ReportInv, Promises
<1> QED BY <1>1, <1>2, <1>3 DEF ReportInv, ReportTypeOK, Promises

LEMMA ClaimPendingKeeps ==
    ASSUME ReportInv, NEW b \in Builders, NEW r \in Reports, ClaimPending(b, r)
    PROVE  ReportInv'
<1> DEFINE n == [IdleBuilder EXCEPT !.pc = "build", !.report = r, !.attempt = report[r].attempts + 1]
<1>1. /\ builder[b].pc = "idle" /\ builder' = [builder EXCEPT ![b] = n]
      /\ report' = [report EXCEPT ![r].status = "generating", ![r].lease = "held",
                                  ![r].attempts = @ + 1]
      /\ UNCHANGED <<schedule, outlived, mails, cutOff, reportFaults>>
  BY DEF ClaimPending, ReportHistory
<1>2. /\ n \in Builder /\ n.pc = "build" /\ n.run = 0 /\ n.left = {}
  <2>1. report[r].attempts + 1 \in Nat /\ 0 \in 0 .. MaxOccurrences
    BY ReportQueueAssumption DEF ReportInv, ReportTypeOK, Report
  <2>2. IdleBuilder \in Builder /\ IdleBuilder.run = 0 /\ IdleBuilder.left = {}
    BY <2>1 DEF IdleBuilder, Builder
  <2> QED BY <2>1, <2>2 DEF Builder
<1> HIDE DEF n
<1>3. /\ builder' \in [Builders -> Builder] /\ builder'[b] = n
      /\ \A c \in Builders \ {b} : builder'[c] = builder[c]
  BY <1>1, <1>2 DEF ReportInv, ReportTypeOK
<1>4. report' \in [Reports -> Report]
  BY <1>1 DEF ReportInv, ReportTypeOK, Report, Leases
<1>5. builder[b].run = 0 /\ \A o \in Occurrences : o # 0
  BY <1>1 DEF ReportInv, RunsInOrder, Occurrences
<1>6. \A c \in Builders : builder'[c].run = builder[c].run
  BY <1>2, <1>3, <1>5
<1>7. RunsInOrder'
  BY <1>1, <1>2, <1>3, <1>6 DEF ReportInv, RunsInOrder
<1>8. MailsPaidFor'
  <2> SUFFICES ASSUME NEW o \in Occurrences, NEW x \in Recipients
               PROVE  mails'[o][x] + Cardinality(Mailing(o, x)') + StillToStart(o)' <= 1 + cutOff'[o]
    BY DEF MailsPaidFor
  <2>1. Mailing(o, x)' \subseteq Mailing(o, x)
    BY <1>2, <1>3, <1>5, <1>6 DEF Mailing
  <2>2. MayStart(o)' => MayStart(o)
    BY <1>1, <1>6 DEF MayStart
  <2>3. cutOff[o] \in Nat
    BY DEF ReportInv, ReportTypeOK
  <2> QED BY <1>1, <2>1, <2>2, <2>3, StaysPaid DEF ReportInv
<1> QED BY <1>1, <1>3, <1>4, <1>7, <1>8 DEF ReportInv, ReportTypeOK

\* Report r is marked, or is not there any more.
LEMMA MarkedTyped ==
    ASSUME report \in [Reports -> Report], NEW r, NEW status \in {"ready", "failed", "pending"},
           report' = IF Written(r)
                     THEN [report EXCEPT ![r] =
                              [@ EXCEPT !.status = status, !.due = FALSE, !.lease = "none"]]
                     ELSE report
    PROVE  report' \in [Reports -> Report]
<1>1. ASSUME r \in Reports
      PROVE  [report[r] EXCEPT !.status = status, !.due = FALSE, !.lease = "none"] \in Report
  BY <1>1 DEF Report, Leases
<1> QED BY <1>1

\* A build comes to its end, with or without its last write.
LEMMA BuildKeeps ==
    ASSUME ReportInv, NEW b \in Builders,
           \/ BuildReport(b) \/ MarkReady(b) \/ MarkAttemptFailed(b) \/ MarkingFails(b)
           \/ DeliveryEnds(b) \/ CreationFails(b)
    PROVE  ReportInv'
<1>1. UNCHANGED <<schedule, outlived, mails, cutOff>> /\ reportFaults' \in 0 .. MaxReportFaults
  BY ReportQueueAssumption
  DEF ReportInv, ReportTypeOK, BuildReport, MarkReady, MarkAttemptFailed, MarkingFails,
      DeliveryEnds, CreationFails, ReportHistory, FaultAllowed
<1>2. report' \in [Reports -> Report]
  <2>1. CASE MarkReady(b)
    BY <2>1, MarkedTyped DEF ReportInv, ReportTypeOK, MarkReady
  <2>2. CASE MarkAttemptFailed(b)
    BY <2>2, MarkedTyped DEF ReportInv, ReportTypeOK, MarkAttemptFailed
  <2>3. CASE BuildReport(b) \/ MarkingFails(b) \/ DeliveryEnds(b) \/ CreationFails(b)
    BY <2>3 DEF ReportInv, ReportTypeOK, BuildReport, MarkingFails, DeliveryEnds, CreationFails
  <2> QED BY <2>1, <2>2, <2>3
<1>3. /\ builder[b].pc # "finally"
      /\ \/ \E pc \in {"ready", "failed"} : RunGoesOn(b, pc)
         \/ \E pc \in {"deliver", "finally"} : RunGoesOn(b, pc) /\ builder[b].run > 0
         \/ BuilderIdles(b) /\ builder[b].run = 0
  <2>0. builder[b].run \in Nat
    BY ReportQueueAssumption DEF ReportInv, ReportTypeOK, Builder
  <2>1. CASE BuildReport(b)
    <3>1. CASE BuilderGoes(b, "ready") \/ BuilderGoes(b, "failed")
      BY <2>1, <3>1, RunGoesOnEffect DEF BuildReport, ReportInv
    <3>2. CASE builder' = [builder EXCEPT ![b].pc = "failed", ![b].attempt = ReportAttempts]
      BY <2>1, <3>2, ReportQueueAssumption DEF BuildReport, ReportInv, ReportTypeOK, Builder, RunGoesOn
    <3> QED BY <2>1, <3>1, <3>2 DEF BuildReport
  <2>2. CASE MarkReady(b) \/ MarkAttemptFailed(b)
    BY <2>0, <2>2, BuildEndsEffect DEF MarkReady, MarkAttemptFailed, ReportInv, Scheduled
  <2>3. CASE MarkingFails(b)
    <3>1. CASE builder[b].pc = "ready" /\ BuilderGoes(b, "failed")
      BY <3>1, RunGoesOnEffect DEF ReportInv
    <3>2. CASE builder[b].pc = "failed" /\ BuildEnds(b, "finally")
      BY <2>0, <3>2, BuildEndsEffect DEF ReportInv, Scheduled
    <3> QED BY <2>3, <3>1, <3>2 DEF MarkingFails
  <2>4. CASE DeliveryEnds(b) \/ CreationFails(b)
    BY <2>4, RunGoesOnEffect DEF DeliveryEnds, CreationFails, ReportInv, RunsInOrder
  <2> QED BY <2>1, <2>2, <2>3, <2>4
<1>4. Promises' /\ builder' \in [Builders -> Builder]
  <2>1. CASE \E pc \in {"ready", "failed"} : RunGoesOn(b, pc)
    BY <1>1, <1>3, <2>1, RunGoesOnKeeps DEF ReportInv, Promises, RunGoesOn
  <2>2. CASE \E pc \in {"deliver", "finally"} : RunGoesOn(b, pc) /\ builder[b].run > 0
    BY <1>1, <1>3, <2>2, RunGoesOnKeeps DEF ReportInv, Promises, RunGoesOn
  <2>3. CASE BuilderIdles(b) /\ builder[b].run = 0
    <3>1. cutOff' \in [Occurrences -> Nat] /\ \A o \in Occurrences : cutOff'[o] >= cutOff[o]
      BY <1>1 DEF ReportInv, ReportTypeOK
    <3> QED BY <1>1, <2>3, <3>1, IdlesKeeps DEF ReportInv, Promises, BuilderIdles
  <2> QED BY <1>3, <2>1, <2>2, <2>3
<1> QED BY <1>1, <1>2, <1>4 DEF ReportInv, ReportTypeOK, Promises

\* The run of a schedule.
LEMMA CreateScheduledKeeps ==
    ASSUME ReportInv, NEW b \in Builders, NEW r \in Reports, CreateScheduledReport(b, r)
    PROVE  ReportInv'
<1>1. UNCHANGED <<schedule, mails, cutOff, reportFaults>> /\ outlived' \subseteq Reports
  BY DEF CreateScheduledReport, ReportInv, ReportTypeOK
<1>2. report' \in [Reports -> Report]
  BY DEF CreateScheduledReport, CreateReport, ReportInv, ReportTypeOK, Report
<1>3. RunGoesOn(b, "build") /\ builder[b].pc = "create"
  <2> DEFINE n == [builder[b] EXCEPT !.pc = "build", !.report = r, !.attempt = 1]
  <2>1. builder[b] \in Builder /\ builder \in [Builders -> Builder]
    BY DEF ReportInv, ReportTypeOK
  <2>2. n \in Builder /\ n.pc = "build" /\ n.run = builder[b].run /\ n.left = builder[b].left
    BY <2>1 DEF Builder
  <2>3. builder' = [builder EXCEPT ![b] = n] /\ builder[b].pc = "create"
    BY <2>1 DEF CreateScheduledReport, Builder
  <2> HIDE DEF n
  <2> QED BY <2>1, <2>2, <2>3 DEF RunGoesOn
<1>4. Promises' /\ builder' \in [Builders -> Builder]
  BY <1>1, <1>3, RunGoesOnKeeps DEF ReportInv, Promises, RunGoesOn
<1> QED BY <1>1, <1>2, <1>4 DEF ReportInv, ReportTypeOK, Promises

LEMMA RunStarts ==
    ASSUME ReportInv, NEW b \in Builders, ClaimDueSchedule(b)
    PROVE  ReportInv'
<1>1. UNCHANGED <<report, outlived, mails, cutOff, reportFaults>>
  BY DEF ClaimDueSchedule, ReportHistory
<1> QED BY <1>1, ClaimDueKeeps DEF ReportInv, ReportTypeOK, Promises

LEMMA RunMails ==
    ASSUME ReportInv, NEW b \in Builders, NEW x \in Recipients, MailReport(b, x)
    PROVE  ReportInv'
<1>1. UNCHANGED <<report, schedule, outlived, cutOff, reportFaults>>
  BY DEF MailReport
<1> QED BY <1>1, MailKeeps DEF ReportInv, ReportTypeOK, Promises

LEMMA RunCompletes ==
    ASSUME ReportInv, NEW b \in Builders, CompleteScheduleRun(b)
    PROVE  ReportInv'
<1>1. /\ UNCHANGED <<report, outlived, mails, cutOff, reportFaults>>
      /\ schedule' = [schedule EXCEPT !.lease = "none", !.due = FALSE]
  BY DEF CompleteScheduleRun, ReleasedForNext, ReportHistory
<1>2. schedule' \in Schedule /\ schedule'.occurrence = schedule.occurrence /\ schedule'.due = FALSE
  BY <1>1 DEF ReportInv, ReportTypeOK, Schedule, Leases
<1>3. BuilderIdles(b)
  BY IdlesOnEffect DEF CompleteScheduleRun, ReportInv
<1>4. cutOff' \in [Occurrences -> Nat] /\ \A o \in Occurrences : cutOff'[o] >= cutOff[o]
  BY <1>1 DEF ReportInv, ReportTypeOK
<1>5. Promises'
  BY <1>1, <1>2, <1>3, <1>4, IdlesKeeps DEF ReportInv, Promises
<1> QED BY <1>1, <1>2, <1>3, <1>5 DEF ReportInv, ReportTypeOK, Promises, BuilderIdles

LEMMA RunIsCutOff ==
    ASSUME ReportInv, NEW b \in Builders, ScheduleReleaseFails(b) \/ BuilderStops(b)
    PROVE  ReportInv'
<1>1. /\ UNCHANGED <<report, schedule, outlived, mails>> /\ RunCutOff(b)
      /\ builder' = [builder EXCEPT ![b] = IdleBuilder]
      /\ reportFaults' \in 0 .. MaxReportFaults
  BY ReportQueueAssumption
  DEF ReportInv, ReportTypeOK, ScheduleReleaseFails, BuilderStops, FaultAllowed
<1>2. BuilderIdles(b)
  BY <1>1, IdlesOnEffect DEF ReportInv
<1>3. builder[b].run = 0 \/ builder[b].run \in Occurrences
  BY ReportQueueAssumption DEF ReportInv, ReportTypeOK, Builder, Occurrences
<1>4. /\ cutOff' \in [Occurrences -> Nat] /\ \A o \in Occurrences : cutOff'[o] >= cutOff[o]
      /\ builder[b].run \in Occurrences => cutOff'[builder[b].run] > cutOff[builder[b].run]
  <2>1. CASE builder[b].run = 0
    BY <1>1, <2>1 DEF RunCutOff, Scheduled, ReportInv, ReportTypeOK, Occurrences
  <2>2. CASE builder[b].run \in Occurrences
    <3>1. cutOff' = [cutOff EXCEPT ![builder[b].run] = @ + 1]
      BY <1>1, <2>2 DEF RunCutOff, Scheduled, Occurrences
    <3> QED BY <2>2, <3>1 DEF ReportInv, ReportTypeOK
  <2> QED BY <1>3, <2>1, <2>2
<1>5. schedule'.occurrence = schedule.occurrence /\ (schedule'.due => schedule.due)
  BY <1>1
<1>6. Promises'
  BY <1>1, <1>2, <1>3, <1>4, <1>5, IdlesKeeps DEF ReportInv, Promises
<1> QED BY <1>1, <1>2, <1>4, <1>6 DEF ReportInv, ReportTypeOK, Promises, BuilderIdles

-----------------------------------------------------------------------------
\* The schedule is edited, comes due, and loses its lease: a run for its occurrence may be
\* started again after that, and the fault has paid for the mails of the run it was taken from.
LEMMA ScheduleEditedKeeps ==
    ASSUME ReportInv, ScheduleEdited
    PROVE  ReportInv'
<1>1. UNCHANGED <<report, builder, outlived, mails, cutOff, reportFaults>>
  BY DEF ScheduleEdited, RescheduleReport, ToggleSchedule, DeleteSchedule, ReportHistory
<1>2. /\ schedule' \in Schedule /\ schedule'.occurrence = schedule.occurrence
      /\ schedule'.lease = schedule.lease /\ (schedule'.due => schedule.due)
  BY DEF ScheduleEdited, RescheduleReport, ToggleSchedule, DeleteSchedule, ReportInv,
         ReportTypeOK, Schedule
<1>3. \A o \in Occurrences : MayStart(o)' => MayStart(o)
  BY <1>1, <1>2 DEF MayStart
<1>4. cutOff' \in [Occurrences -> Nat] /\ \A o \in Occurrences : cutOff'[o] >= cutOff[o]
  BY <1>1 DEF ReportInv, ReportTypeOK
<1>5. schedule'.occurrence >= schedule.occurrence /\ (schedule'.due => schedule'.occurrence > 0)
  BY <1>2, ReportQueueAssumption DEF ReportInv, ReportTypeOK, Schedule, RunsInOrder
<1>6. Promises'
  BY <1>1, <1>2, <1>3, <1>4, <1>5, ScheduleKeeps DEF ReportInv, Promises
<1> QED BY <1>1, <1>2, <1>6 DEF ReportInv, ReportTypeOK, Promises

LEMMA ScheduleComesDueKeeps ==
    ASSUME ReportInv, ScheduleComesDue
    PROVE  ReportInv'
<1>1. UNCHANGED <<report, builder, outlived, mails, cutOff, reportFaults>>
  BY DEF ScheduleComesDue, ReportHistory
<1>2. /\ schedule' \in Schedule /\ schedule'.occurrence = schedule.occurrence + 1
      /\ schedule.occurrence \in Nat
  <2>1. /\ schedule \in Schedule /\ schedule.occurrence < MaxOccurrences
        /\ schedule' = [schedule EXCEPT !.due = TRUE, !.occurrence = @ + 1]
    BY DEF ScheduleComesDue, ReportInv, ReportTypeOK
  <2>2. /\ schedule.occurrence \in Nat /\ schedule.occurrence + 1 \in 0 .. MaxOccurrences
    BY <2>1, ReportQueueAssumption DEF Schedule
  <2> QED BY <2>1, <2>2 DEF Schedule
<1>3. \A o \in Occurrences : MayStart(o)' => o > schedule.occurrence
  BY <1>2 DEF MayStart
<1>4. cutOff' \in [Occurrences -> Nat] /\ \A o \in Occurrences : cutOff'[o] >= cutOff[o]
  BY <1>1 DEF ReportInv, ReportTypeOK
<1>5. schedule'.occurrence >= schedule.occurrence /\ schedule'.occurrence > 0
  BY <1>2
<1>6. Promises'
  BY <1>1, <1>2, <1>3, <1>4, <1>5, ScheduleKeeps DEF ReportInv, Promises
<1> QED BY <1>1, <1>2, <1>6 DEF ReportInv, ReportTypeOK, Promises

LEMMA ScheduleLapsesKeeps ==
    ASSUME ReportInv, ScheduleLeaseLapses
    PROVE  ReportInv'
<1> DEFINE RunsFor(o) == {b \in Runs : builder[b].run = o}
<1>1. /\ UNCHANGED <<report, builder, outlived, mails>> /\ schedule.lease = "held"
      /\ schedule' = [schedule EXCEPT !.lease = "lapsed"]
      /\ reportFaults' \in 0 .. MaxReportFaults
  BY ReportQueueAssumption DEF ScheduleLeaseLapses, ReportInv, ReportTypeOK, FaultAllowed
<1>2. /\ schedule' \in Schedule /\ schedule'.occurrence = schedule.occurrence
      /\ schedule'.due = schedule.due
  BY <1>1 DEF ReportInv, ReportTypeOK, Schedule, Leases
<1>3. \A o : IsFiniteSet(RunsFor(o)) /\ Cardinality(RunsFor(o)) \in Nat
  <2> SUFFICES ASSUME NEW o PROVE IsFiniteSet(RunsFor(o)) /\ Cardinality(RunsFor(o)) \in Nat
    OBVIOUS
  <2>1. RunsFor(o) \subseteq Builders
    BY DEF Runs
  <2> QED BY <2>1, ReportQueueAssumption, FS_Subset, FS_CardinalityType
<1>4. \A o \in Occurrences : cutOff'[o] = cutOff[o] + Cardinality(RunsFor(o))
  <2>1. CASE Runs # {}
    BY <2>1 DEF ScheduleLeaseLapses
  <2>2. CASE Runs = {}
    <3>1. \A o : Cardinality(RunsFor(o)) = 0
      BY <2>2, FS_EmptySet
    <3>2. cutOff' = cutOff /\ \A o \in Occurrences : cutOff[o] \in Nat
      BY <2>2 DEF ScheduleLeaseLapses, ReportInv, ReportTypeOK
    <3> HIDE DEF RunsFor
    <3> QED BY <3>1, <3>2
  <2> QED BY <2>1, <2>2
<1>5. cutOff' \in [Occurrences -> Nat]
  <2>1. CASE Runs # {}
    <3>1. cutOff' = [o \in Occurrences |-> cutOff[o] + Cardinality(RunsFor(o))]
      BY <2>1 DEF ScheduleLeaseLapses
    <3>2. \A o \in Occurrences : cutOff[o] \in Nat
      BY DEF ReportInv, ReportTypeOK
    <3> HIDE DEF RunsFor
    <3> QED BY <1>3, <3>1, <3>2
  <2>2. CASE Runs = {}
    BY <2>2 DEF ScheduleLeaseLapses, ReportInv, ReportTypeOK
  <2> QED BY <2>1, <2>2
<1>6. ASSUME NEW o \in Occurrences
      PROVE  /\ cutOff'[o] >= cutOff[o]
             /\ MayStart(o)' /\ ~MayStart(o) => cutOff'[o] > cutOff[o]
  <2>1. cutOff[o] \in Nat
    BY DEF ReportInv, ReportTypeOK
  <2>2. ASSUME MayStart(o)', ~MayStart(o) PROVE Cardinality(RunsFor(o)) # 0
    <3>1. PICK b \in Builders : builder[b].run = o
      BY <1>1, <1>2, <2>2 DEF MayStart
    <3>2. b \in RunsFor(o)
      BY <3>1 DEF Runs, Scheduled, Occurrences
    <3> QED BY <1>3, <3>2, FS_EmptySet
  <2> HIDE DEF RunsFor
  <2> QED BY <1>3, <1>4, <2>1, <2>2
<1>7. schedule'.occurrence >= schedule.occurrence /\ (schedule'.due => schedule'.occurrence > 0)
  BY <1>2, ReportQueueAssumption DEF ReportInv, ReportTypeOK, Schedule, RunsInOrder
<1> HIDE DEF RunsFor
<1>8. Promises'
  BY <1>1, <1>2, <1>5, <1>6, <1>7, ScheduleKeeps DEF ReportInv, Promises
<1> QED BY <1>1, <1>2, <1>5, <1>8 DEF ReportInv, ReportTypeOK, Promises

-----------------------------------------------------------------------------
LEMMA ReportBegins == ReportInit => ReportInv
<1> SUFFICES ASSUME ReportInit PROVE ReportInv
  OBVIOUS
<1>1. /\ IdleBuilder \in Builder /\ IdleBuilder.pc = "idle" /\ IdleBuilder.run = 0
      /\ IdleBuilder.left = {}
  BY ReportQueueAssumption DEF IdleBuilder, Builder
<1>2. /\ builder = [b \in Builders |-> IdleBuilder] /\ schedule.occurrence = 0 /\ ~schedule.due
      /\ \A o \in Occurrences, x \in Recipients : mails[o][x] = 0
      /\ \A o \in Occurrences : cutOff[o] = 0
  BY DEF ReportInit
<1>3. ReportTypeOK
  BY <1>1, ReportQueueAssumption DEF ReportInit, ReportTypeOK, Report, Schedule, Leases
<1>4. RunsInOrder
  BY <1>1, <1>2 DEF RunsInOrder
<1>5. MailsPaidFor
  <2> SUFFICES ASSUME NEW o \in Occurrences, NEW x \in Recipients
               PROVE  mails[o][x] + Cardinality(Mailing(o, x)) + StillToStart(o) <= 1 + cutOff[o]
    BY DEF MailsPaidFor
  <2>1. Mailing(o, x) = {} /\ ~MayStart(o)
    BY <1>1, <1>2 DEF Mailing, MayStart
  <2>2. Cardinality(Mailing(o, x)) = 0 /\ StillToStart(o) = 0
    BY <2>1, FS_EmptySet DEF StillToStart
  <2> HIDE DEF Mailing, StillToStart
  <2> QED BY <1>2, <2>2
<1> QED BY <1>3, <1>4, <1>5 DEF ReportInv

LEMMA ReportStep == ReportInv /\ [ReportNext]_reportVars => ReportInv'
<1> SUFFICES ASSUME ReportInv, [ReportNext]_reportVars PROVE ReportInv'
  OBVIOUS
<1>1. CASE UNCHANGED reportVars
  BY <1>1, ReportsKeep DEF reportVars, ReportInv, ReportTypeOK, Promises
<1>2. CASE ReportNext
  <2>1. CASE \E r \in Reports : RequestReport(r) \/ DeleteReport(r) \/ ReportFallsDue(r)
                                \/ ReportLeaseLapses(r)
    BY <2>1, ReportRequests
  <2>2. CASE \E b \in Builders, r \in Reports : ClaimPending(b, r)
    BY <2>2, ClaimPendingKeeps
  <2>3. ASSUME NEW b \in Builders, ClaimDueSchedule(b) \/ BuilderWorks(b) \/ BuilderFails(b)
        PROVE  ReportInv'
    BY <2>3, RunStarts, BuildKeeps, CreateScheduledKeeps, RunMails, RunCompletes, RunIsCutOff
    DEF BuilderWorks, BuilderFails
  <2>4. CASE ScheduleEdited \/ ScheduleComesDue \/ ScheduleLeaseLapses
    BY <2>4, ScheduleEditedKeeps, ScheduleComesDueKeeps, ScheduleLapsesKeeps
  <2> QED BY <1>2, <2>1, <2>2, <2>3, <2>4 DEF ReportNext
<1> QED BY <1>1, <1>2

LEMMA ReportInvAlways == ReportSpec => []ReportInv
BY ReportBegins, ReportStep, PTL DEF ReportSpec

LEMMA PaidForIsEnough == ReportInv => ReportMailedOnce
<1> SUFFICES ASSUME ReportInv, NEW o \in Occurrences, NEW x \in Recipients
             PROVE  mails[o][x] <= 1 + cutOff[o]
  BY DEF ReportMailedOnce
<1>1. mails[o][x] + Cardinality(Mailing(o, x)) + StillToStart(o) <= 1 + cutOff[o]
  BY DEF ReportInv, MailsPaidFor
<1>2. mails[o][x] \in Nat /\ cutOff[o] \in Nat
  BY DEF ReportInv, ReportTypeOK
<1>3. Cardinality(Mailing(o, x)) \in Nat /\ StillToStart(o) \in Nat
  BY MailingFinite DEF StillToStart
<1> HIDE DEF Mailing, StillToStart
<1> QED BY <1>1, <1>2, <1>3
-----------------------------------------------------------------------------
(* The queue of reports as leased work.                                    *)

Building(b) == builder[b].pc \in {"build", "ready", "failed"}

BuildHolds(b, r) == Building(b) /\ builder[b].report = r

\* A report no build outlived its lease on: one process at a time builds it, under the
\* lease, and a try beyond the last one planned is paid for by a fault.
BuiltInOrder(r) ==
    /\ report[r].status = "none" => report[r].attempts = 0 /\ report[r].lease # "held"
    /\ InQueue(r) => report[r].attempts <= ReportAttempts + reportFaults
    /\ InQueue(r) /\ (\A b \in Builders : ~BuildHolds(b, r)) =>
           report[r].attempts < ReportAttempts + reportFaults
    /\ \A b \in Builders : BuildHolds(b, r) =>
           \/ report[r].status = "gone"
           \/ /\ report[r].status = "generating" /\ report[r].lease = "held"
              /\ builder[b].attempt < ReportAttempts => report[r].attempts < ReportAttempts
    /\ \A b, c \in Builders : BuildHolds(b, r) /\ BuildHolds(c, r) => b = c

BuildsInv ==
    /\ \A b \in Builders : Building(b) => builder[b].report \in Reports
    /\ \A r \in Reports \ outlived : BuiltInOrder(r)

ReportWorkOf(r) == IF ~QueuedReport(r) THEN "none" ELSE IF report[r].lease = "held" THEN "held" ELSE "waiting"

ReportTriesOf(r) == IF QueuedReport(r) THEN report[r].attempts ELSE 0

\* A step of LeasedWork, or none, on one report.
ReportWorkStep(r) ==
    \/ ReportWorkOf(r) = "none" /\ ReportWorkOf(r)' = "waiting" /\ ReportTriesOf(r)' = ReportTriesOf(r)
    \/ /\ ReportWorkOf(r) = "waiting" /\ ReportWorkOf(r)' = "held"
       /\ ReportTriesOf(r) < ReportAttempts + MaxReportFaults /\ ReportTriesOf(r)' = ReportTriesOf(r) + 1
    \/ ReportWorkOf(r) = "held" /\ ReportWorkOf(r)' = "waiting" /\ ReportTriesOf(r)' = ReportTriesOf(r)
    \/ ReportWorkOf(r) # "none" /\ ReportWorkOf(r)' = "none" /\ ReportTriesOf(r)' = 0
    \/ ReportWorkOf(r)' = ReportWorkOf(r) /\ ReportTriesOf(r)' = ReportTriesOf(r)

ReportWorkStays(r) == ReportWorkOf(r)' = ReportWorkOf(r) /\ ReportTriesOf(r)' = ReportTriesOf(r)

LEMMA MappedBuild ==
    ASSUME NEW r \in Reports, ReportWorkStep(r), \A j \in Reports \ {r} : ReportWorkStays(j)
    PROVE  [Builds!Next]_(Builds!workVars)
BY DEF ReportWorkStep, ReportWorkStays, ReportWorkOf, ReportTriesOf, Builds!Next, Builds!workVars, Builds!Offer,
       Builds!Claim, Builds!GiveBack, Builds!Settle

LEMMA NothingMapped ==
    ASSUME UNCHANGED <<report, outlived>>
    PROVE  [Builds!Next]_(Builds!workVars)
BY DEF Builds!workVars, QueuedReport, InQueue

\* What the type says of the numbers compared.
LEMMA ReportNumbers ==
    ASSUME ReportTypeOK
    PROVE  /\ \A r \in Reports : report[r] \in Report /\ report[r].attempts \in Nat
           /\ \A b \in Builders : builder[b] \in Builder /\ builder[b].attempt \in Nat
           /\ reportFaults \in Nat /\ ReportAttempts \in Nat \ {0}
           /\ MaxReportFaults \in Nat /\ reportFaults <= MaxReportFaults
BY ReportQueueAssumption DEF ReportTypeOK, Report, Builder

\* Builder b moves and no report does: it holds what it held, or lets go of it by a fault.
LetsGoByFault(b) ==
    /\ \A c \in Builders \ {b} : builder'[c] = builder[c]
    /\ UNCHANGED <<report, outlived>>
    /\ reportFaults' \in Nat /\ reportFaults' >= reportFaults
    /\ Building(b)' => /\ Building(b) /\ builder'[b].report = builder[b].report
                       /\ \/ builder'[b].attempt = builder[b].attempt
                          \/ builder'[b].attempt = ReportAttempts
    /\ Building(b) /\ ~Building(b)' => reportFaults' > reportFaults

LEMMA LetsGoKeeps ==
    ASSUME ReportTypeOK, BuildsInv, NEW b \in Builders, LetsGoByFault(b)
    PROVE  BuildsInv'
<1>1. ASSUME NEW r PROVE \A c \in Builders : BuildHolds(c, r)' => BuildHolds(c, r)
  BY DEF LetsGoByFault, BuildHolds, Building
<1>2. \A c \in Builders : Building(c)' => builder'[c].report \in Reports
  BY DEF LetsGoByFault, BuildsInv, Building
<1>3. ASSUME NEW r \in Reports \ outlived PROVE BuiltInOrder(r)'
  <2>1. BuiltInOrder(r)
    BY DEF BuildsInv
  <2>2. /\ report[r].attempts \in Nat /\ reportFaults \in Nat /\ ReportAttempts \in Nat
        /\ reportFaults' \in Nat /\ reportFaults' >= reportFaults
    BY ReportNumbers DEF LetsGoByFault
  <2>3. InQueue(r)' => InQueue(r) /\ report[r].attempts <= ReportAttempts + reportFaults
    BY <2>1 DEF BuiltInOrder, InQueue, LetsGoByFault
  <2>4. ASSUME InQueue(r)', \A c \in Builders : ~BuildHolds(c, r)'
        PROVE  report'[r].attempts < ReportAttempts + reportFaults'
    <3>1. CASE BuildHolds(b, r)
      <4>1. reportFaults' > reportFaults
        BY <2>4, <3>1 DEF LetsGoByFault, BuildHolds, Building
      <4> QED BY <2>2, <2>3, <2>4, <4>1 DEF LetsGoByFault
    <3>2. CASE ~BuildHolds(b, r)
      <4>1. \A c \in Builders : ~BuildHolds(c, r)
        BY <2>4, <3>2 DEF LetsGoByFault, BuildHolds, Building
      <4>2. report[r].attempts < ReportAttempts + reportFaults
        BY <2>1, <2>3, <2>4, <4>1 DEF BuiltInOrder
      <4> QED BY <2>2, <4>2 DEF LetsGoByFault
    <3> QED BY <3>1, <3>2
  <2>5. ASSUME NEW c \in Builders, BuildHolds(c, r)'
        PROVE  \/ report[r].status = "gone"
               \/ /\ report[r].status = "generating" /\ report[r].lease = "held"
                  /\ builder'[c].attempt < ReportAttempts => report[r].attempts < ReportAttempts
    <3>1. BuildHolds(c, r)
      BY <1>1, <2>5
    <3>2. builder'[c].attempt = builder[c].attempt \/ builder'[c].attempt = ReportAttempts
      BY <2>5 DEF LetsGoByFault, BuildHolds
    <3> QED BY <2>1, <2>2, <3>1, <3>2 DEF BuiltInOrder
  <2>6. InQueue(r)' => report'[r].attempts <= ReportAttempts + reportFaults'
    BY <2>2, <2>3 DEF LetsGoByFault
  <2>7. report' = report
    BY DEF LetsGoByFault
  <2> QED BY <1>1, <2>1, <2>4, <2>5, <2>6, <2>7 DEF BuiltInOrder
<1> QED BY <1>2, <1>3 DEF BuildsInv, LetsGoByFault

LEMMA BuilderLetsGo ==
    ASSUME ReportTypeOK, NEW b \in Builders,
           \/ BuildReport(b) \/ MarkingFails(b) \/ ClaimDueSchedule(b) \/ DeliveryEnds(b)
           \/ CompleteScheduleRun(b) \/ CreationFails(b) \/ ScheduleReleaseFails(b)
           \/ BuilderStops(b) \/ \E x \in Recipients : MailReport(b, x)
    PROVE  LetsGoByFault(b)
<1>1. reportFaults \in Nat /\ builder \in [Builders -> Builder]
  BY ReportNumbers DEF ReportTypeOK
<1>2. CASE BuildReport(b)
  BY <1>1, <1>2 DEF BuildReport, BuilderGoes, ReportHistory, LetsGoByFault, Building, Builder
<1>3. CASE MarkingFails(b)
  <2>1. /\ reportFaults' = reportFaults + 1 /\ UNCHANGED <<report, outlived>>
        /\ \/ BuilderGoes(b, "failed") /\ builder[b].pc = "ready"
           \/ BuildEnds(b, "finally")
    BY <1>3 DEF MarkingFails, FaultAllowed
  <2>2. CASE BuilderGoes(b, "failed") /\ builder[b].pc = "ready"
    BY <1>1, <2>1, <2>2 DEF BuilderGoes, LetsGoByFault, Building, Builder
  <2>3. CASE BuildEnds(b, "finally")
    <3>1. ~Building(b)' /\ \A c \in Builders \ {b} : builder'[c] = builder[c]
      BY <1>1, <2>3 DEF BuildEnds, Building, IdleBuilder, Builder
    <3> QED BY <1>1, <2>1, <3>1 DEF LetsGoByFault
  <2> QED BY <2>1, <2>2, <2>3
<1>4. CASE ClaimDueSchedule(b)
  BY <1>1, <1>4 DEF ClaimDueSchedule, ReportHistory, LetsGoByFault, Building
<1>5. CASE DeliveryEnds(b) \/ CreationFails(b)
  <2>1. /\ BuilderGoes(b, "finally") /\ ~Building(b) /\ UNCHANGED <<report, outlived>>
        /\ reportFaults' = reportFaults \/ reportFaults' = reportFaults + 1
    BY <1>5 DEF DeliveryEnds, CreationFails, ReportHistory, FaultAllowed, Building
  <2>2. ~Building(b)' /\ \A c \in Builders \ {b} : builder'[c] = builder[c]
    BY <1>1, <2>1 DEF BuilderGoes, Building, Builder
  <2> QED BY <1>1, <2>1, <2>2 DEF LetsGoByFault
<1>6. CASE CompleteScheduleRun(b) \/ ScheduleReleaseFails(b) \/ BuilderStops(b)
  BY <1>1, <1>6
  DEF CompleteScheduleRun, ScheduleReleaseFails, BuilderStops, IdleBuilder, ReportHistory,
      FaultAllowed, LetsGoByFault, Building
<1>7. CASE \E x \in Recipients : MailReport(b, x)
  BY <1>1, <1>7 DEF MailReport, LetsGoByFault, Building, Builder
<1> QED BY <1>2, <1>3, <1>4, <1>5, <1>6, <1>7

\* Requests, deletions and time.
LEMMA RequestsBuilt ==
    ASSUME ReportTypeOK, BuildsInv, NEW r \in Reports,
           RequestReport(r) \/ DeleteReport(r) \/ ReportFallsDue(r) \/ ReportLeaseLapses(r)
    PROVE  BuildsInv' /\ [Builds!Next]_(Builds!workVars)
<1>1. /\ builder' = builder /\ \A j \in Reports \ {r} : report'[j] = report[j]
      /\ outlived \subseteq outlived' /\ outlived' \subseteq outlived \cup {r}
      /\ reportFaults' \in Nat /\ reportFaults' >= reportFaults
  BY ReportNumbers
  DEF ReportTypeOK, RequestReport, CreateReport, DeleteReport, ReportFallsDue, ReportLeaseLapses,
      ReportHistory, FaultAllowed
<1>2. \A j : \A c \in Builders : BuildHolds(c, j)' <=> BuildHolds(c, j)
  BY <1>1 DEF BuildHolds, Building
<1>3. report[r] \in Report /\ report'[r] \in Report /\ report \in [Reports -> Report]
  <2>1. report \in [Reports -> Report]
    BY DEF ReportTypeOK
  <2>2. CASE RequestReport(r)
    BY <2>1, <2>2 DEF RequestReport, CreateReport, Report
  <2>3. CASE DeleteReport(r) \/ ReportFallsDue(r)
    BY <2>1, <2>3 DEF DeleteReport, ReportFallsDue, Report
  <2>4. CASE ReportLeaseLapses(r)
    BY <2>1, <2>4 DEF ReportLeaseLapses, Report, Leases
  <2> QED BY <2>1, <2>2, <2>3, <2>4
<1>4. ASSUME NEW j \in Reports \ outlived', j # r PROVE BuiltInOrder(j)' /\ ReportWorkStays(j)
  <2>1. BuiltInOrder(j) /\ report'[j] = report[j] /\ j \notin outlived
    BY <1>1, <1>4 DEF BuildsInv
  <2>2. /\ report[j].attempts \in Nat /\ reportFaults \in Nat /\ ReportAttempts \in Nat
    BY ReportNumbers
  <2>3. InQueue(j)' = InQueue(j)
    BY <2>1 DEF InQueue
  <2>4. BuiltInOrder(j)'
    BY <1>1, <1>2, <2>1, <2>2, <2>3 DEF BuiltInOrder
  <2> QED BY <2>1, <2>4, <1>4 DEF ReportWorkStays, ReportWorkOf, ReportTriesOf, QueuedReport, InQueue
<1>5. \A j \in Reports \ {r} : ReportWorkStays(j)
  BY <1>1, <1>4 DEF ReportWorkStays, ReportWorkOf, ReportTriesOf, QueuedReport
<1>6. ASSUME r \in outlived' PROVE ReportWorkStep(r)
  BY <1>6 DEF ReportWorkStep, ReportWorkOf, ReportTriesOf, QueuedReport
<1>7. ASSUME r \notin outlived' PROVE BuiltInOrder(r)' /\ ReportWorkStep(r)
  <2>1. BuiltInOrder(r) /\ r \notin outlived
    BY <1>1, <1>7 DEF BuildsInv
  <2>2. /\ report[r].attempts \in Nat /\ reportFaults \in Nat /\ ReportAttempts \in Nat \ {0}
    BY ReportNumbers
  <2>3. CASE RequestReport(r)
    <3>1. /\ report[r].status = "none" /\ report'[r].status = "pending"
          /\ report'[r].attempts = report[r].attempts /\ report'[r].lease = report[r].lease
          /\ reportFaults' = reportFaults
      BY <1>3, <2>3 DEF RequestReport, CreateReport, ReportTypeOK, Report, ReportHistory
    <3>2. report[r].attempts = 0 /\ report[r].lease # "held" /\ \A c \in Builders : ~BuildHolds(c, r)
      BY <2>1, <3>1 DEF BuiltInOrder
    <3>3. BuiltInOrder(r)'
      BY <1>2, <2>2, <3>1, <3>2 DEF BuiltInOrder
    <3> QED BY <1>7, <2>1, <3>1, <3>2, <3>3 DEF ReportWorkStep, ReportWorkOf, ReportTriesOf, QueuedReport, InQueue
  <2>4. CASE DeleteReport(r)
    <3>1. report'[r].status = "gone"
      BY <1>3, <2>4 DEF DeleteReport, Report
    <3>2. BuiltInOrder(r)'
      BY <1>2, <2>1, <3>1 DEF BuiltInOrder, InQueue
    <3> QED BY <3>1, <3>2 DEF ReportWorkStep, ReportWorkOf, ReportTriesOf, QueuedReport, InQueue
  <2>5. CASE ReportFallsDue(r)
    <3>1. /\ report'[r].status = report[r].status /\ report'[r].attempts = report[r].attempts
          /\ report'[r].lease = report[r].lease /\ reportFaults' = reportFaults
          /\ outlived' = outlived
      BY <1>3, <2>5 DEF ReportFallsDue, Report, ReportHistory
    <3>2. BuiltInOrder(r)'
      BY <1>1, <1>2, <2>1, <3>1 DEF BuiltInOrder, InQueue
    <3> QED BY <3>1, <3>2 DEF ReportWorkStep, ReportWorkOf, ReportTriesOf, QueuedReport, InQueue
  <2>6. CASE ReportLeaseLapses(r)
    <3>1. /\ report'[r].status = report[r].status /\ report'[r].attempts = report[r].attempts
          /\ report[r].lease = "held" /\ report'[r].lease = "lapsed" /\ ~InHand(r)
          /\ reportFaults' = reportFaults /\ outlived' = outlived
      BY <1>3, <1>7, <2>6 DEF ReportLeaseLapses, Report
    <3>2. \A c \in Builders : ~BuildHolds(c, r)
      BY <3>1 DEF BuildHolds, InHand
    <3>3. BuiltInOrder(r)'
      BY <1>2, <2>1, <3>1, <3>2 DEF BuiltInOrder, InQueue
    <3> QED BY <3>1, <3>3 DEF ReportWorkStep, ReportWorkOf, ReportTriesOf, QueuedReport, InQueue
  <2> QED BY <2>3, <2>4, <2>5, <2>6
<1>8. BuildsInv'
  BY <1>1, <1>4, <1>7 DEF BuildsInv, Building
<1> QED BY <1>5, <1>6, <1>7, <1>8, MappedBuild

LEMMA ClaimsBuilt ==
    ASSUME ReportTypeOK, BuildsInv, NEW b \in Builders, NEW r \in Reports, ClaimPending(b, r)
    PROVE  BuildsInv' /\ [Builds!Next]_(Builds!workVars)
<1>1. /\ \A c \in Builders \ {b} : builder'[c] = builder[c]
      /\ \A j \in Reports \ {r} : report'[j] = report[j]
      /\ UNCHANGED <<outlived, reportFaults>> /\ ~Building(b)
      /\ InQueue(r) /\ report[r].lease # "held"
  BY DEF ReportTypeOK, ClaimPending, ClaimableReport, ReportHistory, Building
<1>2. /\ report'[r].status = "generating" /\ report'[r].lease = "held"
      /\ report'[r].attempts = report[r].attempts + 1
  BY DEF ReportTypeOK, ClaimPending, Report
<1>3. builder'[b].report = r /\ builder'[b].attempt = report[r].attempts + 1 /\ Building(b)'
  BY DEF ReportTypeOK, ClaimPending, IdleBuilder, Building
<1>4. /\ \A c \in Builders, j \in Reports \ {r} : BuildHolds(c, j)' <=> BuildHolds(c, j)
      /\ \A c \in Builders \ {b} : BuildHolds(c, r)' <=> BuildHolds(c, r)
  BY <1>1, <1>3 DEF BuildHolds, Building
<1>5. ASSUME NEW j \in Reports \ outlived, j # r PROVE BuiltInOrder(j)'
  <2>1. BuiltInOrder(j) /\ report'[j] = report[j] /\ InQueue(j)' = InQueue(j)
    BY <1>1, <1>5 DEF BuildsInv, InQueue
  <2>2. \A c \in Builders : BuildHolds(c, j)' => BuildHolds(c, j) /\ builder'[c].attempt = builder[c].attempt
    BY <1>1, <1>3, <1>4, <1>5 DEF BuildHolds
  <2> QED BY <1>1, <1>4, <1>5, <2>1, <2>2 DEF BuiltInOrder
<1>6. \A j \in Reports \ {r} : ReportWorkStays(j)
  BY <1>1 DEF ReportWorkStays, ReportWorkOf, ReportTriesOf, QueuedReport, InQueue
<1>7. ASSUME r \notin outlived PROVE BuiltInOrder(r)' /\ ReportWorkStep(r)
  <2>1. BuiltInOrder(r)
    BY <1>7 DEF BuildsInv
  <2>2. \A c \in Builders : ~BuildHolds(c, r)
    BY <1>1, <2>1 DEF BuiltInOrder, InQueue
  <2>3. report[r].attempts < ReportAttempts + reportFaults
    BY <1>1, <2>1, <2>2 DEF BuiltInOrder
  <2>4. /\ report[r].attempts \in Nat /\ reportFaults \in Nat /\ ReportAttempts \in Nat
        /\ MaxReportFaults \in Nat /\ reportFaults <= MaxReportFaults
    BY ReportNumbers
  <2>5. \A c \in Builders : BuildHolds(c, r)' => c = b
    BY <1>4, <2>2
  <2>6. /\ report'[r].attempts <= ReportAttempts + reportFaults'
        /\ builder'[b].attempt < ReportAttempts => report'[r].attempts < ReportAttempts
    BY <1>1, <1>2, <1>3, <2>3, <2>4
  <2>7. BuildHolds(b, r)'
    BY <1>3 DEF BuildHolds
  <2>8. BuiltInOrder(r)'
    BY <1>2, <2>5, <2>6, <2>7 DEF BuiltInOrder
  <2>9. /\ ReportWorkOf(r) = "waiting" /\ ReportWorkOf(r)' = "held" /\ ReportTriesOf(r) = report[r].attempts
        /\ ReportTriesOf(r)' = report[r].attempts + 1
    BY <1>1, <1>2, <1>7 DEF ReportWorkOf, ReportTriesOf, QueuedReport, InQueue
  <2>10. report[r].attempts < ReportAttempts + MaxReportFaults
    BY <2>3, <2>4
  <2> QED BY <2>8, <2>9, <2>10 DEF ReportWorkStep
<1>8. ASSUME r \in outlived PROVE ReportWorkStep(r)
  BY <1>1, <1>8 DEF ReportWorkStep, ReportWorkOf, ReportTriesOf, QueuedReport
<1>9. BuildsInv'
  BY <1>1, <1>3, <1>5, <1>7 DEF BuildsInv, Building
<1> QED BY <1>6, <1>7, <1>8, <1>9, MappedBuild

\* The end of a build, and the report of a run, which is nobody's leased work.
LEMMA MarkedBuilt ==
    ASSUME ReportTypeOK, BuildsInv, NEW b \in Builders, MarkReady(b) \/ MarkAttemptFailed(b)
    PROVE  BuildsInv' /\ [Builds!Next]_(Builds!workVars)
<1> PICK r : r = builder[b].report
  OBVIOUS
<1>1. /\ Building(b) /\ ~Building(b)' /\ r \in Reports /\ BuildHolds(b, r)
      /\ \A c \in Builders \ {b} : builder'[c] = builder[c]
      /\ UNCHANGED <<outlived, reportFaults>>
  BY DEF ReportTypeOK, MarkReady, MarkAttemptFailed, BuildEnds, ReportHistory, Building, BuildsInv,
         Builder, IdleBuilder, BuildHolds
<1>2. \A j \in Reports \ {r} : report'[j] = report[j]
  BY DEF ReportTypeOK, MarkReady, MarkAttemptFailed
<1>3. ASSUME Written(r)
      PROVE  /\ report'[r].attempts = report[r].attempts /\ report'[r].lease = "none"
             /\ \/ report'[r].status \in {"ready", "failed"}
                \/ report'[r].status = "pending" /\ builder[b].attempt < ReportAttempts
  <2>1. CASE MarkReady(b)
    BY <1>1, <1>3, <2>1 DEF ReportTypeOK, MarkReady, Report
  <2>2. CASE MarkAttemptFailed(b)
    BY <1>1, <1>3, <2>2, ReportNumbers DEF ReportTypeOK, MarkAttemptFailed, Exhausted, Report
  <2> QED BY <2>1, <2>2
<1>4. ~Written(r) => report' = report
  BY DEF MarkReady, MarkAttemptFailed
<1>5. \A j \in Reports : \A c \in Builders :
          BuildHolds(c, j)' => c # b /\ BuildHolds(c, j) /\ builder'[c].attempt = builder[c].attempt
  BY <1>1 DEF BuildHolds, Building
<1>6. ASSUME NEW j \in Reports \ outlived, j # r PROVE BuiltInOrder(j)'
  <2>1. /\ BuiltInOrder(j) /\ report'[j] = report[j] /\ (InQueue(j)' <=> InQueue(j))
        /\ ~BuildHolds(b, j)
    BY <1>1, <1>2, <1>6 DEF BuildsInv, InQueue, BuildHolds
  <2>2. \A c \in Builders : BuildHolds(c, j) => BuildHolds(c, j)'
    BY <1>1, <2>1 DEF BuildHolds, Building
  <2> QED BY <1>1, <1>5, <2>1, <2>2 DEF BuiltInOrder
<1>7. \A j \in Reports \ {r} : ReportWorkStays(j)
  BY <1>1, <1>2 DEF ReportWorkStays, ReportWorkOf, ReportTriesOf, QueuedReport, InQueue
<1>8. ASSUME r \in outlived PROVE ReportWorkStep(r)
  BY <1>1, <1>8 DEF ReportWorkStep, ReportWorkOf, ReportTriesOf, QueuedReport
<1>9. ASSUME r \notin outlived PROVE BuiltInOrder(r)' /\ ReportWorkStep(r)
  <2>1. BuiltInOrder(r)
    BY <1>1, <1>9 DEF BuildsInv
  <2>2. \A c \in Builders : ~BuildHolds(c, r)'
    BY <1>1, <1>5, <2>1 DEF BuiltInOrder
  <2>3. /\ report[r].attempts \in Nat /\ reportFaults \in Nat /\ ReportAttempts \in Nat
    BY <1>1, ReportNumbers
  <2>4. CASE report[r].status = "gone"
    <3>1. report' = report
      BY <1>4, <2>4 DEF Written
    <3>2. BuiltInOrder(r)'
      BY <2>2, <2>4, <3>1 DEF BuiltInOrder, InQueue
    <3> QED BY <1>1, <3>1, <3>2 DEF ReportWorkStep, ReportWorkOf, ReportTriesOf, QueuedReport, InQueue
  <2>5. CASE report[r].status # "gone"
    <3>1. /\ report[r].status = "generating" /\ report[r].lease = "held" /\ Written(r)
          /\ builder[b].attempt < ReportAttempts => report[r].attempts < ReportAttempts
      BY <1>1, <2>1, <2>5 DEF BuiltInOrder, Written
    <3>2. report'[r].status = "pending" =>
              report'[r].attempts < ReportAttempts + reportFaults'
      BY <1>1, <1>3, <2>3, <3>1
    <3>3. BuiltInOrder(r)'
      <4>1. report'[r].status # "none" /\ (InQueue(r)' => report'[r].status = "pending")
        BY <1>3, <3>1 DEF InQueue
      <4>2. report'[r].attempts < ReportAttempts + reportFaults'
            => report'[r].attempts <= ReportAttempts + reportFaults'
        BY <1>1, <1>3, <2>3, <3>1
      <4> QED BY <2>2, <3>2, <4>1, <4>2 DEF BuiltInOrder
    <3> QED BY <1>1, <1>3, <1>9, <3>1, <3>3 DEF ReportWorkStep, ReportWorkOf, ReportTriesOf, QueuedReport, InQueue
  <2> QED BY <2>4, <2>5
<1>10. BuildsInv'
  <2>1. \A c \in Builders : Building(c)' => builder'[c].report \in Reports
    BY <1>1 DEF BuildsInv, Building
  <2> QED BY <1>1, <1>6, <1>9, <2>1 DEF BuildsInv
<1> QED BY <1>1, <1>7, <1>8, <1>9, <1>10, MappedBuild

LEMMA ScheduledBuilt ==
    ASSUME ReportTypeOK, BuildsInv, NEW b \in Builders, NEW r \in Reports,
           CreateScheduledReport(b, r)
    PROVE  BuildsInv' /\ [Builds!Next]_(Builds!workVars)
<1>1. /\ ~Building(b) /\ builder'[b].report = r /\ report[r].status = "none"
      /\ \A c \in Builders \ {b} : builder'[c] = builder[c]
      /\ \A j \in Reports \ {r} : report'[j] = report[j]
      /\ outlived' = outlived \cup {r} /\ reportFaults' = reportFaults
  BY DEF ReportTypeOK, CreateScheduledReport, CreateReport, Building, Builder
<1>2. ASSUME NEW j \in Reports \ outlived' PROVE BuiltInOrder(j)'
  <2>1. /\ BuiltInOrder(j) /\ report'[j] = report[j] /\ j # r /\ (InQueue(j)' <=> InQueue(j))
    BY <1>1 DEF BuildsInv, InQueue
  <2>2. \A c \in Builders : /\ BuildHolds(c, j)' <=> BuildHolds(c, j)
                            /\ BuildHolds(c, j)' => builder'[c].attempt = builder[c].attempt
    BY <1>1, <2>1 DEF BuildHolds, Building
  <2> QED BY <1>1, <2>1, <2>2 DEF BuiltInOrder
<1>3. BuildsInv'
  BY <1>1, <1>2 DEF BuildsInv, Building
<1>4. \A j \in Reports : ReportWorkStays(j)
  BY <1>1 DEF ReportWorkStays, ReportWorkOf, ReportTriesOf, QueuedReport, InQueue
<1>5. ReportWorkStep(r)
  BY <1>4 DEF ReportWorkStays, ReportWorkStep
<1> QED BY <1>3, <1>4, <1>5, MappedBuild

LEMMA BuildsStep ==
    ASSUME ReportTypeOK, BuildsInv, [ReportNext]_reportVars
    PROVE  BuildsInv' /\ [Builds!Next]_(Builds!workVars)
<1>1. CASE \E b \in Builders :
              \/ BuildReport(b) \/ MarkingFails(b) \/ ClaimDueSchedule(b) \/ DeliveryEnds(b)
              \/ CompleteScheduleRun(b) \/ CreationFails(b) \/ ScheduleReleaseFails(b)
              \/ BuilderStops(b) \/ \E x \in Recipients : MailReport(b, x)
  BY <1>1, BuilderLetsGo, LetsGoKeeps, NothingMapped DEF LetsGoByFault
<1>2. CASE \E b \in Builders : MarkReady(b) \/ MarkAttemptFailed(b)
  BY <1>2, MarkedBuilt
<1>3. CASE \E b \in Builders, r \in Reports : CreateScheduledReport(b, r) \/ ClaimPending(b, r)
  BY <1>3, ScheduledBuilt, ClaimsBuilt
<1>4. CASE \E r \in Reports : RequestReport(r) \/ DeleteReport(r) \/ ReportFallsDue(r)
                              \/ ReportLeaseLapses(r)
  BY <1>4, RequestsBuilt
<1>5. CASE ScheduleEdited \/ ScheduleComesDue \/ ScheduleLeaseLapses \/ UNCHANGED reportVars
  <2>1. UNCHANGED <<report, builder, outlived>> /\ reportFaults' \in Nat
        /\ reportFaults' >= reportFaults
    BY <1>5, ReportNumbers
    DEF ScheduleEdited, RescheduleReport, ToggleSchedule, DeleteSchedule, ScheduleComesDue,
        ScheduleLeaseLapses, ReportHistory, FaultAllowed, reportVars
  <2>2. ASSUME NEW r \in Reports, BuiltInOrder(r) PROVE BuiltInOrder(r)'
    <3>1. /\ \A b \in Builders : BuildHolds(b, r)' <=> BuildHolds(b, r)
          /\ InQueue(r)' <=> InQueue(r)
      BY <2>1 DEF BuildHolds, Building, InQueue
    <3>2. report[r].attempts \in Nat /\ reportFaults \in Nat /\ ReportAttempts \in Nat
      BY ReportNumbers
    <3> QED BY <2>1, <2>2, <3>1, <3>2 DEF BuiltInOrder
  <2>3. BuildsInv'
    BY <2>1, <2>2 DEF BuildsInv, Building
  <2> QED BY <2>1, <2>3, NothingMapped
<1> QED BY <1>1, <1>2, <1>3, <1>4, <1>5 DEF ReportNext, BuilderWorks, BuilderFails

\* claimPending, markReady, markAttemptFailed: the requested reports no build outlived its lease
\* on keep the safety part of what LeasedWork promises: taken up only while queued and held by
\* nobody, a bounded number of times, whatever builds stop and whatever calls fail.
THEOREM ReportsAreLeasedWork ==
    ReportSpec => Builds!Init /\ [][Builds!Next]_(Builds!workVars)
<1>1. ReportInit => Builds!Init
  BY DEF ReportInit, Builds!Init, QueuedReport, InQueue
<1>2. ReportInit => BuildsInv
  BY ReportQueueAssumption
  DEF ReportInit, BuildsInv, BuiltInOrder, Building, BuildHolds, InQueue, IdleBuilder
<1>3. ReportInv /\ BuildsInv /\ [ReportNext]_reportVars
      => BuildsInv' /\ [Builds!Next]_(Builds!workVars)
  BY BuildsStep DEF ReportInv
<1> QED BY <1>1, <1>2, <1>3, ReportBegins, ReportStep, PTL DEF ReportSpec

=============================================================================
