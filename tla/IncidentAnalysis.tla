-------------------------- MODULE IncidentAnalysis --------------------------
(***************************************************************************)
(* The analysis of a resolved incident by a language model: queued on the  *)
(* incident's own document, once by the worker or at any time by a person, *)
(* claimed under a lease, paid for out of the monthly allowance of the     *)
(* plan before the provider is called.                                     *)
(*                                                                         *)
(* An incident is resolved, never reopened, and can be deleted.  All are   *)
(* of a category and a length that is analysed.  Any database call may     *)
(* fail and any process may stop: both leave what was written.             *)
(***************************************************************************)
EXTENDS Shared

CONSTANTS
    Incidents,           \* incident documents
    Analysts,            \* analyses that can be under way, in all processes
    Allowance,           \* aiGenerationsPerMonth of each plan
    AnalysisAttempts,    \* AI_ANALYSIS_MAX_ATTEMPTS
    MaxMonth,            \* bound: months that begin
    MaxAnalysisAsks,     \* bound: requests per incident
    MaxAnalysisFaults,   \* bound: crashes, database faults and overruns together
    MaxPlanChanges       \* bound: changes of the plan

ASSUME IncidentAnalysisAssumption ==
    /\ None \notin Incidents \cup Nat
    /\ IsFiniteSet(Analysts)
    /\ Allowance \in [DOMAIN Allowance -> Nat]
    /\ AnalysisAttempts \in Nat \ {0} /\ MaxMonth \in Nat
    /\ MaxAnalysisAsks \in Nat /\ MaxAnalysisFaults \in Nat /\ MaxPlanChanges \in Nat

VARIABLES
    analysis,     \* incidents, with incidents.analysis
    asker,        \* a person's request: the incident it was allowed for
    aiUsage,      \* ai_usage: generations of each month, None without a row
    month,        \* the month
    aiPlan,       \* organizations.plan, and the plan the worker has cached
    analyst,      \* analyses under way
    answered,     \* history: generations of each month that produced a summary
    lost,         \* history: reservations of each month nobody could give back
    aiFaults      \* history: faults so far

analysisVars == <<analysis, asker, aiUsage, month, aiPlan, analyst, answered, lost, aiFaults>>

AiPlans == DOMAIN Allowance
Months == 0 .. MaxMonth

\* The feature ai_insights of the plan; 0 is the limit of a plan without it.
HasAiInsights(p) == Allowance[p] > 0

\* lease: none, held until it expires, or lapsed.
Analysis == [state: {"resolved", "gone"},
             status: {"null", "pending", "completed", "failed", "skipped"},
             attempts: 0 .. AnalysisAttempts + MaxAnalysisFaults,
             due: BOOLEAN, lease: {"none", "held", "lapsed"}, asks: 0 .. MaxAnalysisAsks]

Analyst == [pc: {"idle", "begin", "reserve", "insert", "collided", "generate", "release",
                 "complete", "retry", "failed", "skipped"},
            incident: Incidents \cup {None},
            attempts: 0 .. AnalysisAttempts + MaxAnalysisFaults,
            plan: AiPlans \cup {None}, month: Months,
            error: {"none", "retryable", "final", "fault"}]

IdleAnalyst == [pc |-> "idle", incident |-> None, attempts |-> 0, plan |-> None, month |-> 0,
                error |-> "none"]

AnalysisInit ==
    /\ analysis = [i \in Incidents |-> [state |-> "resolved", status |-> "null", attempts |-> 0,
                                        due |-> FALSE, lease |-> "none", asks |-> 0]]
    /\ asker = None
    /\ aiUsage = [m \in Months |-> None]
    /\ month = 0
    /\ \E p \in AiPlans : aiPlan = [now |-> p, cached |-> None, changes |-> 0]
    /\ analyst = [w \in Analysts |-> IdleAnalyst]
    /\ answered = [m \in Months |-> 0]
    /\ lost = [m \in Months |-> 0]
    /\ aiFaults = 0

Pending(i) == analysis[i].state = "resolved" /\ analysis[i].status = "pending"

Spent(m) == IF aiUsage[m] = None THEN 0 ELSE aiUsage[m]

AtAnalysis(w, pc) == analyst' = [analyst EXCEPT ![w].pc = pc]

AnalysisKeeps == UNCHANGED <<asker, month, aiPlan, aiFaults>>
UsageKeeps == UNCHANGED <<aiUsage, answered, lost>>

-----------------------------------------------------------------------------
(* Queueing.                                                               *)

\* Both kinds of request leave the same document but for the time it is due.
Queued(i, due) ==
    analysis' = [analysis EXCEPT ![i].status = "pending", ![i].attempts = 0, ![i].due = due,
                                 ![i].lease = "none"]

\* afterResolution, of the job that resolved it or of the person who did.
EnqueueAutomatic(i) ==
    /\ analysis[i].state = "resolved" /\ analysis[i].status = "null"
    /\ \/ HasAiInsights(aiPlan.now)
       \/ aiPlan.cached # None /\ HasAiInsights(aiPlan.cached)
    /\ Queued(i, FALSE)
    /\ UNCHANGED <<analyst>> /\ UsageKeeps /\ AnalysisKeeps

\* The plan, the incident and the allowance allow it.
AskForAnalysis(i) ==
    /\ asker = None
    /\ HasAiInsights(aiPlan.now)
    /\ analysis[i].state = "resolved" /\ analysis[i].status # "pending"
    /\ analysis[i].asks < MaxAnalysisAsks
    /\ Spent(month) < Allowance[aiPlan.now]
    /\ asker' = i
    /\ analysis' = [analysis EXCEPT ![i].asks = @ + 1]
    /\ UNCHANGED <<analyst, month, aiPlan, aiFaults>> /\ UsageKeeps

\* Writes nothing if it was queued or deleted meanwhile.
RequestAnalysis ==
    /\ asker # None
    /\ asker' = None
    /\ IF analysis[asker].state = "resolved" /\ analysis[asker].status # "pending"
       THEN Queued(asker, TRUE)
       ELSE UNCHANGED analysis
    /\ UNCHANGED <<analyst, month, aiPlan, aiFaults>> /\ UsageKeeps

DeleteIncident(i) ==
    /\ analysis[i].state = "resolved"
    /\ analysis' = [analysis EXCEPT ![i].state = "gone"]
    /\ UNCHANGED analyst /\ UsageKeeps /\ AnalysisKeeps

-----------------------------------------------------------------------------
(* The job.                                                                *)

\* Mutant: only a lease that was let go is free.
ClaimableNever(i) == Pending(i) /\ analysis[i].due /\ analysis[i].lease = "none"

\* A lease that was let go, or has run out, is free.
Claimable(i) == Pending(i) /\ analysis[i].due /\ analysis[i].lease # "held"

\* The attempt is counted in the claim.
ClaimAnalysis(w, i) ==
    /\ analyst[w].pc = "idle"
    /\ Claimable(i)
    /\ analysis' = [analysis EXCEPT ![i].lease = "held", ![i].attempts = @ + 1]
    /\ analyst' = [analyst EXCEPT ![w] =
           [IdleAnalyst EXCEPT !.pc = "begin", !.incident = i,
                               !.attempts = analysis[i].attempts + 1]]
    /\ UsageKeeps /\ AnalysisKeeps

\* The plan the job sees: cached, or read and cached for a minute.
SeenPlan == IF aiPlan.cached = None THEN aiPlan.now ELSE aiPlan.cached

\* Everything that can refuse for free: attempts, incident, plan.
BeginAnalysis(w) ==
    /\ analyst[w].pc = "begin"
    /\ IF analyst[w].attempts > AnalysisAttempts
       THEN AtAnalysis(w, "failed") /\ UNCHANGED aiPlan
       ELSE IF analysis[analyst[w].incident].state = "gone"
       THEN AtAnalysis(w, "skipped") /\ UNCHANGED aiPlan
       ELSE /\ analyst' = [analyst EXCEPT
                   ![w].pc = IF HasAiInsights(SeenPlan) THEN "reserve" ELSE "skipped",
                   ![w].plan = SeenPlan]
            /\ aiPlan' = [aiPlan EXCEPT !.cached = SeenPlan]
    /\ UNCHANGED <<analysis, asker, month, aiFaults>> /\ UsageKeeps

\* The counter is below the limit the job has seen.
BelowAllowance(w, m) == aiUsage[m] # None /\ aiUsage[m] < Allowance[analyst[w].plan]

Reserve(w, m) ==
    /\ aiUsage' = [aiUsage EXCEPT ![m] = IF @ = None THEN 1 ELSE @ + 1]
    /\ analyst' = [analyst EXCEPT ![w].pc = "generate", ![w].month = m]
    /\ UNCHANGED <<analysis, answered, lost>> /\ AnalysisKeeps

\* An upsert that finds nothing to update goes on to insert the counter.
ReserveGeneration(w) ==
    /\ analyst[w].pc = "reserve"
    /\ IF BelowAllowance(w, month)
       THEN Reserve(w, month)
       ELSE /\ analyst' = [analyst EXCEPT ![w].pc = "insert", ![w].month = month]
            /\ UNCHANGED analysis /\ UsageKeeps /\ AnalysisKeeps

\* There is one: at the limit, or inserted by another process just now.
InsertUsage(w) ==
    /\ analyst[w].pc = "insert"
    /\ IF aiUsage[analyst[w].month] = None
       THEN Reserve(w, analyst[w].month)
       ELSE AtAnalysis(w, "collided") /\ UNCHANGED analysis /\ UsageKeeps /\ AnalysisKeeps

ReserveAgain(w) ==
    /\ analyst[w].pc = "collided"
    /\ IF BelowAllowance(w, analyst[w].month)
       THEN Reserve(w, analyst[w].month)
       ELSE AtAnalysis(w, "skipped") /\ UNCHANGED analysis /\ UsageKeeps /\ AnalysisKeeps

\* The facts are gathered and the provider answers, or not.
Generate(w) ==
    /\ analyst[w].pc = "generate"
    /\ \/ /\ AtAnalysis(w, "complete")
          /\ answered' = [answered EXCEPT ![analyst[w].month] = @ + 1]
       \/ \E e \in {"retryable", "final", "fault"} :
              /\ e = "fault" => aiFaults < MaxAnalysisFaults
              /\ analyst' = [analyst EXCEPT ![w].pc = "release", ![w].error = e]
              /\ UNCHANGED answered
    /\ aiFaults' = IF analyst'[w].error = "fault" THEN aiFaults + 1 ELSE aiFaults
    /\ UNCHANGED <<analysis, asker, month, aiPlan, aiUsage, lost>>

\* Mutant: the month it is by now.
ReleasedMonthNow(w) == month

\* The month the reservation was made in.
ReleasedMonth(w) == analyst[w].month

\* A fault of this process is left to the lease; the model's own is settled.
AfterRelease(w) ==
    CASE analyst[w].error = "fault" -> IdleAnalyst
      [] analyst[w].error = "retryable" /\ analyst[w].attempts < AnalysisAttempts ->
             [analyst[w] EXCEPT !.pc = "retry"]
      [] OTHER -> [analyst[w] EXCEPT !.pc = "failed"]

ReleaseGeneration(w) ==
    /\ analyst[w].pc = "release"
    /\ aiUsage' = [aiUsage EXCEPT ![ReleasedMonth(w)] =
           IF @ # None /\ @ > 0 THEN @ - 1 ELSE @]
    /\ analyst' = [analyst EXCEPT ![w] = AfterRelease(w)]
    /\ UNCHANGED <<analysis, answered, lost>> /\ AnalysisKeeps

\* completeAnalysis and settleAnalysisWithout: only while it is pending.
SettleAnalysis(w, status) ==
    /\ analysis' = IF Pending(analyst[w].incident)
                   THEN [analysis EXCEPT ![analyst[w].incident].status = status,
                                         ![analyst[w].incident].due = FALSE,
                                         ![analyst[w].incident].lease = "none"]
                   ELSE analysis
    /\ analyst' = [analyst EXCEPT ![w] = IdleAnalyst]
    /\ UsageKeeps /\ AnalysisKeeps

EndAnalysis(w) ==
    \/ analyst[w].pc = "complete" /\ SettleAnalysis(w, "completed")
    \/ analyst[w].pc = "failed" /\ SettleAnalysis(w, "failed")
    \/ analyst[w].pc = "skipped" /\ SettleAnalysis(w, "skipped")

\* Due again after a delay, with the lease let go.
RetryAnalysis(w) ==
    /\ analyst[w].pc = "retry"
    /\ analysis' = IF Pending(analyst[w].incident)
                   THEN [analysis EXCEPT ![analyst[w].incident].due = FALSE,
                                         ![analyst[w].incident].lease = "none"]
                   ELSE analysis
    /\ analyst' = [analyst EXCEPT ![w] = IdleAnalyst]
    /\ UsageKeeps /\ AnalysisKeeps

-----------------------------------------------------------------------------
(* Time and faults.                                                        *)

AnalysisFallsDue(i) ==
    /\ Pending(i) /\ ~analysis[i].due
    /\ analysis' = [analysis EXCEPT ![i].due = TRUE]
    /\ UNCHANGED analyst /\ UsageKeeps /\ AnalysisKeeps

Attended(i) == \E w \in Analysts : analyst[w].incident = i

\* A lease runs out under its holder only when that takes longer than planned.
AnalysisLeaseLapses(i) ==
    /\ analysis[i].lease = "held"
    /\ Attended(i) => aiFaults < MaxAnalysisFaults
    /\ aiFaults' = IF Attended(i) THEN aiFaults + 1 ELSE aiFaults
    /\ analysis' = [analysis EXCEPT ![i].lease = "lapsed"]
    /\ UNCHANGED <<asker, month, aiPlan, analyst>> /\ UsageKeeps

Reserved(w) == analyst[w].pc \in {"generate", "release"}

\* The process stops, or a database call of the job fails.
AnalystStops(w) ==
    /\ analyst[w].pc # "idle"
    /\ aiFaults < MaxAnalysisFaults
    /\ aiFaults' = aiFaults + 1
    /\ analyst' = [analyst EXCEPT ![w] = IdleAnalyst]
    /\ lost' = IF Reserved(w) THEN [lost EXCEPT ![analyst[w].month] = @ + 1] ELSE lost
    /\ UNCHANGED <<analysis, asker, month, aiPlan, aiUsage, answered>>

MonthBegins ==
    /\ month < MaxMonth
    /\ month' = month + 1
    /\ UNCHANGED <<analysis, asker, aiPlan, analyst, aiFaults>> /\ UsageKeeps

ChangeAiPlan ==
    /\ aiPlan.changes < MaxPlanChanges
    /\ \E p \in AiPlans \ {aiPlan.now} :
           aiPlan' = [aiPlan EXCEPT !.now = p, !.changes = @ + 1]
    /\ UNCHANGED <<analysis, asker, month, analyst, aiFaults>> /\ UsageKeeps

CachedPlanExpires ==
    /\ aiPlan.cached # None
    /\ aiPlan' = [aiPlan EXCEPT !.cached = None]
    /\ UNCHANGED <<analysis, asker, month, analyst, aiFaults>> /\ UsageKeeps

-----------------------------------------------------------------------------
\* What a job that runs does next.
AnalystWorks(w) ==
    \/ BeginAnalysis(w) \/ ReserveGeneration(w) \/ InsertUsage(w) \/ ReserveAgain(w)
    \/ Generate(w) \/ ReleaseGeneration(w) \/ EndAnalysis(w) \/ RetryAnalysis(w)

AnalysisNext ==
    \/ \E i \in Incidents : EnqueueAutomatic(i) \/ AskForAnalysis(i) \/ DeleteIncident(i)
                            \/ AnalysisFallsDue(i) \/ AnalysisLeaseLapses(i)
    \/ \E w \in Analysts, i \in Incidents : ClaimAnalysis(w, i)
    \/ \E w \in Analysts : AnalystWorks(w) \/ AnalystStops(w)
    \/ RequestAnalysis \/ MonthBegins \/ ChangeAiPlan \/ CachedPlanExpires

AnalysisSpec == AnalysisInit /\ [][AnalysisNext]_analysisVars

-----------------------------------------------------------------------------
AnalysisTypeOK ==
    /\ analysis \in [Incidents -> Analysis]
    /\ asker \in Incidents \cup {None}
    /\ \A m \in Months : aiUsage[m] \in Nat \cup {None}
    /\ month \in Months
    /\ aiPlan \in [now: AiPlans, cached: AiPlans \cup {None}, changes: 0 .. MaxPlanChanges]
    /\ analyst \in [Analysts -> Analyst]
    /\ answered \in [Months -> Nat] /\ lost \in [Months -> Nat]
    /\ aiFaults \in 0 .. MaxAnalysisFaults

ReservedIn(m) == {w \in Analysts : Reserved(w) /\ analyst[w].month = m}

\* reserveGeneration, releaseGeneration: the counter of a month holds the generations that
\* produced a summary, those under way and those a fault cut off, and no other, however a
\* month ends and however jobs and retries cross; what is paid for stays within the allowance
\* of the largest plan.
AllowanceHolds ==
    \A m \in Months :
        /\ Spent(m) = answered[m] + lost[m] + Cardinality(ReservedIn(m))
        /\ \A p \in AiPlans : (\A q \in AiPlans : Allowance[q] <= Allowance[p])
                              => Spent(m) <= Allowance[p]

\* The queue of analyses as leased work.
Analyses == INSTANCE LeasedWork WITH
    Items <- Incidents,
    MaxTries <- AnalysisAttempts + MaxAnalysisFaults,
    work <- [i \in Incidents |->
                IF ~Pending(i) THEN "none"
                ELSE IF analysis[i].lease = "held" THEN "held" ELSE "waiting"],
    tries <- [i \in Incidents |-> IF Pending(i) THEN analysis[i].attempts ELSE 0]
=============================================================================
