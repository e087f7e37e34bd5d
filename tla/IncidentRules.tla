---------------------------- MODULE IncidentRules ----------------------------
(***************************************************************************)
(* The pure decision rules of the uptime pipeline: what one check outcome  *)
(* does to a website's streaks, what the streaks do to its incidents, and  *)
(* the status the dashboard shows.  They are the operators of             *)
(* src/monitoring/incident-rules.ts and of the second half of              *)
(* src/monitoring/anomaly-detection.ts.                                    *)
(*                                                                         *)
(* A response time is abstracted to the two facts the rules look at: it    *)
(* scored as anomalous against the website's own baseline, and it reached  *)
(* the two-second DEGRADED_RESPONSE_TIME_MS.                               *)
(***************************************************************************)
EXTENDS Naturals

CONSTANTS
    FailureThreshold,   \* failed checks in a row that confirm an outage
    RecoveryThreshold,  \* successful checks in a row that confirm recovery
    TriggerChecks,      \* anomalous checks in a row that declare a slowdown
    RecoveryChecks,     \* normal checks in a row that declare it over
    MaxStreak           \* where the model stops counting a streak

\* The thresholds are at least one (the schemas allow 1..10 and 1..20).  The
\* rules only compare a streak with a threshold, so a streak that is no longer
\* counted once it reaches every threshold decides exactly what the code's
\* unbounded one does.
ASSUME ThresholdAssumption ==
    /\ {FailureThreshold, RecoveryThreshold, TriggerChecks, RecoveryChecks}
           \subseteq Nat \ {0}
    /\ MaxStreak \in Nat
    /\ \A t \in {FailureThreshold, RecoveryThreshold, TriggerChecks,
                 RecoveryChecks} : t <= MaxStreak

Count == 0 .. MaxStreak

Streaks == [failures: Count, successes: Count, anomalies: Count, normals: Count]

ZeroStreaks == [failures |-> 0, successes |-> 0, anomalies |-> 0, normals |-> 0]

\* What one check found, as far as the rules can tell outcomes apart.
Outcome == [ok: BOOLEAN, anomalous: BOOLEAN, slow: BOOLEAN]

FailedCheck == [ok |-> FALSE, anomalous |-> FALSE, slow |-> FALSE]

\* A failed check is never scored, so it is never anomalous, and its response
\* time plays no part in the displayed status.
CheckOutcomes == {FailedCheck} \cup [ok: {TRUE}, anomalous: BOOLEAN, slow: BOOLEAN]

Bump(n) == IF n < MaxStreak THEN n + 1 ELSE MaxStreak

\* Mutant: a success does not end the failure streak.
DeriveCountersWithoutReset(streaks, outcome) ==
    IF outcome.ok
    THEN [streaks EXCEPT !.successes = Bump(@)]
    ELSE [streaks EXCEPT !.failures = Bump(@), !.successes = 0]

\* Rolls one check outcome into the outage streaks.
DeriveCounters(streaks, outcome) ==
    IF outcome.ok
    THEN [streaks EXCEPT !.failures = 0, !.successes = Bump(@)]
    ELSE [streaks EXCEPT !.failures = Bump(@), !.successes = 0]

\* Rolls one check into the slowdown streaks; a failed check moves neither.
DeriveAnomalyCounters(streaks, outcome) ==
    IF ~outcome.ok
    THEN streaks
    ELSE IF outcome.anomalous
         THEN [streaks EXCEPT !.anomalies = Bump(@), !.normals = 0]
         ELSE [streaks EXCEPT !.anomalies = 0, !.normals = Bump(@)]

\* A plan without anomaly detection stores zeroed slowdown streaks.
StopCounting(streaks) == [streaks EXCEPT !.anomalies = 0, !.normals = 0]

Transitions == {"open", "resolve", "ongoing", "none"}

DecideIncidentTransition(streaks, hasOpenIncident) ==
    IF hasOpenIncident
    THEN IF streaks.successes >= RecoveryThreshold THEN "resolve" ELSE "ongoing"
    ELSE IF streaks.failures >= FailureThreshold THEN "open" ELSE "none"

\* Mutant: a slowdown opens whether or not the site is down.
DecideAnomalyTransitionAlone(streaks, hasOpenAnomaly, outageOpen) ==
    IF hasOpenAnomaly
    THEN IF streaks.normals >= RecoveryChecks THEN "resolve" ELSE "ongoing"
    ELSE IF streaks.anomalies >= TriggerChecks THEN "open" ELSE "none"

\* A site that is down is not degraded: no slowdown opens during an outage.
DecideAnomalyTransition(streaks, hasOpenAnomaly, outageOpen) ==
    IF hasOpenAnomaly
    THEN IF streaks.normals >= RecoveryChecks THEN "resolve" ELSE "ongoing"
    ELSE IF ~outageOpen /\ streaks.anomalies >= TriggerChecks THEN "open" ELSE "none"

\* The status shown in the dashboard after a check.
DeriveDisplayStatus(outcome, outageOpen, anomalyOpen) ==
    IF outageOpen THEN "down"
    ELSE IF ~outcome.ok \/ anomalyOpen \/ outcome.slow THEN "degraded"
    ELSE "operational"

=============================================================================
