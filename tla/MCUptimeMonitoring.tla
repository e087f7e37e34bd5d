------------------------- MODULE MCUptimeMonitoring -------------------------
(***************************************************************************)
(* Small instances of the uptime pipeline.  One website: every write names *)
(* one website and an incident of it, so websites meet only in the claim.  *)
(* Three incidents let an outage lie between two slowdowns.                *)
(***************************************************************************)
EXTENDS UptimeMonitoring, TLC

CONSTANTS w1, i1, i2, i3, j1, j2

OneWebsite == {w1}
TwoIncidents == {i1, i2}
ThreeIncidents == {i1, i2, i3}
OneJob == {j1}
TwoJobs == {j1, j2}

UpCheck == [ok |-> TRUE, anomalous |-> FALSE, slow |-> FALSE]
AnomalousCheck == [ok |-> TRUE, anomalous |-> TRUE, slow |-> FALSE]

UpOrFailed == {UpCheck, FailedCheck}
AnyButSlow == {UpCheck, AnomalousCheck, FailedCheck}
AnomalousOrFailed == {AnomalousCheck, FailedCheck}

OnlyOff == {FALSE}
OnlyOn == {TRUE}
Both == BOOLEAN

SymmetrySet == Permutations(TwoIncidents) \cup Permutations(TwoJobs)
=============================================================================
