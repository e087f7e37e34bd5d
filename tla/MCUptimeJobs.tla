---------------------------- MODULE MCUptimeJobs ----------------------------
(***************************************************************************)
(* Leases that outlive their jobs: outages under every fault and API call, *)
(* and outages with slowdowns while nothing is cut off.  What the two have *)
(* in common leads from one to the other; only their product is left out.  *)
(***************************************************************************)
EXTENDS MCUptimeMonitoring

\* The incidents that are in use; the third id is handed out last.
InUse == {i \in Incidents : incident[i].state # "unused"}

\* Two outages, no detection and no change of the address.  No action reads which
\* analyses were queued: it is enough to see them before the first fault.
OnlyOutages ==
    /\ InUse \subseteq TwoIncidents
    /\ \A i \in InUse : incident[i].category = "availability"
    /\ \A k \in Jobs : ~job[k].detecting /\ ~job[k].outcome.anomalous
    /\ \A w \in Websites :
          /\ edit[w] = "none"
          /\ website[w].streaks.anomalies = 0 /\ website[w].streaks.normals = 0
    /\ analysing # {} => interrupted = {} /\ purge = {}

\* Three incidents and one job at a time, which nothing cuts off; nothing is
\* closed by hand, deleted or analysed.
Undisturbed ==
    /\ InUse \subseteq TwoIncidents \/ InUse = Incidents
    /\ Cardinality({k \in Jobs : job[k].pc # "idle"}) <= 1
    /\ \A i \in Incidents : ~incident[i].byHand
    /\ interrupted = {} /\ purge = {} /\ analysing = {}

\* The steps that are taken.
OneDisturbance == OnlyOutages' \/ Undisturbed'
=============================================================================
