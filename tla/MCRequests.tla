----------------------------- MODULE MCRequests -----------------------------
(***************************************************************************)
(* The components that answer requests, side by side: each behaviour       *)
(* exercises one of them, or one part of it, and leaves the others alone.  *)
(* They share no state, so nothing is lost by it.                          *)
(***************************************************************************)
EXTENDS RequestHandling, TLC

CONSTANTS r1, r2, x1, x2, u1

VARIABLE focus   \* the part that is exercised, a page for the visits of that page

MCRequestIds == {r1, r2}
MCPair == {x1, x2}
MCTrio == {u1, x1, x2}
MCPlanLimits == [free   |-> [websites |-> 1, apiKeys |-> 0, perDay |-> 0],
                 agency |-> [websites |-> 2, apiKeys |-> 1, perDay |-> 2]]

vars == <<billingVars, memberVars, statusVars, admissionVars, focus>>

Init ==
    /\ BillingInit /\ MemberInit /\ StatusInit /\ AdmissionInit
    /\ focus \in {"billing", "staff", "clients", "domains", "limits", "budgets"} \cup Pages

NotBilling == UNCHANGED <<memberVars, statusVars, admissionVars, focus>>
NotMembers == UNCHANGED <<billingVars, statusVars, admissionVars, focus>>
NotPages == UNCHANGED <<billingVars, memberVars, admissionVars, focus>>
NotAdmission == UNCHANGED <<billingVars, memberVars, statusVars, focus>>

\* One page, with one settings request at a time.
OnlyPage(p) ==
    /\ \A v \in Visits : visit'[v].page \in {None, p}
    /\ \A r \in PageRequests : edit'[r].page \in {None, p}
    /\ Cardinality({r \in PageRequests : edit'[r].op # "idle"}) <= 1

\* Hosts and their proof: nothing is rendered and the contents stay.
OnlyDomains ==
    /\ \A v \in Visits : visit'[v].pc # "render"
    /\ \A p \in Pages : page'[p].version = 1 /\ page'[p].published

\* Creation at the limit of a plan: no time passes.
OnlyLimits ==
    /\ clock' = clock
    /\ \A q \in Calls : call'[q].pc = "idle" \/ call'[q].wants # "read"

\* Budgets: one key is issued, and reads until it is ended.
OnlyBudgets ==
    /\ orgPlan' = "agency"
    /\ \A q \in Calls : call'[q].wants \in {"read", "apiKey"}
    /\ Cardinality({k \in ApiKeys : apiKey'[k] # NoKey}) <= 1
    /\ \A k \in ApiKeys : apiKey'[k].scopes \subseteq {"monitors:read"}

Next ==
    \/ focus = "billing" /\ BillingNext /\ NotBilling
    \/ focus = "staff" /\ (InvitationNext \/ StaffNext) /\ NotMembers
    \/ focus = "clients" /\ (InvitationNext \/ ClientNext) /\ NotMembers
    \/ focus \in Pages /\ StatusNext /\ OnlyPage(focus) /\ NotPages
    \/ focus = "domains" /\ StatusNext /\ OnlyDomains /\ NotPages
    \/ focus = "limits" /\ AdmissionNext /\ OnlyLimits /\ NotAdmission
    \/ focus = "budgets" /\ AdmissionNext /\ OnlyBudgets /\ NotAdmission

Spec == Init /\ [][Next]_vars

Symmetry == Permutations(MCRequestIds) \cup Permutations(MCPair)
=============================================================================
