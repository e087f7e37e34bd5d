---------------------------- MODULE ApiAdmission ----------------------------
(***************************************************************************)
(* The way of a request to a handler that creates something: budgets per   *)
(* address and per API key in the memory of a process, the key, the plan   *)
(* of its organization, the daily quota in the database, the scope of the  *)
(* route, and then the limit of the plan, which is counted before the row  *)
(* is written.  The public API comes in by key, the dashboard by session;  *)
(* both end in the same services.                                          *)
(*                                                                         *)
(* Time is counted in ticks; a day and a window are a few of them.  A       *)
(* session here is an administrator's.                                     *)
(***************************************************************************)
EXTENDS Shared

CONSTANTS
    ApiProcesses,    \* processes that serve the API
    ApiKeys,         \* key documents
    Calls,           \* requests that can be in flight
    Urls,            \* canonical keys of websites
    PlanLimits,      \* limits of each plan: websites, apiKeys, perDay
    AddressLimit,    \* requests per window and address
    KeyLimit,        \* requests per window and key
    WindowLength,    \* ticks of a window
    SweepInterval,   \* ticks between sweeps of the windows
    DayLength,       \* ticks of a day
    MaxClock,        \* bound: ticks that pass
    MaxRotations     \* bound: secrets of a key

ASSUME ApiAdmissionAssumption ==
    /\ AddressLimit \in Nat \ {0} /\ KeyLimit \in Nat \ {0}
    /\ WindowLength \in Nat \ {0} /\ SweepInterval \in Nat /\ DayLength \in Nat \ {0}
    /\ MaxClock \in Nat /\ MaxRotations \in Nat \ {0}
    /\ IsFiniteSet(Calls) /\ "address" \notin ApiKeys
    /\ PlanLimits \in [{"free", "agency"} -> [websites: Nat, apiKeys: Nat, perDay: Nat]]

VARIABLES
    clock,        \* the time
    orgPlan,      \* organizations.plan
    apiKey,       \* api_keys
    usage,        \* api_usage: requests counted per day
    site,         \* websites: the canonical keys of the organization
    windows,      \* rate limiter of a process: window per bucket
    lastSweep,    \* rate limiter of a process: time of the last sweep
    call,         \* requests in flight
    admitted,     \* history: times at which a process let a key pass
    served,       \* history: requests of a day that passed the quota
    entitledTo    \* history: the largest limit anything was counted against

admissionVars == <<clock, orgPlan, apiKey, usage, site, windows, lastSweep, call,
                   admitted, served, entitledTo>>

OrgPlans == {"free", "agency"}
Resources == {"websites", "apiKeys"}
Buckets == ApiKeys \cup {"address"}
Days == 0 .. (MaxClock \div DayLength)
Today == clock \div DayLength

LimitsFor(p) == PlanLimits[p]

\* The feature api_access of the plan.
HasApiAccess(p) == p = "agency"

\* A window that is over is as good as none.
NoWindow == [count |-> 0, resetAt |-> 0]

Call == [pc: {"idle", "key", "organization", "quota", "count", "insert", "rotate"},
         by: {"key", "session"}, process: ApiProcesses \cup {None},
         key: ApiKeys \cup {None}, secret: 0 .. MaxRotations,
         wants: {"read", "website", "apiKey", "rotation"}, plan: OrgPlans,
         url: Urls \cup {None}]

IdleCall == [pc |-> "idle", by |-> "session", process |-> None, key |-> None, secret |-> 0,
             wants |-> "read", plan |-> "free", url |-> None]

NoKey == [state |-> "none", secret |-> 0, scopes |-> {}]

AdmissionInit ==
    /\ clock = 0
    /\ orgPlan = "agency"
    /\ apiKey = [k \in ApiKeys |-> NoKey]
    /\ usage = [d \in Days |-> 0]
    /\ site = {}
    /\ windows = [a \in ApiProcesses |-> [b \in Buckets |-> NoWindow]]
    /\ lastSweep = [a \in ApiProcesses |-> 0]
    /\ call = [q \in Calls |-> IdleCall]
    /\ admitted = [a \in ApiProcesses |-> [k \in ApiKeys |-> <<>>]]
    /\ served = [d \in Days |-> 0]
    /\ entitledTo = [x \in Resources |-> 0]

-----------------------------------------------------------------------------
(* RateLimiter.consume                                                     *)

Sweep(a) ==
    IF clock - lastSweep[a] < SweepInterval THEN windows[a]
    ELSE [b \in Buckets |-> IF windows[a][b].resetAt <= clock THEN NoWindow ELSE windows[a][b]]

\* Mutant: a window that is a tick too short.
CountedTooShort(a, b) ==
    LET w == Sweep(a)[b] IN
    IF w.resetAt <= clock THEN [count |-> 1, resetAt |-> clock + WindowLength - 1]
    ELSE [w EXCEPT !.count = @ + 1]

\* The window of a bucket after one more request.
Counted(a, b) ==
    LET w == Sweep(a)[b] IN
    IF w.resetAt <= clock THEN [count |-> 1, resetAt |-> clock + WindowLength]
    ELSE [w EXCEPT !.count = @ + 1]

Allowed(a, b, limit) == Counted(a, b).count = 1 \/ Counted(a, b).count <= limit

Consume(a, b) ==
    /\ windows' = [windows EXCEPT ![a] = [Sweep(a) EXCEPT ![b] = Counted(a, b)]]
    /\ lastSweep' = IF clock - lastSweep[a] < SweepInterval THEN lastSweep
                    ELSE [lastSweep EXCEPT ![a] = clock]

-----------------------------------------------------------------------------
(* The gates.                                                              *)

documents == <<orgPlan, apiKey, site>>
budgets == <<windows, lastSweep>>
admissionHistory == <<admitted, served, entitledTo>>

Refuse(q) == call' = [call EXCEPT ![q] = IdleCall]
Go(q, pc) == call' = [call EXCEPT ![q].pc = pc]

\* defaultRateLimit, before anything is looked up.  A session's reads leave no
\* trace behind the gates and are left out; one refusal per window is a bound.
Arrive(q, a, fields) ==
    /\ call[q].pc = "idle"
    /\ Counted(a, "address").count <= AddressLimit + 1
    /\ Consume(a, "address")
    /\ IF Allowed(a, "address", AddressLimit)
       THEN call' = [call EXCEPT ![q] = fields]
       ELSE UNCHANGED call
    /\ UNCHANGED <<clock, documents, usage, admissionHistory>>

\* A caller of the public API presents a secret that was issued at some time.
ArriveWithKey(q, a, k, secret, wants, url) ==
    /\ secret \in 1 .. apiKey[k].secret
    /\ Arrive(q, a, [IdleCall EXCEPT !.pc = "key", !.by = "key", !.process = a, !.key = k,
                         !.secret = secret, !.wants = wants, !.url = url])

ArriveWithSession(q, a, wants, k, url) ==
    Arrive(q, a, [IdleCall EXCEPT !.pc = "organization", !.process = a, !.wants = wants,
                      !.key = k, !.url = url])

\* findActiveByTokenHash
AuthenticateKey(q) ==
    LET k == call[q].key IN
    /\ call[q].pc = "key"
    /\ IF apiKey[k].state = "active" /\ apiKey[k].secret = call[q].secret
       THEN Go(q, "organization") ELSE Refuse(q)
    /\ UNCHANGED <<clock, documents, usage, budgets, admissionHistory>>

\* The organization's plan is read.  By key: the plan must include the API, and
\* the key's own budget is consumed.
ReadOrganization(q) ==
    LET a == call[q].process  k == call[q].key IN
    /\ call[q].pc = "organization"
    /\ IF call[q].by = "session"
       THEN /\ call' = [call EXCEPT ![q].plan = orgPlan,
                                    ![q].pc = IF call[q].wants = "rotation" THEN "rotate" ELSE "count"]
            /\ UNCHANGED <<budgets, admitted>>
       ELSE IF ~HasApiAccess(orgPlan)
       THEN Refuse(q) /\ UNCHANGED <<budgets, admitted>>
       ELSE /\ Consume(a, k)
            /\ IF Allowed(a, k, KeyLimit)
               THEN /\ call' = [call EXCEPT ![q].plan = orgPlan, ![q].pc = "quota"]
                    /\ admitted' = [admitted EXCEPT ![a][k] = Append(@, clock)]
               ELSE Refuse(q) /\ UNCHANGED admitted
    /\ UNCHANGED <<clock, documents, usage, served, entitledTo>>

\* Mutant: what was used before the request is compared.
OverQuotaBefore(used, p) == used - 1 > LimitsFor(p).perDay

OverQuota(used, p) == used > LimitsFor(p).perDay

Scope == [read |-> "monitors:read", website |-> "monitors:write"]

\* apiQuota: one atomic increment, then the comparison; then requireScope, whose
\* scopes are those of the key as it was authenticated, which never change.
CountAgainstQuota(q) ==
    LET used == usage[Today] + 1 IN
    /\ call[q].pc = "quota"
    /\ usage' = [usage EXCEPT ![Today] = used]
    /\ IF OverQuota(used, call[q].plan)
       THEN Refuse(q) /\ UNCHANGED served
       ELSE /\ served' = [served EXCEPT ![Today] = @ + 1]
            /\ IF call[q].wants = "read" \/ Scope[call[q].wants] \notin apiKey[call[q].key].scopes
               THEN Refuse(q) ELSE Go(q, "count")
    /\ UNCHANGED <<clock, documents, budgets, admitted, entitledTo>>

-----------------------------------------------------------------------------
(* The handlers.                                                           *)

ActiveKeys == {k \in ApiKeys : apiKey[k].state = "active"}

Used(x) == IF x = "websites" THEN Cardinality(site) ELSE Cardinality(ActiveKeys)

ResourceOf(wants) == IF wants = "website" THEN "websites" ELSE "apiKeys"

\* Mutant: one more than the plan includes.
WithinLimitInclusive(x, limit) == Used(x) <= limit

WithinLimit(x, limit) == Used(x) + 1 <= limit

\* assertWithinPlan and assertWithinLimit
AssertWithinLimit(q) ==
    LET x == ResourceOf(call[q].wants)
        limit == LimitsFor(call[q].plan)[x]
    IN /\ call[q].pc = "count"
       /\ entitledTo' = [entitledTo EXCEPT ![x] = IF limit > @ THEN limit ELSE @]
       /\ IF WithinLimit(x, limit) THEN Go(q, "insert") ELSE Refuse(q)
       /\ UNCHANGED <<clock, documents, usage, budgets, admitted, served>>

\* The unique index refuses a URL that is monitored already.
CreateWebsite(q) ==
    /\ call[q].pc = "insert" /\ call[q].wants = "website"
    /\ site' = site \cup {call[q].url}
    /\ Refuse(q)
    /\ UNCHANGED <<clock, orgPlan, apiKey, usage, budgets, admissionHistory>>

IssueKey(q) ==
    LET k == call[q].key IN
    /\ call[q].pc = "insert" /\ call[q].wants = "apiKey"
    /\ apiKey[k] = NoKey
    /\ \E scopes \in {{"monitors:read"}, {"monitors:read", "monitors:write"}} :
         apiKey' = [apiKey EXCEPT ![k] = [state |-> "active", secret |-> 1, scopes |-> scopes]]
    /\ Refuse(q)
    /\ UNCHANGED <<clock, orgPlan, site, usage, budgets, admissionHistory>>

\* rotate: refused for a key that is revoked or expired by then.
RotateKey(q) ==
    LET k == call[q].key IN
    /\ call[q].pc = "rotate"
    /\ apiKey[k].secret < MaxRotations
    /\ apiKey' = IF HasApiAccess(call[q].plan) /\ apiKey[k].state = "active"
                 THEN [apiKey EXCEPT ![k].secret = @ + 1] ELSE apiKey
    /\ Refuse(q)
    /\ UNCHANGED <<clock, orgPlan, site, usage, budgets, admissionHistory>>

\* revoke, or the expiry of a key: neither depends on the plan.
EndKey(k, state) ==
    /\ apiKey[k].state = "active"
    /\ apiKey' = [apiKey EXCEPT ![k].state = state]
    /\ UNCHANGED <<clock, orgPlan, site, usage, budgets, call, admissionHistory>>

DeleteWebsite(u) ==
    /\ u \in site
    /\ site' = site \ {u}
    /\ UNCHANGED <<clock, orgPlan, apiKey, usage, budgets, call, admissionHistory>>

SwitchPlan ==
    /\ orgPlan' \in OrgPlans \ {orgPlan}
    /\ UNCHANGED <<clock, apiKey, site, usage, budgets, call, admissionHistory>>

Tick ==
    /\ clock < MaxClock
    /\ clock' = clock + 1
    /\ UNCHANGED <<documents, usage, budgets, call, admissionHistory>>

-----------------------------------------------------------------------------
Arrivals ==
    \/ \E q \in Calls, a \in ApiProcesses, k \in ApiKeys, s \in 1 .. MaxRotations :
         ArriveWithKey(q, a, k, s, "read", None)
    \/ \E q \in Calls, a \in ApiProcesses, k \in ApiKeys, s \in 1 .. MaxRotations, u \in Urls :
         ArriveWithKey(q, a, k, s, "website", u)
    \/ \E q \in Calls, a \in ApiProcesses, u \in Urls : ArriveWithSession(q, a, "website", None, u)
    \/ \E q \in Calls, a \in ApiProcesses, k \in ApiKeys :
         apiKey[k] = NoKey /\ ArriveWithSession(q, a, "apiKey", k, None)
    \/ \E q \in Calls, a \in ApiProcesses, k \in ApiKeys :
         apiKey[k] # NoKey /\ ArriveWithSession(q, a, "rotation", k, None)

AdmissionNext ==
    \/ Arrivals
    \/ \E q \in Calls : AuthenticateKey(q)
    \/ \E q \in Calls : ReadOrganization(q)
    \/ \E q \in Calls : CountAgainstQuota(q)
    \/ \E q \in Calls : AssertWithinLimit(q)
    \/ \E q \in Calls : CreateWebsite(q)
    \/ \E q \in Calls : IssueKey(q)
    \/ \E q \in Calls : RotateKey(q)
    \/ \E k \in ApiKeys, state \in {"revoked", "expired"} : EndKey(k, state)
    \/ \E u \in Urls : DeleteWebsite(u)
    \/ SwitchPlan
    \/ Tick

AdmissionSpec == AdmissionInit /\ [][AdmissionNext]_admissionVars

ApiKeyDoc == [state: {"none", "active", "revoked", "expired"}, secret: 0 .. MaxRotations,
              scopes: SUBSET {"monitors:read", "monitors:write"}]

AdmissionTypeOK ==
    /\ clock \in 0 .. MaxClock
    /\ orgPlan \in OrgPlans
    /\ apiKey \in [ApiKeys -> ApiKeyDoc]
    /\ usage \in [Days -> Nat]
    /\ site \subseteq Urls
    /\ windows \in [ApiProcesses -> [Buckets -> [count: Nat, resetAt: Nat]]]
    /\ lastSweep \in [ApiProcesses -> 0 .. MaxClock]
    /\ call \in [Calls -> Call]
    /\ admitted \in [ApiProcesses -> [ApiKeys -> Seq(0 .. MaxClock)]]
    /\ served \in [Days -> Nat]
    /\ entitledTo \in [Resources -> Nat]

-----------------------------------------------------------------------------
(* Properties.                                                             *)

\* Counting before writing lets requests that overlap go over the limit of the
\* plan, and "that is accepted deliberately" (assertWithinLimit): the excess is
\* bounded by the requests in flight and does not grow with further requests.
OvershootIsBounded ==
    \A x \in Resources :
        entitledTo[x] > 0 => Used(x) <= entitledTo[x] + Cardinality(Calls) - 1

\* The daily quota is exact across processes and keys, whatever their requests
\* overlap with, because it is counted in the database by one increment.
QuotaIsExact == \A d \in Days : served[d] <= PlanLimits["agency"].perDay

\* The budget of a key is not exact: a window starts with a request and not with
\* the clock, so that the limit can be spent at the end of one window and again
\* at the beginning of the next.  But no process admits more than twice the limit
\* within a window's length, however the sweeps fall.
BudgetAtMostDoubled ==
    \A a \in ApiProcesses, k \in ApiKeys :
        LET times == admitted[a][k] IN
        \A i \in 1 .. Len(times) :
            i + 2 * KeyLimit <= Len(times) => times[i + 2 * KeyLimit] - times[i] > WindowLength
=============================================================================
