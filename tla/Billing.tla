------------------------------- MODULE Billing -------------------------------
(***************************************************************************)
(* Billing: checkout opens a session at the provider and writes nothing;   *)
(* the plan of an organization changes only when a provider event is       *)
(* applied.  Events arrive at least once, in any order, possibly in two    *)
(* processes at the same time.                                             *)
(*                                                                         *)
(* A customer is named after the subscription it was created for.          *)
(***************************************************************************)
EXTENDS Shared

CONSTANTS
    PaidPlans,         \* the plans this deployment sells
    Subscriptions,     \* provider subscriptions
    WebhookHandlers,   \* webhook requests that can be in flight
    MaxEvents,         \* bound: events the provider emits
    MaxEventTime,      \* bound: seconds that pass
    MaxWebhookFaults   \* bound: crashes and failed database calls

ASSUME BillingAssumption ==
    /\ None \notin PaidPlans \cup Subscriptions
    /\ MaxEvents \in Nat /\ MaxEventTime \in Nat \ {0} /\ MaxWebhookFaults \in Nat

VARIABLES
    organization,   \* plan and billing record of the organization
    subscription,   \* provider: the subscriptions
    session,        \* provider: checkout sessions by idempotency key
    events,         \* provider: events emitted so far
    second,         \* provider: the clock, in the resolution of event.created
    acknowledged,   \* provider: events some delivery of which got a 200
    claims,         \* billing_events: the claimed event ids
    webhook,        \* the requests in flight
    webhookFaults,  \* faults so far
    lostEvents      \* history: events acknowledged for a handler that failed

billingVars == <<organization, subscription, session, events, second,
                 acknowledged, claims, webhook, webhookFaults, lostEvents>>

provider == <<subscription, session, events, second>>

DefaultPlan == "free"
Plans == PaidPlans \cup {DefaultPlan}

\* "active" stands for trialing, active and past_due, "unpaid" for the others.
Statuses == {"none", "active", "unpaid", "canceled"}

IsEntitledStatus(status) == status = "active"

EventIds == 1 .. MaxEvents
Customers == Subscriptions

Organization == [plan: Plans, status: Statuses, subscription: Subscriptions \cup {None},
                 customer: Customers \cup {None}, lastEventAt: 0 .. MaxEventTime]

Subscription == [status: Statuses, price: PaidPlans \cup {None},
                 customer: Customers \cup {None}, tagged: BOOLEAN]

Session == [state: {"none", "open", "used"}, customer: Customers \cup {None}]

\* "tagged" says that the metadata names the organization, price None that the
\* catalogue maps the price to no plan.
Event == [kind: {"session", "subscription"}, at: 1 .. MaxEventTime,
          subscription: Subscriptions, customer: Customers, status: Statuses,
          price: PaidPlans \cup {None}, tagged: BOOLEAN]

Webhook == [pc: {"idle", "claim", "resolve", "attach", "apply", "release"},
            event: EventIds \cup {None}]

IdleWebhook == [pc |-> "idle", event |-> None]

BillingInit ==
    /\ organization = [plan |-> DefaultPlan, status |-> "none", subscription |-> None,
                       customer |-> None, lastEventAt |-> 0]
    /\ subscription = [s \in Subscriptions |->
           [status |-> "none", price |-> None, customer |-> None, tagged |-> FALSE]]
    /\ session = [p \in PaidPlans |-> [state |-> "none", customer |-> None]]
    /\ events = <<>>
    /\ second = 1
    /\ acknowledged = {}
    /\ claims = {}
    /\ webhook = [h \in WebhookHandlers |-> IdleWebhook]
    /\ webhookFaults = 0
    /\ lostEvents = {}

-----------------------------------------------------------------------------
(* The provider and the customer's browser.                                *)

EventFor(kind, s, sub) ==
    [kind |-> kind, at |-> second, subscription |-> s, customer |-> sub.customer,
     status |-> sub.status, price |-> sub.price, tagged |-> sub.tagged]

server == <<organization, acknowledged, claims, webhook, webhookFaults, lostEvents>>

\* startCheckout: an organization with a subscription is sent to the portal; the
\* idempotency key gives the same session for the same plan.
StartCheckout(p) ==
    /\ organization.subscription = None \/ organization.status = "canceled"
    /\ session[p].state = "none"
    /\ session' = [session EXCEPT ![p] = [state |-> "open", customer |-> organization.customer]]
    /\ UNCHANGED <<subscription, events, second, server>>

CompleteCheckout(p, s) ==
    /\ session[p].state = "open" /\ subscription[s].status = "none"
    /\ Len(events) + 2 <= MaxEvents
    /\ LET customer == IF session[p].customer = None THEN s ELSE session[p].customer
           sub == [status |-> "active", price |-> p, customer |-> customer, tagged |-> TRUE]
       IN /\ subscription' = [subscription EXCEPT ![s] = sub]
          /\ events' = events \o <<EventFor("session", s, sub), EventFor("subscription", s, sub)>>
    /\ session' = [session EXCEPT ![p].state = "used"]
    /\ UNCHANGED <<second, server>>

\* A subscription made outside checkout carries no metadata; its customer is the
\* organization's or a stranger.
SubscribeOutsideCheckout(s, customer) ==
    /\ subscription[s].status = "none" /\ Len(events) < MaxEvents
    /\ customer \in {s, organization.customer} \ {None}
    /\ \E p \in PaidPlans :
         LET sub == [status |-> "active", price |-> p, customer |-> customer, tagged |-> FALSE]
         IN /\ subscription' = [subscription EXCEPT ![s] = sub]
            /\ events' = Append(events, EventFor("subscription", s, sub))
    /\ UNCHANGED <<session, second, server>>

\* Portal, renewals and failed payments; a price may be one we do not know.
ChangeSubscription(s, status, price) ==
    /\ subscription[s].status \in {"active", "unpaid"}
    /\ Len(events) < MaxEvents
    /\ LET sub == [subscription[s] EXCEPT !.status = status, !.price = price]
       IN /\ sub # subscription[s]
          /\ subscription' = [subscription EXCEPT ![s] = sub]
          /\ events' = Append(events, EventFor("subscription", s, sub))
    /\ UNCHANGED <<session, second, server>>

SecondPasses ==
    /\ second < MaxEventTime
    /\ second' = second + 1
    /\ UNCHANGED <<subscription, session, events, server>>

-----------------------------------------------------------------------------
(* The webhook handler, one action per database call.                      *)

\* A signed delivery arrives; the provider may deliver any event again, also
\* while an earlier delivery is still being handled.
ReceiveWebhook(h, e) ==
    /\ webhook[h].pc = "idle"
    /\ e \in 1 .. Len(events)
    /\ webhook' = [webhook EXCEPT ![h] = [pc |-> "claim", event |-> e]]
    /\ UNCHANGED <<organization, acknowledged, claims, webhookFaults, lostEvents, provider>>

Acknowledge(h) ==
    /\ acknowledged' = acknowledged \cup {webhook[h].event}
    /\ webhook' = [webhook EXCEPT ![h] = IdleWebhook]

GoTo(h, pc) == webhook' = [webhook EXCEPT ![h].pc = pc] /\ UNCHANGED acknowledged

ClaimEvent(h) ==
    /\ webhook[h].pc = "claim"
    /\ IF webhook[h].event \in claims
       THEN Acknowledge(h) /\ UNCHANGED claims
       ELSE GoTo(h, "resolve") /\ claims' = claims \cup {webhook[h].event}
    /\ UNCHANGED <<organization, webhookFaults, lostEvents, provider>>

Belongs(event) == event.tagged \/ event.customer = organization.customer

\* The states a subscription event leads to: a plan, or nothing when it is
\* entitled under a price without a plan.
Mappable(event) == IsEntitledStatus(event.status) => event.price # None

\* Mutant: the price decides, whatever the status.
PlanAsPriced(event) == event.price

PlanOf(event) == IF IsEntitledStatus(event.status) THEN event.price ELSE DefaultPlan

\* Finds the organization and decides, from that read, what is left to write.
ResolveOrganization(h) ==
    LET event == events[webhook[h].event] IN
    /\ webhook[h].pc = "resolve"
    /\ IF ~Belongs(event) THEN Acknowledge(h)
       ELSE IF organization.customer = None THEN GoTo(h, "attach")
       ELSE IF event.kind = "session" \/ ~Mappable(event) THEN Acknowledge(h)
       ELSE GoTo(h, "apply")
    /\ UNCHANGED <<organization, claims, webhookFaults, lostEvents, provider>>

\* attachBillingCustomer, conditional on the customer still being unset.
AttachCustomer(h) ==
    LET event == events[webhook[h].event] IN
    /\ webhook[h].pc = "attach"
    /\ organization' = IF organization.customer = None
                       THEN [organization EXCEPT !.customer = event.customer]
                       ELSE organization
    /\ IF event.kind = "session" \/ ~Mappable(event)
       THEN Acknowledge(h)
       ELSE GoTo(h, "apply")
    /\ UNCHANGED <<claims, webhookFaults, lostEvents, provider>>

\* Mutant: events are applied in the order of their delivery.
IsNewerAlways(event) == TRUE

\* applySubscriptionState refuses an event older than the last one applied.
IsNewer(event) == organization.lastEventAt <= event.at

ApplySubscriptionState(h) ==
    LET event == events[webhook[h].event] IN
    /\ webhook[h].pc = "apply"
    /\ organization' = IF IsNewer(event)
                       THEN [organization EXCEPT !.plan = PlanOf(event),
                                                 !.status = event.status,
                                                 !.subscription = event.subscription,
                                                 !.lastEventAt = event.at]
                       ELSE organization
    /\ Acknowledge(h)
    /\ UNCHANGED <<claims, webhookFaults, lostEvents, provider>>

Claimed(h) == webhook[h].pc \in {"resolve", "attach", "apply", "release"}

\* A database call fails: before the claim the request just fails, after it the
\* claim has to be released.
WebhookCallFails(h) ==
    /\ webhookFaults < MaxWebhookFaults
    /\ webhookFaults' = webhookFaults + 1
    /\ CASE webhook[h].pc = "claim" ->
              webhook' = [webhook EXCEPT ![h] = IdleWebhook] /\ UNCHANGED lostEvents
         [] webhook[h].pc \in {"resolve", "attach", "apply"} ->
              webhook' = [webhook EXCEPT ![h].pc = "release"] /\ UNCHANGED lostEvents
         [] webhook[h].pc = "release" ->
              /\ webhook' = [webhook EXCEPT ![h] = IdleWebhook]
              /\ lostEvents' = lostEvents \cup {webhook[h].event}
         [] OTHER -> FALSE
    /\ UNCHANGED <<organization, acknowledged, claims, provider>>

\* Mutant: the claim of a handler that failed is kept.
KeepClaim(h) ==
    /\ webhook[h].pc = "release"
    /\ webhook' = [webhook EXCEPT ![h] = IdleWebhook]
    /\ UNCHANGED <<organization, acknowledged, claims, webhookFaults, lostEvents, provider>>

\* The claim is given back; a duplicate delivery may have been acknowledged
\* meanwhile, and then the provider does not retry.
ReleaseClaim(h) ==
    /\ webhook[h].pc = "release"
    /\ claims' = claims \ {webhook[h].event}
    /\ lostEvents' = IF webhook[h].event \in acknowledged
                     THEN lostEvents \cup {webhook[h].event} ELSE lostEvents
    /\ webhook' = [webhook EXCEPT ![h] = IdleWebhook]
    /\ UNCHANGED <<organization, acknowledged, webhookFaults, provider>>

\* The process dies; a claim it held stays.
WebhookCrashes(h) ==
    /\ webhook[h].pc # "idle"
    /\ webhookFaults < MaxWebhookFaults
    /\ webhookFaults' = webhookFaults + 1
    /\ lostEvents' = IF Claimed(h) THEN lostEvents \cup {webhook[h].event} ELSE lostEvents
    /\ webhook' = [webhook EXCEPT ![h] = IdleWebhook]
    /\ UNCHANGED <<organization, acknowledged, claims, provider>>

-----------------------------------------------------------------------------
HandleWebhook(h) ==
    \/ ClaimEvent(h)
    \/ ResolveOrganization(h)
    \/ AttachCustomer(h)
    \/ ApplySubscriptionState(h)
    \/ ReleaseClaim(h)

BillingNext ==
    \/ \E p \in PaidPlans : StartCheckout(p)
    \/ \E p \in PaidPlans, s \in Subscriptions : CompleteCheckout(p, s)
    \/ \E s \in Subscriptions, c \in Customers : SubscribeOutsideCheckout(s, c)
    \/ \E s \in Subscriptions, status \in Statuses \ {"none"}, p \in PaidPlans \cup {None} :
         ChangeSubscription(s, status, p)
    \/ SecondPasses
    \/ \E h \in WebhookHandlers, e \in EventIds : ReceiveWebhook(h, e)
    \/ \E h \in WebhookHandlers : HandleWebhook(h)
    \/ \E h \in WebhookHandlers : WebhookCallFails(h)
    \/ \E h \in WebhookHandlers : WebhookCrashes(h)

BillingSpec == BillingInit /\ [][BillingNext]_billingVars

BillingTypeOK ==
    /\ organization \in Organization
    /\ subscription \in [Subscriptions -> Subscription]
    /\ session \in [PaidPlans -> Session]
    /\ events \in Seq(Event) /\ Len(events) <= MaxEvents
    /\ second \in 1 .. MaxEventTime
    /\ acknowledged \subseteq EventIds
    /\ claims \subseteq EventIds
    /\ webhook \in [WebhookHandlers -> Webhook]
    /\ webhookFaults \in 0 .. MaxWebhookFaults
    /\ lostEvents \subseteq EventIds

-----------------------------------------------------------------------------
(* Properties.                                                             *)

InFlight(e) == \E h \in WebhookHandlers : webhook[h].event = e /\ Claimed(h)

\* Subscription events that can say what the organization is on.
Deciding(e) ==
    events[e].kind = "subscription" /\ Belongs(events[e]) /\ Mappable(events[e])

\* An acknowledged event, which the provider will not send again, has taken
\* effect, is being handled, or belonged to a handler that failed after its
\* claim: a checkout has left its customer, a subscription event its state or a
\* newer one (handleWebhook: "the change would be lost for good").
AcknowledgedTakesEffect ==
    \A e \in acknowledged \ lostEvents :
        \/ InFlight(e)
        \/ Belongs(events[e]) => organization.customer # None
                                 /\ (Deciding(e) => organization.lastEventAt >= events[e].at)

\* In whatever order and however often events are delivered, the newest one
\* that was handled decides plan, status and subscription: a late "updated" does
\* not put a cancelled customer back on a paid plan (applySubscriptionState).
NewestEventDecides ==
    \A e \in acknowledged \ lostEvents :
        (/\ Deciding(e) /\ ~InFlight(e)
         /\ \A f \in 1 .. Len(events) : f # e /\ Deciding(f) => events[f].at < events[e].at)
        => /\ organization.plan = PlanOf(events[e])
           /\ organization.status = events[e].status
           /\ organization.subscription = events[e].subscription
=============================================================================
