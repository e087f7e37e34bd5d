--------------------------- MODULE AccountProofs ----------------------------
(***************************************************************************)
(* Proofs about the documents that say what an organization pays for and   *)
(* who its members are, for every number of subscriptions, events, users,  *)
(* clients and overlapping requests.                                       *)
(***************************************************************************)
EXTENDS Billing, Memberships, FiniteSetTheorems, TLAPS

-----------------------------------------------------------------------------
(* Billing.                                                                *)

\* A subscription keeps its customer, which is its own or the organization's,
\* and the organization's is that of a checkout.
CustomersSound ==
    /\ \A s \in Subscriptions : subscription[s].status # "none" =>
          subscription[s].customer \in Customers \cap {s, organization.customer}
    /\ \A p \in PaidPlans : session[p].customer \in {None, organization.customer}
    /\ organization.customer # None =>
          /\ subscription[organization.customer].status # "none"
          /\ subscription[organization.customer].tagged

\* An event tells its subscription, customer and tag as they are at the provider.
EventSound(event) ==
    LET sub == subscription[event.subscription] IN
    /\ sub.status # "none"
    /\ event.tagged = sub.tagged
    /\ event.customer = sub.customer

EventsSound == \A e \in 1 .. Len(events) : EventSound(events[e])

\* How far a request can be with its event.
WebhookSound(it) ==
    /\ it.pc # "idle" => it.event \in 1 .. Len(events)
    /\ it.pc = "attach" => events[it.event].tagged
    /\ it.pc = "apply" => Deciding(it.event) /\ organization.customer # None
    /\ it.pc \in {"resolve", "attach", "apply", "release"} => it.event \in claims

OneClaimant ==
    \A g, h \in WebhookHandlers :
        Claimed(g) /\ Claimed(h) /\ webhook[g].event = webhook[h].event => g = h

BillingShape ==
    /\ BillingTypeOK
    /\ CustomersSound
    /\ EventsSound
    /\ \A h \in WebhookHandlers : WebhookSound(webhook[h])
    /\ OneClaimant

LEMMA BillingConstants ==
    /\ MaxEvents \in Nat /\ MaxEventTime \in Nat /\ MaxEventTime >= 1 /\ MaxWebhookFaults \in Nat
    /\ None \notin Subscriptions /\ None \notin PaidPlans
BY BillingAssumption

LEMMA BillingShapeInit == BillingInit => BillingShape
<1> SUFFICES ASSUME BillingInit PROVE BillingShape
  OBVIOUS
<1>1. 0 \in 0 .. MaxEventTime /\ 1 \in 1 .. MaxEventTime /\ 0 \in 0 .. MaxWebhookFaults
      /\ 0 <= MaxEvents
  BY BillingConstants
<1>2. BillingTypeOK
  <2>1. organization \in Organization /\ subscription \in [Subscriptions -> Subscription]
    BY <1>1 DEF BillingInit, Organization, Subscription, Plans, Statuses
  <2>2. session \in [PaidPlans -> Session] /\ webhook \in [WebhookHandlers -> Webhook]
    BY DEF BillingInit, Session, Webhook, IdleWebhook
  <2>3. events = <<>> /\ events \in Seq(Event) /\ Len(events) = 0
    BY DEF BillingInit
  <2> QED BY <1>1, <2>1, <2>2, <2>3 DEF BillingInit, BillingTypeOK
<1>3. CustomersSound /\ EventsSound /\ OneClaimant
      /\ \A h \in WebhookHandlers : WebhookSound(webhook[h])
  BY DEF BillingInit, CustomersSound, EventsSound, OneClaimant, WebhookSound, IdleWebhook, Claimed
<1> QED BY <1>2, <1>3 DEF BillingShape

LEMMA EventTypes ==
    ASSUME BillingShape, NEW e \in 1 .. Len(events)
    PROVE  /\ events[e] \in Event /\ EventSound(events[e]) /\ e \in EventIds
           /\ events[e].subscription \in Subscriptions
           /\ events[e].customer # None
<1>1. events \in Seq(Event) /\ Len(events) <= MaxEvents /\ Len(events) \in Nat
  BY DEF BillingShape, BillingTypeOK
<1>2. events[e] \in Event
  BY <1>1
<1>3. e \in 1 .. MaxEvents
  BY <1>1, BillingConstants
<1> QED BY <1>2, <1>3, BillingConstants
        DEF BillingShape, EventsSound, Event, EventIds, Customers

\* The events there are stay, and with them whose they are.
EventsKept ==
    /\ Len(events) \in Nat /\ Len(events') \in Nat /\ Len(events) <= Len(events')
    /\ \A e \in 1 .. Len(events) :
          /\ e \in 1 .. Len(events') /\ events'[e] = events[e]
          /\ Belongs(events[e])' <=> Belongs(events[e])
          /\ Deciding(e)' <=> Deciding(e)

\* The organization gets a customer from a checkout: nobody else's events
\* become its own by that.
LEMMA BelongingIsKept ==
    ASSUME BillingShape, events' \in Seq(Event), Len(events) <= Len(events'),
           \A e \in 1 .. Len(events) : events'[e] = events[e],
           \/ organization'.customer = organization.customer
           \/ /\ organization.customer = None
              /\ organization'.customer \in Subscriptions
              /\ subscription[organization'.customer].tagged
    PROVE  EventsKept
<1>1. Len(events) \in Nat /\ Len(events') \in Nat
  BY DEF BillingShape, BillingTypeOK
<1>2. ASSUME NEW e \in 1 .. Len(events)
      PROVE  /\ e \in 1 .. Len(events') /\ events'[e] = events[e]
             /\ (events[e].tagged \/ events[e].customer = organization'.customer)
                  <=> Belongs(events[e])
  <2>1. e \in 1 .. Len(events')
    BY <1>1
  <2>2. CASE organization'.customer = organization.customer
    BY <2>1, <2>2 DEF Belongs
  <2>3. CASE /\ organization.customer = None
             /\ organization'.customer \in Subscriptions
             /\ subscription[organization'.customer].tagged
    <3>1. events[e].customer # None /\ EventSound(events[e])
          /\ events[e].subscription \in Subscriptions
      BY EventTypes
    <3>2. events[e].customer = events[e].subscription
      BY <2>3, <3>1 DEF BillingShape, CustomersSound, EventSound
    <3>3. ~events[e].tagged => events[e].customer # organization'.customer
      BY <2>3, <3>1, <3>2 DEF EventSound
    <3> QED BY <2>1, <2>3, <3>1, <3>3 DEF Belongs
  <2> QED BY <2>2, <2>3
<1> QED BY <1>1, <1>2 DEF EventsKept, Belongs, Deciding, Mappable

\* The provider tells something about a subscription.
LEMMA ProviderTells ==
    ASSUME BillingShape, UNCHANGED <<second, server>>,
           NEW s \in Subscriptions, NEW sub \in Subscription,
           sub.status # "none", sub.customer \in Customers \cap {s, organization.customer},
           subscription[s].status # "none" =>
               sub.tagged = subscription[s].tagged /\ sub.customer = subscription[s].customer,
           subscription' = [subscription EXCEPT ![s] = sub],
           session' \in [PaidPlans -> Session],
           \A p \in PaidPlans : session'[p].customer \in {None, organization.customer},
           events' \in Seq(Event), Len(events) <= Len(events'), Len(events') <= MaxEvents,
           \A e \in 1 .. Len(events) : events'[e] = events[e],
           \A e \in 1 .. Len(events') : e > Len(events) =>
               /\ events'[e].subscription = s
               /\ events'[e].tagged = sub.tagged /\ events'[e].customer = sub.customer
    PROVE  BillingShape' /\ EventsKept
<1>1. EventsKept
  BY BelongingIsKept DEF server
<1>2. BillingTypeOK'
  BY DEF BillingShape, BillingTypeOK, server
<1>3. /\ subscription'[s] = sub /\ \A o \in Subscriptions \ {s} : subscription'[o] = subscription[o]
  BY DEF BillingShape, BillingTypeOK
<1>4. CustomersSound'
  <2>1. organization' = organization /\ organization.customer \in Subscriptions \cup {None}
    BY DEF server, BillingShape, BillingTypeOK, Organization, Customers
  <2>2. CustomersSound
    BY DEF BillingShape
  <2>3. organization.customer # None =>
          /\ subscription'[organization.customer].status # "none"
          /\ subscription'[organization.customer].tagged
    BY <1>3, <2>1, <2>2 DEF CustomersSound
  <2>4. \A o \in Subscriptions : subscription'[o].status # "none" =>
          subscription'[o].customer \in Customers \cap {o, organization.customer}
    BY <1>3, <2>2 DEF CustomersSound
  <2> QED BY <2>1, <2>3, <2>4 DEF CustomersSound, Customers
<1>5. EventsSound'
  <2> SUFFICES ASSUME NEW e \in 1 .. Len(events') PROVE EventSound(events[e])'
    BY DEF EventsSound
  <2>1. Len(events) \in Nat /\ Len(events') \in Nat
    BY <1>1 DEF EventsKept
  <2>2. CASE e <= Len(events)
    <3>1. e \in 1 .. Len(events) /\ events'[e] = events[e]
      BY <2>1, <2>2
    <3>2. EventSound(events[e]) /\ events[e].subscription \in Subscriptions
      BY <3>1, EventTypes
    <3> QED BY <1>3, <3>1, <3>2 DEF EventSound
  <2>3. CASE ~(e <= Len(events))
    BY <1>3, <2>1, <2>3 DEF EventSound
  <2> QED BY <2>2, <2>3
<1>6. ASSUME NEW h \in WebhookHandlers PROVE WebhookSound(webhook[h])'
  BY <1>1 DEF server, EventsKept, WebhookSound, BillingShape
<1>7. OneClaimant'
  BY DEF server, OneClaimant, BillingShape, Claimed
<1> QED BY <1>1, <1>2, <1>4, <1>5, <1>6, <1>7 DEF BillingShape

LEMMA EventForType ==
    ASSUME BillingShape, NEW kind \in {"session", "subscription"}, NEW s \in Subscriptions,
           NEW sub \in Subscription, sub.customer \in Customers
    PROVE  /\ EventFor(kind, s, sub) \in Event
           /\ EventFor(kind, s, sub).subscription = s
           /\ EventFor(kind, s, sub).tagged = sub.tagged
           /\ EventFor(kind, s, sub).customer = sub.customer
BY DEF EventFor, Event, Subscription, BillingShape, BillingTypeOK

LEMMA AppendedEvent ==
    ASSUME BillingShape, NEW event \in Event, events' = Append(events, event),
           Len(events) < MaxEvents
    PROVE  /\ events' \in Seq(Event) /\ Len(events) <= Len(events') /\ Len(events') <= MaxEvents
           /\ \A e \in 1 .. Len(events) : events'[e] = events[e]
           /\ \A e \in 1 .. Len(events') : e > Len(events) => events'[e] = event
<1>1. events \in Seq(Event) /\ Len(events) \in Nat
  BY DEF BillingShape, BillingTypeOK
<1>2. /\ events' \in Seq(Event) /\ Len(events') = Len(events) + 1
      /\ \A e \in 1 .. Len(events) : events'[e] = events[e]
      /\ events'[Len(events) + 1] = event
  BY <1>1
<1>3. \A e \in 1 .. Len(events') : e > Len(events) => e = Len(events) + 1
  BY <1>1, <1>2
<1> QED BY <1>1, <1>2, <1>3, BillingConstants

\* Steps of the provider and the browser.
ProviderStep ==
    \/ \E p \in PaidPlans : StartCheckout(p)
    \/ \E p \in PaidPlans, s \in Subscriptions : CompleteCheckout(p, s)
    \/ \E s \in Subscriptions, c \in Customers : SubscribeOutsideCheckout(s, c)
    \/ \E s \in Subscriptions, status \in Statuses \ {"none"}, p \in PaidPlans \cup {None} :
         ChangeSubscription(s, status, p)
    \/ SecondPasses

LEMMA ProviderShape ==
    ASSUME BillingShape, ProviderStep
    PROVE  BillingShape' /\ EventsKept /\ UNCHANGED server
<1>t. /\ organization \in Organization /\ subscription \in [Subscriptions -> Subscription]
      /\ session \in [PaidPlans -> Session] /\ events \in Seq(Event) /\ Len(events) \in Nat
      /\ Len(events) <= MaxEvents /\ second \in 1 .. MaxEventTime
      /\ organization.customer \in Customers \cup {None}
  BY DEF BillingShape, BillingTypeOK, Organization
<1>c. CustomersSound
  BY DEF BillingShape
\* A step that leaves events and subscriptions alone.
<1>k. ASSUME UNCHANGED <<events, subscription, server>>, session' \in [PaidPlans -> Session],
             second' \in 1 .. MaxEventTime,
             \A p \in PaidPlans : session'[p].customer \in {None, organization.customer}
      PROVE  BillingShape' /\ EventsKept
  <2>1. EventsKept
    BY <1>t, <1>k, BelongingIsKept DEF server
  <2>2. BillingTypeOK'
    BY <1>k DEF BillingShape, BillingTypeOK, server
  <2>3. CustomersSound' /\ EventsSound' /\ OneClaimant'
    BY <1>k DEF BillingShape, server, CustomersSound, EventsSound, EventSound, OneClaimant, Claimed
  <2>4. \A h \in WebhookHandlers : WebhookSound(webhook[h])'
    BY <1>k, <2>1 DEF BillingShape, server, WebhookSound, EventsKept
  <2> QED BY <2>1, <2>2, <2>3, <2>4 DEF BillingShape
<1>1. ASSUME NEW p \in PaidPlans, StartCheckout(p)
      PROVE  BillingShape' /\ EventsKept /\ UNCHANGED server
  <2> DEFINE it == [state |-> "open", customer |-> organization.customer]
  <2>1. it \in Session /\ it.customer = organization.customer
    BY <1>t DEF Session
  <2>2. session' = [session EXCEPT ![p] = it] /\ UNCHANGED <<events, subscription, server, second>>
    BY <1>1 DEF StartCheckout
  <2> HIDE DEF it
  <2> QED BY <1>t, <1>c, <1>k, <2>1, <2>2 DEF CustomersSound
<1>2. ASSUME NEW p \in PaidPlans, NEW s \in Subscriptions, CompleteCheckout(p, s)
      PROVE  BillingShape' /\ EventsKept /\ UNCHANGED server
  <2> DEFINE customer == IF session[p].customer = None THEN s ELSE session[p].customer
             sub == [status |-> "active", price |-> p, customer |-> customer, tagged |-> TRUE]
             first == EventFor("session", s, sub)
             next == EventFor("subscription", s, sub)
             it == [session[p] EXCEPT !.state = "used"]
  <2>1. /\ subscription[s].status = "none" /\ Len(events) + 2 <= MaxEvents
        /\ subscription' = [subscription EXCEPT ![s] = sub]
        /\ events' = events \o <<first, next>>
        /\ session' = [session EXCEPT ![p] = it]
        /\ UNCHANGED <<second, server>>
    BY <1>2 DEF CompleteCheckout
  <2>2. customer \in Customers \cap {s, organization.customer}
    BY <1>t, <1>c DEF CustomersSound, Customers, Session
  <2>3. it \in Session /\ it.customer = session[p].customer
    BY <1>t DEF Session
  <2> HIDE DEF customer, it
  <2>4. sub \in Subscription /\ sub.status # "none" /\ sub.customer = customer
    BY <2>2 DEF Subscription, Statuses
  <2> HIDE DEF sub
  <2>5. /\ first \in Event /\ first.subscription = s /\ first.tagged = sub.tagged
        /\ first.customer = sub.customer
        /\ next \in Event /\ next.subscription = s /\ next.tagged = sub.tagged
        /\ next.customer = sub.customer
    BY <2>2, <2>4, EventForType
  <2> HIDE DEF first, next
  <2>6. /\ events' \in Seq(Event) /\ Len(events') = Len(events) + 2
        /\ \A e \in 1 .. Len(events) : events'[e] = events[e]
        /\ events'[Len(events) + 1] = first /\ events'[Len(events) + 2] = next
    BY <1>t, <2>1, <2>5
  <2>7. \A e \in 1 .. Len(events') : e > Len(events) => events'[e] \in {first, next}
    BY <1>t, <2>6
  <2>8. Len(events) <= Len(events') /\ Len(events') <= MaxEvents
    BY <1>t, <2>1, <2>6, BillingConstants
  <2>9. /\ session' \in [PaidPlans -> Session]
        /\ \A o \in PaidPlans : session'[o].customer \in {None, organization.customer}
    BY <1>t, <1>c, <2>1, <2>3 DEF CustomersSound
  <2> QED BY <2>1, <2>2, <2>4, <2>5, <2>6, <2>7, <2>8, <2>9, ProviderTells
<1>3. ASSUME NEW s \in Subscriptions, NEW customer \in Customers,
             SubscribeOutsideCheckout(s, customer)
      PROVE  BillingShape' /\ EventsKept /\ UNCHANGED server
  <2>1. PICK p \in PaidPlans :
          LET sub == [status |-> "active", price |-> p, customer |-> customer, tagged |-> FALSE]
          IN /\ subscription' = [subscription EXCEPT ![s] = sub]
             /\ events' = Append(events, EventFor("subscription", s, sub))
    BY <1>3 DEF SubscribeOutsideCheckout
  <2> DEFINE sub == [status |-> "active", price |-> p, customer |-> customer, tagged |-> FALSE]
             event == EventFor("subscription", s, sub)
  <2>2. /\ subscription[s].status = "none" /\ Len(events) < MaxEvents
        /\ customer \in {s, organization.customer}
        /\ subscription' = [subscription EXCEPT ![s] = sub]
        /\ events' = Append(events, event)
        /\ UNCHANGED <<session, second, server>>
    BY <1>3, <2>1 DEF SubscribeOutsideCheckout
  <2>3. sub \in Subscription /\ sub.status # "none" /\ sub.customer = customer
    BY DEF Subscription, Statuses
  <2> HIDE DEF sub
  <2>4. event \in Event /\ event.subscription = s /\ event.tagged = sub.tagged
        /\ event.customer = sub.customer
    BY <2>3, EventForType
  <2> HIDE DEF event
  <2>5. /\ events' \in Seq(Event) /\ Len(events) <= Len(events') /\ Len(events') <= MaxEvents
        /\ \A e \in 1 .. Len(events) : events'[e] = events[e]
        /\ \A e \in 1 .. Len(events') : e > Len(events) => events'[e] = event
    BY <2>2, <2>4, AppendedEvent
  <2>6. /\ session' \in [PaidPlans -> Session]
        /\ \A o \in PaidPlans : session'[o].customer \in {None, organization.customer}
    BY <1>t, <1>c, <2>2 DEF CustomersSound
  <2> QED BY <2>2, <2>3, <2>4, <2>5, <2>6, ProviderTells
<1>4. ASSUME NEW s \in Subscriptions, NEW status \in Statuses \ {"none"},
             NEW price \in PaidPlans \cup {None}, ChangeSubscription(s, status, price)
      PROVE  BillingShape' /\ EventsKept /\ UNCHANGED server
  <2> DEFINE sub == [subscription[s] EXCEPT !.status = status, !.price = price]
             event == EventFor("subscription", s, sub)
  <2>2. /\ subscription[s].status # "none" /\ Len(events) < MaxEvents
        /\ subscription' = [subscription EXCEPT ![s] = sub]
        /\ events' = Append(events, event)
        /\ UNCHANGED <<session, second, server>>
    BY <1>4 DEF ChangeSubscription
  <2>0. subscription[s] \in Subscription
    BY <1>t
  <2>3. /\ sub \in Subscription /\ sub.status # "none"
        /\ sub.customer = subscription[s].customer /\ sub.tagged = subscription[s].tagged
    BY <2>0 DEF Subscription
  <2>c. sub.customer \in Customers \cap {s, organization.customer}
    BY <1>c, <2>2, <2>3 DEF CustomersSound
  <2> HIDE DEF sub
  <2>4. event \in Event /\ event.subscription = s /\ event.tagged = sub.tagged
        /\ event.customer = sub.customer
    BY <2>3, <2>c, EventForType
  <2> HIDE DEF event
  <2>5. /\ events' \in Seq(Event) /\ Len(events) <= Len(events') /\ Len(events') <= MaxEvents
        /\ \A e \in 1 .. Len(events) : events'[e] = events[e]
        /\ \A e \in 1 .. Len(events') : e > Len(events) => events'[e] = event
    BY <2>2, <2>4, AppendedEvent
  <2>6. /\ session' \in [PaidPlans -> Session]
        /\ \A o \in PaidPlans : session'[o].customer \in {None, organization.customer}
    BY <1>t, <1>c, <2>2 DEF CustomersSound
  <2> QED BY <2>2, <2>3, <2>c, <2>4, <2>5, <2>6, ProviderTells
<1>5. CASE SecondPasses
  <2>1. second' \in 1 .. MaxEventTime
    BY <1>t, <1>5, BillingConstants DEF SecondPasses
  <2> QED BY <1>t, <1>c, <1>k, <1>5, <2>1 DEF SecondPasses, CustomersSound
<1> QED BY <1>1, <1>2, <1>3, <1>4, <1>5 DEF ProviderStep

-----------------------------------------------------------------------------
(* The handler.                                                            *)

\* The provider is left alone and so are the events.
LEMMA ProviderKept ==
    ASSUME BillingShape, UNCHANGED provider,
           \/ organization'.customer = organization.customer
           \/ /\ organization.customer = None
              /\ organization'.customer \in Subscriptions
              /\ subscription[organization'.customer].status # "none"
              /\ subscription[organization'.customer].tagged
    PROVE  CustomersSound' /\ EventsSound' /\ EventsKept
<1>0. events \in Seq(Event) /\ Len(events) \in Nat /\ None \notin Subscriptions
  BY BillingConstants DEF BillingShape, BillingTypeOK
<1>1. EventsKept
  BY <1>0, BelongingIsKept DEF provider
<1>2. EventsSound'
  BY DEF BillingShape, EventsSound, EventSound, provider
<1>3. CustomersSound'
  BY <1>0 DEF BillingShape, CustomersSound, provider, Customers
<1> QED BY <1>1, <1>2, <1>3

\* One request moves on.
LEMMA WebhookMoves ==
    ASSUME BillingShape, NEW h \in WebhookHandlers, NEW it \in Webhook,
           webhook' = [webhook EXCEPT ![h] = it], UNCHANGED provider,
           CustomersSound', EventsSound', EventsKept,
           organization' \in Organization,
           organization.customer # None => organization'.customer # None,
           acknowledged' \subseteq EventIds, claims' \subseteq EventIds,
           lostEvents' \subseteq EventIds, webhookFaults' \in 0 .. MaxWebhookFaults,
           WebhookSound(it)',
           \A g \in WebhookHandlers \ {h} :
               /\ Claimed(g) => webhook[g].event \in claims'
               /\ Claimed(g) /\ it.pc \in {"resolve", "attach", "apply", "release"}
                    => webhook[g].event # it.event
    PROVE  BillingShape'
<1>1. BillingTypeOK'
  BY DEF BillingShape, BillingTypeOK, provider
<1>2. webhook'[h] = it /\ \A g \in WebhookHandlers \ {h} : webhook'[g] = webhook[g]
  BY DEF BillingShape, BillingTypeOK
<1>3. ASSUME NEW g \in WebhookHandlers PROVE WebhookSound(webhook[g])'
  <2>1. CASE g = h
    BY <1>2, <2>1 DEF WebhookSound
  <2>2. CASE g # h
    <3>1. WebhookSound(webhook[g])
      BY DEF BillingShape
    <3> QED BY <1>2, <2>2, <3>1 DEF WebhookSound, EventsKept, Claimed
  <2> QED BY <2>1, <2>2
<1>4. OneClaimant'
  <2> SUFFICES ASSUME NEW g \in WebhookHandlers, NEW k \in WebhookHandlers,
                      Claimed(g)', Claimed(k)', webhook'[g].event = webhook'[k].event, g # k
               PROVE  FALSE
    BY DEF OneClaimant
  <2>1. CASE g # h /\ k # h
    BY <1>2, <2>1 DEF BillingShape, OneClaimant, Claimed
  <2>2. CASE g = h \/ k = h
    BY <1>2, <2>2 DEF Claimed
  <2> QED BY <2>1, <2>2
<1> QED BY <1>1, <1>3, <1>4 DEF BillingShape

LEMMA IdleWebhookSound == IdleWebhook \in Webhook /\ IdleWebhook.pc = "idle"
BY DEF IdleWebhook, Webhook

\* Acknowledging, or dropping, a request.
LEMMA WebhookEnds ==
    ASSUME BillingShape, NEW h \in WebhookHandlers,
           webhook' = [webhook EXCEPT ![h] = IdleWebhook], UNCHANGED provider,
           CustomersSound', EventsSound', EventsKept,
           organization' \in Organization,
           organization.customer # None => organization'.customer # None,
           acknowledged' \subseteq EventIds, claims' \subseteq EventIds,
           lostEvents' \subseteq EventIds, webhookFaults' \in 0 .. MaxWebhookFaults,
           \A g \in WebhookHandlers \ {h} : Claimed(g) => webhook[g].event \in claims'
    PROVE  BillingShape'
<1>1. WebhookSound(IdleWebhook)'
  BY IdleWebhookSound DEF WebhookSound
<1> QED BY <1>1, IdleWebhookSound, WebhookMoves

LEMMA WebhookTypes ==
    ASSUME BillingShape, NEW h \in WebhookHandlers
    PROVE  /\ webhook[h] \in Webhook /\ WebhookSound(webhook[h])
           /\ webhook[h].pc # "idle" =>
                 /\ webhook[h].event \in EventIds /\ webhook[h].event \in 1 .. Len(events)
                 /\ events[webhook[h].event] \in Event
                 /\ EventSound(events[webhook[h].event])
                 /\ events[webhook[h].event].customer # None
           /\ Claimed(h) => webhook[h].event \in claims
           /\ \A g \in WebhookHandlers \ {h} :
                 /\ Claimed(g) => webhook[g].event \in claims
                 /\ Claimed(g) /\ Claimed(h) => webhook[g].event # webhook[h].event
<1>1. webhook[h] \in Webhook /\ \A g \in WebhookHandlers : WebhookSound(webhook[g])
  BY DEF BillingShape, BillingTypeOK
<1> QED BY <1>1, EventTypes DEF BillingShape, OneClaimant, Claimed, WebhookSound

LEMMA ClaimShape ==
    ASSUME BillingShape, NEW h \in WebhookHandlers, ClaimEvent(h)
    PROVE  BillingShape' /\ EventsKept
<1>t. /\ organization \in Organization /\ acknowledged \subseteq EventIds
      /\ claims \subseteq EventIds /\ lostEvents \subseteq EventIds
      /\ webhookFaults \in 0 .. MaxWebhookFaults
  BY DEF BillingShape, BillingTypeOK
<1>1. /\ webhook[h].pc = "claim"
      /\ UNCHANGED <<organization, webhookFaults, lostEvents, provider>>
  BY DEF ClaimEvent
<1>2. CustomersSound' /\ EventsSound' /\ EventsKept
  BY <1>1, ProviderKept
<1>3. webhook[h].event \in EventIds /\ webhook[h].event \in 1 .. Len(events)
  BY <1>1, WebhookTypes
<1>4. CASE webhook[h].event \in claims
  <2>1. /\ acknowledged' = acknowledged \cup {webhook[h].event} /\ claims' = claims
        /\ webhook' = [webhook EXCEPT ![h] = IdleWebhook]
    BY <1>4 DEF ClaimEvent, Acknowledge
  <2> QED BY <1>t, <1>1, <1>2, <1>3, <2>1, WebhookEnds, WebhookTypes
<1>5. CASE webhook[h].event \notin claims
  <2>0. PICK it \in Webhook :
            it = [webhook[h] EXCEPT !.pc = "resolve"] /\ it.pc = "resolve" /\ it.event = webhook[h].event
    <3> DEFINE moved == [webhook[h] EXCEPT !.pc = "resolve"]
    <3>1. webhook[h] \in Webhook
      BY WebhookTypes
    <3>2. moved \in Webhook /\ moved.pc = "resolve" /\ moved.event = webhook[h].event
      BY <3>1 DEF Webhook
    <3> QED BY <3>2
  <2>1. /\ acknowledged' = acknowledged /\ claims' = claims \cup {webhook[h].event}
        /\ webhook' = [webhook EXCEPT ![h] = it]
    BY <2>0, <1>5 DEF ClaimEvent, GoTo
  <2>2. it.pc = "resolve" /\ it.event = webhook[h].event
    BY <2>0
  <2>3. WebhookSound(it)'
    BY <1>2, <1>3, <2>1, <2>2 DEF WebhookSound, EventsKept
  <2>4. \A g \in WebhookHandlers \ {h} :
            /\ Claimed(g) => webhook[g].event \in claims'
            /\ Claimed(g) => webhook[g].event # it.event
    BY <1>5, <2>1, <2>2, WebhookTypes
  <2> QED BY <1>t, <1>1, <1>2, <1>3, <2>1, <2>2, <2>3, <2>4, WebhookMoves
<1> QED BY <1>2, <1>4, <1>5

\* A handler that has read the organization: done, or on to write.
LEMMA ResolveShape ==
    ASSUME BillingShape, NEW h \in WebhookHandlers, ResolveOrganization(h)
    PROVE  BillingShape' /\ EventsKept
<1> DEFINE e == webhook[h].event
<1>t. /\ organization \in Organization /\ acknowledged \subseteq EventIds
      /\ claims \subseteq EventIds /\ lostEvents \subseteq EventIds
      /\ webhookFaults \in 0 .. MaxWebhookFaults
  BY DEF BillingShape, BillingTypeOK
<1>1. /\ webhook[h].pc = "resolve"
      /\ UNCHANGED <<organization, claims, webhookFaults, lostEvents, provider>>
  BY DEF ResolveOrganization
<1>2. CustomersSound' /\ EventsSound' /\ EventsKept
  BY <1>1, ProviderKept
<1>3. e \in EventIds /\ e \in 1 .. Len(events) /\ events[e] \in Event /\ e \in claims
      /\ events[e].customer # None
  BY <1>1, WebhookTypes DEF Claimed
<1>4. CASE Acknowledge(h)
  BY <1>t, <1>1, <1>2, <1>3, <1>4, WebhookEnds, WebhookTypes DEF Acknowledge
<1>5. ASSUME NEW pc \in {"attach", "apply"}, GoTo(h, pc),
             pc = "attach" => events[e].tagged,
             pc = "apply" => Deciding(e) /\ organization.customer # None
      PROVE  BillingShape'
  <2>0. PICK it \in Webhook :
            it = [webhook[h] EXCEPT !.pc = pc] /\ it.pc = pc /\ it.event = webhook[h].event
    <3> DEFINE moved == [webhook[h] EXCEPT !.pc = pc]
    <3>1. webhook[h] \in Webhook
      BY WebhookTypes
    <3>2. moved \in Webhook /\ moved.pc = pc /\ moved.event = webhook[h].event
      BY <3>1 DEF Webhook
    <3> QED BY <3>2
  <2>1. acknowledged' = acknowledged /\ webhook' = [webhook EXCEPT ![h] = it]
    BY <2>0, <1>5 DEF GoTo
  <2>2. it.pc = pc /\ it.event = webhook[h].event
    BY <2>0
  <2>3. WebhookSound(it)'
    BY <1>1, <1>2, <1>3, <1>5, <2>2 DEF WebhookSound, EventsKept
  <2>4. \A g \in WebhookHandlers \ {h} :
            /\ Claimed(g) => webhook[g].event \in claims'
            /\ Claimed(g) => webhook[g].event # it.event
    BY <1>1, <2>2, WebhookTypes DEF Claimed
  <2> QED BY <1>t, <1>1, <1>2, <2>1, <2>2, <2>3, <2>4, WebhookMoves
<1>6. \/ Acknowledge(h)
      \/ GoTo(h, "attach") /\ events[e].tagged
      \/ GoTo(h, "apply") /\ Deciding(e) /\ organization.customer # None
  <2>1. events[e].kind \in {"session", "subscription"}
    BY <1>3 DEF Event
  <2> QED BY <1>3, <2>1 DEF ResolveOrganization, Belongs, Deciding
<1> QED BY <1>2, <1>4, <1>5, <1>6

\* The customer of a checkout is attached once.
LEMMA AttachKeeps ==
    ASSUME BillingShape, NEW h \in WebhookHandlers, AttachCustomer(h)
    PROVE  /\ organization' \in Organization /\ organization'.customer # None
           /\ CustomersSound' /\ EventsSound' /\ EventsKept
           /\ organization' = [organization EXCEPT !.customer = organization'.customer]
<1> DEFINE event == events[webhook[h].event]
<1>t. organization \in Organization
  BY DEF BillingShape, BillingTypeOK
<1>1. webhook[h].pc = "attach" /\ UNCHANGED provider
  BY DEF AttachCustomer
<1>2. event \in Event /\ EventSound(event) /\ event.tagged /\ event.customer # None
      /\ event.subscription \in Subscriptions
  BY <1>1, WebhookTypes, EventTypes DEF WebhookSound
<1>3. CASE organization.customer # None
  <2>1. organization' = organization
    BY <1>3 DEF AttachCustomer
  <2> QED BY <1>t, <1>1, <1>3, <2>1, ProviderKept DEF Organization
<1>4. CASE organization.customer = None
  <2>1. organization' = [organization EXCEPT !.customer = event.customer]
    BY <1>4 DEF AttachCustomer
  <2>2. event.customer = event.subscription
    BY <1>2, <1>4 DEF BillingShape, CustomersSound, EventSound
  <2>3. subscription[event.customer].tagged /\ subscription[event.customer].status # "none"
    BY <1>2, <2>2 DEF EventSound
  <2> HIDE DEF event
  <2>4. organization' \in Organization /\ organization'.customer = event.customer
    BY <1>t, <1>2, <2>1 DEF Organization, Event
  <2> QED BY <1>t, <1>1, <1>2, <1>4, <2>1, <2>2, <2>3, <2>4, ProviderKept
<1> QED BY <1>3, <1>4

LEMMA AttachShape ==
    ASSUME BillingShape, NEW h \in WebhookHandlers, AttachCustomer(h)
    PROVE  BillingShape' /\ EventsKept
<1> DEFINE e == webhook[h].event
<1>t. /\ acknowledged \subseteq EventIds
      /\ claims \subseteq EventIds /\ lostEvents \subseteq EventIds
      /\ webhookFaults \in 0 .. MaxWebhookFaults
  BY DEF BillingShape, BillingTypeOK
<1>1. /\ webhook[h].pc = "attach"
      /\ UNCHANGED <<claims, webhookFaults, lostEvents, provider>>
  BY DEF AttachCustomer
<1>2. /\ organization' \in Organization /\ organization'.customer # None
      /\ CustomersSound' /\ EventsSound' /\ EventsKept
  BY AttachKeeps
<1>3. e \in EventIds /\ e \in 1 .. Len(events) /\ events[e] \in Event /\ e \in claims
      /\ events[e].tagged
  BY <1>1, WebhookTypes DEF Claimed, WebhookSound
<1>4. CASE Acknowledge(h)
  BY <1>t, <1>1, <1>2, <1>3, <1>4, WebhookEnds, WebhookTypes DEF Acknowledge
<1>5. CASE GoTo(h, "apply") /\ events[e].kind = "subscription" /\ Mappable(events[e])
  <2>0. PICK it \in Webhook :
            it = [webhook[h] EXCEPT !.pc = "apply"] /\ it.pc = "apply" /\ it.event = webhook[h].event
    <3> DEFINE moved == [webhook[h] EXCEPT !.pc = "apply"]
    <3>1. webhook[h] \in Webhook
      BY WebhookTypes
    <3>2. moved \in Webhook /\ moved.pc = "apply" /\ moved.event = webhook[h].event
      BY <3>1 DEF Webhook
    <3> QED BY <3>2
  <2>1. acknowledged' = acknowledged /\ webhook' = [webhook EXCEPT ![h] = it]
    BY <2>0, <1>5 DEF GoTo
  <2>2. it.pc = "apply" /\ it.event = webhook[h].event
    BY <2>0
  <2>3. Deciding(e)
    BY <1>3, <1>5 DEF Deciding, Belongs
  <2>4. WebhookSound(it)'
    BY <1>1, <1>2, <1>3, <2>2, <2>3 DEF WebhookSound, EventsKept
  <2>5. \A g \in WebhookHandlers \ {h} :
            /\ Claimed(g) => webhook[g].event \in claims'
            /\ Claimed(g) => webhook[g].event # it.event
    BY <1>1, <2>2, WebhookTypes DEF Claimed
  <2> QED BY <1>t, <1>1, <1>2, <2>1, <2>2, <2>4, <2>5, WebhookMoves
<1>6. Acknowledge(h) \/ (GoTo(h, "apply") /\ events[e].kind = "subscription" /\ Mappable(events[e]))
  <2>1. events[e].kind \in {"session", "subscription"}
    BY <1>3 DEF Event
  <2> QED BY <1>3, <2>1 DEF AttachCustomer
<1> QED BY <1>2, <1>4, <1>5, <1>6

LEMMA ApplyShape ==
    ASSUME BillingShape, NEW h \in WebhookHandlers, ApplySubscriptionState(h)
    PROVE  BillingShape' /\ EventsKept /\ organization'.customer = organization.customer
<1> DEFINE e == webhook[h].event
           applied == [organization EXCEPT !.plan = PlanOf(events[e]),
                                           !.status = events[e].status,
                                           !.subscription = events[e].subscription,
                                           !.lastEventAt = events[e].at]
<1>t. /\ organization \in Organization /\ acknowledged \subseteq EventIds
      /\ claims \subseteq EventIds /\ lostEvents \subseteq EventIds
      /\ webhookFaults \in 0 .. MaxWebhookFaults
  BY DEF BillingShape, BillingTypeOK
<1>1. /\ webhook[h].pc = "apply" /\ organization' \in {organization, applied}
      /\ acknowledged' = acknowledged \cup {e}
      /\ webhook' = [webhook EXCEPT ![h] = IdleWebhook]
      /\ UNCHANGED <<claims, webhookFaults, lostEvents, provider>>
  BY DEF ApplySubscriptionState, Acknowledge
<1>2. e \in EventIds /\ e \in 1 .. Len(events) /\ events[e] \in Event /\ Deciding(e)
  BY <1>1, WebhookTypes DEF WebhookSound
<1>3. PlanOf(events[e]) \in Plans
  BY <1>2 DEF PlanOf, Plans, Deciding, Mappable, Event
<1>4. events[e].at \in 0 .. MaxEventTime
  BY <1>2, BillingConstants DEF Event
<1>5. applied \in Organization /\ applied.customer = organization.customer
  BY <1>t, <1>2, <1>3, <1>4 DEF Organization, Event
<1> HIDE DEF applied
<1>6. organization' \in Organization /\ organization'.customer = organization.customer
  BY <1>t, <1>1, <1>5
<1>7. CustomersSound' /\ EventsSound' /\ EventsKept
  BY <1>1, <1>6, ProviderKept
<1> QED BY <1>t, <1>1, <1>2, <1>6, <1>7, WebhookEnds, WebhookTypes

\* Steps that touch no document but the claims, and end or fail a request.
LEMMA FaultShape ==
    ASSUME BillingShape, NEW h \in WebhookHandlers,
           ReleaseClaim(h) \/ WebhookCallFails(h) \/ WebhookCrashes(h)
    PROVE  BillingShape' /\ EventsKept
<1>t. /\ organization \in Organization /\ acknowledged \subseteq EventIds
      /\ claims \subseteq EventIds /\ lostEvents \subseteq EventIds
      /\ webhookFaults \in 0 .. MaxWebhookFaults
  BY DEF BillingShape, BillingTypeOK
<1>1. UNCHANGED <<organization, acknowledged, provider>> /\ webhook[h].pc # "idle"
  BY DEF ReleaseClaim, WebhookCallFails, WebhookCrashes
<1>2. CustomersSound' /\ EventsSound' /\ EventsKept
  BY <1>1, ProviderKept
<1>3. webhook[h].event \in EventIds /\ webhook[h].event \in 1 .. Len(events)
  BY <1>1, WebhookTypes
<1>4. webhookFaults' \in 0 .. MaxWebhookFaults
  <2>1. webhookFaults' = webhookFaults
        \/ (webhookFaults' = webhookFaults + 1 /\ webhookFaults < MaxWebhookFaults)
    BY DEF ReleaseClaim, WebhookCallFails, WebhookCrashes
  <2> QED BY <1>t, <2>1, BillingConstants
<1>5. lostEvents' \subseteq EventIds
  BY <1>t, <1>3 DEF ReleaseClaim, WebhookCallFails, WebhookCrashes
<1>6. CASE webhook' = [webhook EXCEPT ![h] = IdleWebhook]
  <2>1. claims' \subseteq EventIds
        /\ \A g \in WebhookHandlers \ {h} : Claimed(g) => webhook[g].event \in claims'
    <3>1. CASE ReleaseClaim(h)
      BY <1>t, <3>1, WebhookTypes DEF ReleaseClaim, Claimed
    <3>2. CASE WebhookCallFails(h) \/ WebhookCrashes(h)
      BY <1>t, <3>2, WebhookTypes DEF WebhookCallFails, WebhookCrashes
    <3> QED BY <3>1, <3>2
  <2> QED BY <1>t, <1>1, <1>2, <1>4, <1>5, <1>6, <2>1, WebhookEnds
<1>7. CASE ~(webhook' = [webhook EXCEPT ![h] = IdleWebhook])
  <2>0. PICK it \in Webhook :
            it = [webhook[h] EXCEPT !.pc = "release"] /\ it.pc = "release" /\ it.event = webhook[h].event
    <3> DEFINE moved == [webhook[h] EXCEPT !.pc = "release"]
    <3>1. webhook[h] \in Webhook
      BY WebhookTypes
    <3>2. moved \in Webhook /\ moved.pc = "release" /\ moved.event = webhook[h].event
      BY <3>1 DEF Webhook
    <3> QED BY <3>2
  <2>1. /\ webhook[h].pc \in {"resolve", "attach", "apply"} /\ claims' = claims
        /\ webhook' = [webhook EXCEPT ![h] = it]
    BY <2>0, <1>7 DEF ReleaseClaim, WebhookCallFails, WebhookCrashes
  <2>2. it.pc = "release" /\ it.event = webhook[h].event
    BY <2>0
  <2>3. WebhookSound(it)'
    BY <1>2, <1>3, <2>1, <2>2, WebhookTypes DEF WebhookSound, EventsKept, Claimed
  <2>4. \A g \in WebhookHandlers \ {h} :
            /\ Claimed(g) => webhook[g].event \in claims'
            /\ Claimed(g) => webhook[g].event # it.event
    BY <2>1, <2>2, WebhookTypes DEF Claimed
  <2> QED BY <1>t, <1>1, <1>2, <1>4, <1>5, <2>1, <2>2, <2>3, <2>4, WebhookMoves
<1> QED BY <1>2, <1>6, <1>7

LEMMA ReceiveShape ==
    ASSUME BillingShape, NEW h \in WebhookHandlers, NEW e \in EventIds, ReceiveWebhook(h, e)
    PROVE  BillingShape' /\ EventsKept
<1> DEFINE it == [pc |-> "claim", event |-> e]
<1>t. /\ organization \in Organization /\ acknowledged \subseteq EventIds
      /\ claims \subseteq EventIds /\ lostEvents \subseteq EventIds
      /\ webhookFaults \in 0 .. MaxWebhookFaults
  BY DEF BillingShape, BillingTypeOK
<1>1. /\ webhook' = [webhook EXCEPT ![h] = it] /\ e \in 1 .. Len(events)
      /\ UNCHANGED <<organization, acknowledged, claims, webhookFaults, lostEvents, provider>>
  BY DEF ReceiveWebhook
<1>2. it \in Webhook /\ it.pc = "claim" /\ it.event = e
  BY DEF Webhook
<1> HIDE DEF it
<1>3. CustomersSound' /\ EventsSound' /\ EventsKept
  BY <1>1, ProviderKept
<1>4. WebhookSound(it)'
  BY <1>1, <1>2, <1>3 DEF WebhookSound, EventsKept
<1> QED BY <1>t, <1>1, <1>2, <1>3, <1>4, WebhookMoves, WebhookTypes

LEMMA BillingShapeStep ==
    BillingShape /\ [BillingNext]_billingVars => BillingShape' /\ EventsKept
<1> SUFFICES ASSUME BillingShape, [BillingNext]_billingVars PROVE BillingShape' /\ EventsKept
  OBVIOUS
<1>1. CASE ProviderStep
  BY <1>1, ProviderShape
<1>2. CASE \E h \in WebhookHandlers, e \in EventIds : ReceiveWebhook(h, e)
  BY <1>2, ReceiveShape
<1>3. CASE \E h \in WebhookHandlers : HandleWebhook(h)
  BY <1>3, ClaimShape, ResolveShape, AttachShape, ApplyShape, FaultShape DEF HandleWebhook
<1>4. CASE \E h \in WebhookHandlers : WebhookCallFails(h) \/ WebhookCrashes(h)
  BY <1>4, FaultShape
<1>5. CASE UNCHANGED billingVars
  <2>1. CustomersSound' /\ EventsSound' /\ EventsKept
    BY <1>5, ProviderKept DEF billingVars, provider
  <2>2. BillingTypeOK' /\ OneClaimant'
    BY <1>5 DEF billingVars, BillingShape, BillingTypeOK, OneClaimant, Claimed
  <2>3. \A h \in WebhookHandlers : WebhookSound(webhook[h])'
    BY <1>5, <2>1 DEF billingVars, BillingShape, WebhookSound, EventsKept
  <2> QED BY <2>1, <2>2, <2>3 DEF BillingShape
<1> QED BY <1>1, <1>2, <1>3, <1>4, <1>5 DEF BillingNext, ProviderStep

-----------------------------------------------------------------------------
(* What events leave behind.                                               *)

Effect(e) ==
    Belongs(events[e]) => organization.customer # None
                          /\ (Deciding(e) => organization.lastEventAt >= events[e].at)

\* The plan, status and subscription on record are those of one event.
LastIsFrom(f) ==
    /\ Deciding(f)
    /\ events[f].at = organization.lastEventAt
    /\ organization.plan = PlanOf(events[f])
    /\ organization.status = events[f].status
    /\ organization.subscription = events[f].subscription

EffectsInv ==
    /\ claims \cup acknowledged \subseteq 1 .. Len(events)
    /\ \A e \in (claims \cup acknowledged) \ lostEvents : InFlight(e) \/ Effect(e)
    /\ organization.lastEventAt > 0 => \E f \in 1 .. Len(events) : LastIsFrom(f)

LEMMA EffectsInit == BillingInit => EffectsInv
<1> SUFFICES ASSUME BillingInit PROVE EffectsInv
  OBVIOUS
<1>1. organization.lastEventAt = 0 /\ claims = {} /\ acknowledged = {}
  BY DEF BillingInit
<1> QED BY <1>1 DEF EffectsInv

\* The customer stays and the time of the last event does not go back.
OrganizationGrows ==
    /\ organization.customer # None => organization'.customer # None
    /\ organization.lastEventAt <= organization'.lastEventAt

LEMMA EffectKept ==
    ASSUME BillingShape, BillingShape', EventsKept, OrganizationGrows,
           NEW e \in 1 .. Len(events), Effect(e)
    PROVE  Effect(e)'
<1>1. events[e].at \in Nat /\ organization.lastEventAt \in Nat /\ organization'.lastEventAt \in Nat
  <2>1. organization \in Organization /\ organization' \in Organization
    BY DEF BillingShape, BillingTypeOK
  <2> QED BY <2>1, EventTypes, BillingConstants DEF Event, Organization
<1>2. events'[e] = events[e] /\ (Belongs(events[e])' <=> Belongs(events[e]))
      /\ (Deciding(e)' <=> Deciding(e))
  BY DEF EventsKept
<1> HIDE DEF Deciding, Belongs
<1> QED BY <1>1, <1>2 DEF Effect, OrganizationGrows

\* A request moves on: what holds of other events holds after it.
LEMMA OtherEffects ==
    ASSUME BillingShape, BillingShape', EffectsInv, EventsKept, OrganizationGrows,
           NEW h \in WebhookHandlers, NEW it, webhook' = [webhook EXCEPT ![h] = it],
           claims' \cup acknowledged' \subseteq claims \cup acknowledged \cup {webhook[h].event},
           lostEvents \subseteq lostEvents',
           NEW e \in (claims' \cup acknowledged') \ lostEvents',
           e # webhook[h].event \/ (~Claimed(h) /\ e \in claims \cup acknowledged)
    PROVE  InFlight(e)' \/ Effect(e)'
<1>1. e \in (claims \cup acknowledged) \ lostEvents /\ e \in 1 .. Len(events)
  BY DEF EffectsInv
<1>2. CASE InFlight(e)
  <2>1. PICK g \in WebhookHandlers : webhook[g].event = e /\ Claimed(g)
    BY <1>2 DEF InFlight
  <2>2. g # h
    BY <2>1
  <2>3. webhook'[g] = webhook[g]
    BY <2>2 DEF BillingShape, BillingTypeOK
  <2> QED BY <2>1, <2>3 DEF InFlight, Claimed
<1>3. CASE Effect(e)
  BY <1>1, <1>3, EffectKept
<1> QED BY <1>1, <1>2, <1>3 DEF EffectsInv

\* Its own event is in its hands.
LEMMA HeldEvent ==
    ASSUME BillingShape, NEW h \in WebhookHandlers,
           NEW pc \in {"resolve", "attach", "apply", "release"},
           webhook' = [webhook EXCEPT ![h].pc = pc], NEW e, e = webhook[h].event
    PROVE  InFlight(e)'
<1>1. webhook \in [WebhookHandlers -> Webhook]
  BY DEF BillingShape, BillingTypeOK
<1>2. webhook'[h].pc = pc /\ webhook'[h].event = webhook[h].event
  BY <1>1 DEF Webhook
<1>3. \E g \in WebhookHandlers : webhook'[g].event = e
          /\ webhook'[g].pc \in {"resolve", "attach", "apply", "release"}
  BY <1>2
<1> HIDE DEF Webhook
<1> QED BY <1>3 DEF InFlight, Claimed

LEMMA OrganizationStep == BillingShape /\ [BillingNext]_billingVars => OrganizationGrows
<1> SUFFICES ASSUME BillingShape, [BillingNext]_billingVars PROVE OrganizationGrows
  OBVIOUS
<1>t. organization \in Organization /\ organization.lastEventAt \in Nat
  BY BillingConstants DEF BillingShape, BillingTypeOK, Organization
<1>0. ASSUME organization' = organization PROVE OrganizationGrows
  BY <1>t, <1>0 DEF OrganizationGrows
<1>1. ASSUME NEW h \in WebhookHandlers, AttachCustomer(h) PROVE OrganizationGrows
  <2>1. organization'.customer # None
        /\ organization' = [organization EXCEPT !.customer = organization'.customer]
    BY <1>1, AttachKeeps
  <2>2. organization'.lastEventAt = organization.lastEventAt
    BY <1>t, <2>1 DEF Organization
  <2> QED BY <1>t, <2>1, <2>2 DEF OrganizationGrows
<1>2. ASSUME NEW h \in WebhookHandlers, ApplySubscriptionState(h) PROVE OrganizationGrows
  <2> DEFINE event == events[webhook[h].event]
  <2>1. organization'.customer = organization.customer
    BY <1>2, ApplyShape
  <2>2. \/ organization' = organization
        \/ organization'.lastEventAt = event.at /\ IsNewer(event)
    BY <1>t, <1>2 DEF ApplySubscriptionState, Organization
  <2> QED BY <1>0, <2>1, <2>2 DEF OrganizationGrows, IsNewer
<1>3. CASE ProviderStep
  BY <1>0, <1>3, ProviderShape DEF server
<1>4. ASSUME NEW h \in WebhookHandlers,
             \/ \E e \in EventIds : ReceiveWebhook(h, e)
             \/ ClaimEvent(h) \/ ResolveOrganization(h) \/ ReleaseClaim(h)
             \/ WebhookCallFails(h) \/ WebhookCrashes(h)
      PROVE  OrganizationGrows
  BY <1>0, <1>4 DEF ReceiveWebhook, ClaimEvent, ResolveOrganization, ReleaseClaim,
                    WebhookCallFails, WebhookCrashes
<1>5. CASE UNCHANGED billingVars
  BY <1>0, <1>5 DEF billingVars
<1> QED BY <1>1, <1>2, <1>3, <1>4, <1>5 DEF BillingNext, HandleWebhook, ProviderStep

\* An event that was claimed or acknowledged is in hand or has had its effect.
LEMMA EffectsStep ==
    ASSUME BillingShape, EffectsInv, [BillingNext]_billingVars,
           NEW e \in (claims' \cup acknowledged') \ lostEvents'
    PROVE  InFlight(e)' \/ Effect(e)'
<1>s. BillingShape' /\ EventsKept /\ OrganizationGrows
  BY BillingShapeStep, OrganizationStep
<1>t. webhook \in [WebhookHandlers -> Webhook]
  BY DEF BillingShape, BillingTypeOK
<1>k. ASSUME UNCHANGED <<claims, acknowledged, lostEvents, webhook>>
      PROVE  InFlight(e)' \/ Effect(e)'
  <2>1. e \in (claims \cup acknowledged) \ lostEvents /\ e \in 1 .. Len(events)
    BY <1>k DEF EffectsInv
  <2>2. CASE InFlight(e)
    BY <1>k, <2>2 DEF InFlight, Claimed
  <2>3. CASE Effect(e)
    BY <1>s, <2>1, <2>3, EffectKept
  <2> QED BY <2>1, <2>2, <2>3 DEF EffectsInv
<1>1. CASE ProviderStep
  BY <1>k, <1>1, ProviderShape DEF server
<1>2. ASSUME NEW h \in WebhookHandlers, NEW f \in EventIds, ReceiveWebhook(h, f)
      PROVE  InFlight(e)' \/ Effect(e)'
  <2>1. /\ UNCHANGED <<acknowledged, claims, lostEvents>> /\ ~Claimed(h)
        /\ webhook' = [webhook EXCEPT ![h] = [pc |-> "claim", event |-> f]]
    BY <1>2 DEF ReceiveWebhook, Claimed
  <2> QED BY <1>s, <2>1, OtherEffects
<1>3. ASSUME NEW h \in WebhookHandlers, ClaimEvent(h) PROVE InFlight(e)' \/ Effect(e)'
  <2>1. CASE webhook[h].event \in claims
    <3>1. /\ acknowledged' = acknowledged \cup {webhook[h].event} /\ claims' = claims
          /\ webhook' = [webhook EXCEPT ![h] = IdleWebhook] /\ ~Claimed(h)
          /\ lostEvents' = lostEvents
      BY <1>3, <2>1 DEF ClaimEvent, Acknowledge, Claimed
    <3> QED BY <1>s, <2>1, <3>1, OtherEffects
  <2>2. CASE webhook[h].event \notin claims
    <3>1. /\ acknowledged' = acknowledged /\ claims' = claims \cup {webhook[h].event}
          /\ webhook' = [webhook EXCEPT ![h].pc = "resolve"] /\ lostEvents' = lostEvents
      BY <1>3, <2>2 DEF ClaimEvent, GoTo
    <3>2. CASE e = webhook[h].event
      BY <3>1, <3>2, HeldEvent
    <3>3. CASE e # webhook[h].event
      BY <1>s, <3>1, <3>3, OtherEffects
    <3> QED BY <3>2, <3>3
  <2> QED BY <2>1, <2>2
<1>4. ASSUME NEW h \in WebhookHandlers,
             ResolveOrganization(h) \/ AttachCustomer(h) \/ ApplySubscriptionState(h)
      PROVE  InFlight(e)' \/ Effect(e)'
  <2>0. /\ UNCHANGED <<claims, lostEvents, provider>>
        /\ webhook[h].pc \in {"resolve", "attach", "apply"}
    BY <1>4 DEF ResolveOrganization, AttachCustomer, ApplySubscriptionState
  <2>1. CASE Acknowledge(h)
    <3>1. /\ acknowledged' = acknowledged \cup {webhook[h].event}
          /\ webhook' = [webhook EXCEPT ![h] = IdleWebhook]
      BY <2>1 DEF Acknowledge
    <3>2. CASE e # webhook[h].event
      BY <1>s, <2>0, <3>1, <3>2, OtherEffects
    <3>3. CASE e = webhook[h].event
      <4> DEFINE event == events[e]
      <4>1. e \in 1 .. Len(events) /\ events[e] \in Event /\ WebhookSound(webhook[h])
        BY <2>0, <3>3, WebhookTypes
      <4>2. events'[e] = events[e] /\ (Belongs(events[e])' <=> Belongs(events[e]))
            /\ (Deciding(e)' <=> Deciding(e))
        BY <1>s, <4>1 DEF EventsKept
      <4>3. Belongs(events[e]) =>
                organization'.customer # None
                /\ (Deciding(e) => organization'.lastEventAt >= events[e].at)
        <5>1. CASE ResolveOrganization(h)
          <6>1. \/ ~Belongs(events[e])
                \/ /\ organization.customer # None
                   /\ events[e].kind = "session" \/ ~Mappable(events[e])
            <7>1. ~GoTo(h, "attach") /\ ~GoTo(h, "apply")
              <8>1. webhook'[h].pc = "idle"
                BY <1>t, <3>1 DEF IdleWebhook
              <8> QED BY <1>t, <8>1 DEF GoTo, Webhook
            <7> QED BY <3>3, <5>1, <7>1 DEF ResolveOrganization
          <6>2. organization' = organization
            BY <5>1 DEF ResolveOrganization
          <6> QED BY <6>1, <6>2 DEF Deciding
        <5>2. CASE AttachCustomer(h)
          <6>1. events[e].kind = "session" \/ ~Mappable(events[e])
            <7>1. ~GoTo(h, "apply")
              <8>1. webhook'[h].pc = "idle"
                BY <1>t, <3>1 DEF IdleWebhook
              <8> QED BY <1>t, <8>1 DEF GoTo, Webhook
            <7> QED BY <3>3, <5>2, <7>1 DEF AttachCustomer
          <6>2. organization'.customer # None
            BY <5>2, AttachKeeps
          <6> QED BY <6>1, <6>2 DEF Deciding
        <5>3. CASE ApplySubscriptionState(h)
          <6>1. organization.customer # None
            BY <4>1, <5>3 DEF WebhookSound, ApplySubscriptionState
          <6>2. organization'.customer = organization.customer
            BY <5>3, ApplyShape
          <6>3. organization \in Organization /\ organization.lastEventAt \in Nat
                /\ events[e].at \in Nat
            BY <4>1, BillingConstants DEF BillingShape, BillingTypeOK, Organization, Event
          <6>4. organization'.lastEventAt >= events[e].at
            <7>1. CASE IsNewer(events[e])
              <8>1. organization'.lastEventAt = events[e].at
                BY <3>3, <5>3, <6>3, <7>1 DEF ApplySubscriptionState, Organization
              <8> QED BY <6>3, <8>1
            <7>2. CASE ~IsNewer(events[e])
              <8>1. organization' = organization
                BY <3>3, <5>3, <7>2 DEF ApplySubscriptionState
              <8> QED BY <6>3, <7>2, <8>1 DEF IsNewer
            <7> QED BY <7>1, <7>2
          <6> QED BY <6>1, <6>2, <6>4
        <5> QED BY <1>4, <5>1, <5>2, <5>3
      <4>4. Effect(e)'
        <5> HIDE DEF Belongs, Deciding
        <5> QED BY <4>2, <4>3 DEF Effect
      <4> QED BY <4>4
    <3> QED BY <3>2, <3>3
  <2>2. ASSUME NEW pc \in {"attach", "apply"}, GoTo(h, pc)
        PROVE  InFlight(e)' \/ Effect(e)'
    <3>1. acknowledged' = acknowledged /\ webhook' = [webhook EXCEPT ![h].pc = pc]
      BY <2>2 DEF GoTo
    <3>2. CASE e = webhook[h].event
      BY <3>1, <3>2, HeldEvent
    <3>3. CASE e # webhook[h].event
      BY <1>s, <2>0, <3>1, <3>3, OtherEffects
    <3> QED BY <3>2, <3>3
  <2>3. Acknowledge(h) \/ GoTo(h, "attach") \/ GoTo(h, "apply")
    BY <1>4 DEF ResolveOrganization, AttachCustomer, ApplySubscriptionState
  <2> QED BY <2>1, <2>2, <2>3
\* What a handler leaves undone is taken back, or known to be lost.
<1>5. ASSUME NEW h \in WebhookHandlers, ReleaseClaim(h) PROVE InFlight(e)' \/ Effect(e)'
  <2>1. /\ claims' = claims \ {webhook[h].event} /\ acknowledged' = acknowledged
        /\ lostEvents' = IF webhook[h].event \in acknowledged
                         THEN lostEvents \cup {webhook[h].event} ELSE lostEvents
        /\ webhook' = [webhook EXCEPT ![h] = IdleWebhook]
    BY <1>5 DEF ReleaseClaim
  <2>2. e # webhook[h].event
    BY <2>1
  <2> QED BY <1>s, <2>1, <2>2, OtherEffects
<1>6. ASSUME NEW h \in WebhookHandlers, WebhookCallFails(h) \/ WebhookCrashes(h)
      PROVE  InFlight(e)' \/ Effect(e)'
  <2>0. UNCHANGED <<acknowledged, claims>> /\ lostEvents \subseteq lostEvents'
    BY <1>6 DEF WebhookCallFails, WebhookCrashes
  <2>1. CASE /\ webhook' = [webhook EXCEPT ![h].pc = "release"]
             /\ webhook[h].pc \in {"resolve", "attach", "apply"}
    <3>1. CASE e = webhook[h].event
      BY <2>1, <3>1, HeldEvent
    <3>2. CASE e # webhook[h].event
      BY <1>s, <2>0, <2>1, <3>2, OtherEffects
    <3> QED BY <3>1, <3>2
  <2>2. CASE /\ webhook' = [webhook EXCEPT ![h] = IdleWebhook]
             /\ Claimed(h) => webhook[h].event \in lostEvents'
    <3>1. e # webhook[h].event \/ (~Claimed(h) /\ e \in claims \cup acknowledged)
      BY <2>0, <2>2
    <3> QED BY <1>s, <2>0, <2>2, <3>1, OtherEffects
  <2> QED BY <1>6, <2>1, <2>2 DEF WebhookCallFails, WebhookCrashes, Claimed
<1>7. CASE UNCHANGED billingVars
  BY <1>k, <1>7 DEF billingVars
<1> QED BY <1>1, <1>2, <1>3, <1>4, <1>5, <1>6, <1>7 DEF BillingNext, HandleWebhook, ProviderStep

LEMMA LastKept ==
    ASSUME BillingShape, EventsKept, NEW f \in 1 .. Len(events), LastIsFrom(f),
           organization'.lastEventAt = organization.lastEventAt,
           organization'.plan = organization.plan, organization'.status = organization.status,
           organization'.subscription = organization.subscription
    PROVE  f \in 1 .. Len(events') /\ LastIsFrom(f)'
<1>1. f \in 1 .. Len(events') /\ events'[f] = events[f] /\ (Deciding(f)' <=> Deciding(f))
  BY DEF EventsKept
<1> HIDE DEF Deciding
<1> QED BY <1>1 DEF LastIsFrom, PlanOf

LEMMA EffectsInvStep == BillingShape /\ EffectsInv /\ [BillingNext]_billingVars => EffectsInv'
<1> SUFFICES ASSUME BillingShape, EffectsInv, [BillingNext]_billingVars PROVE EffectsInv'
  OBVIOUS
<1>s. BillingShape' /\ EventsKept /\ OrganizationGrows
  BY BillingShapeStep, OrganizationStep
<1>t. organization \in Organization /\ organization.lastEventAt \in Nat
  BY BillingConstants DEF BillingShape, BillingTypeOK, Organization
<1>1. claims' \cup acknowledged' \subseteq 1 .. Len(events')
  <2>1. \/ claims' \cup acknowledged' \subseteq claims \cup acknowledged
        \/ \E h \in WebhookHandlers :
             /\ webhook[h].pc # "idle"
             /\ claims' \cup acknowledged' \subseteq claims \cup acknowledged \cup {webhook[h].event}
    <3>1. CASE ProviderStep
      BY <3>1, ProviderShape DEF server
    <3>2. CASE ~ProviderStep
      BY <3>2 DEF BillingNext, HandleWebhook, ProviderStep, ReceiveWebhook, ClaimEvent,
                  ResolveOrganization, AttachCustomer, ApplySubscriptionState, ReleaseClaim,
                  WebhookCallFails, WebhookCrashes, Acknowledge, GoTo, billingVars
    <3> QED BY <3>1, <3>2
  <2>2. claims' \cup acknowledged' \subseteq 1 .. Len(events)
    BY <2>1, WebhookTypes DEF EffectsInv
  <2> QED BY <1>s, <2>2 DEF EventsKept
<1>2. organization'.lastEventAt > 0 => \E f \in 1 .. Len(events') : LastIsFrom(f)'
  <2>k. ASSUME organization'.lastEventAt = organization.lastEventAt,
               organization'.plan = organization.plan, organization'.status = organization.status,
               organization'.subscription = organization.subscription
        PROVE  organization'.lastEventAt > 0 => \E f \in 1 .. Len(events') : LastIsFrom(f)'
    <3> SUFFICES ASSUME organization'.lastEventAt > 0
                 PROVE  \E f \in 1 .. Len(events') : LastIsFrom(f)'
      OBVIOUS
    <3>1. PICK f \in 1 .. Len(events) : LastIsFrom(f)
      BY <2>k DEF EffectsInv
    <3> QED BY <1>s, <2>k, <3>1, LastKept
  <2>1. ASSUME NEW h \in WebhookHandlers, ApplySubscriptionState(h), organization' # organization
        PROVE  \E f \in 1 .. Len(events') : LastIsFrom(f)'
    <3> DEFINE f == webhook[h].event
    <3>1. /\ organization' = [organization EXCEPT !.plan = PlanOf(events[f]),
                                                  !.status = events[f].status,
                                                  !.subscription = events[f].subscription,
                                                  !.lastEventAt = events[f].at]
          /\ webhook[h].pc = "apply"
      BY <2>1 DEF ApplySubscriptionState
    <3>2. f \in 1 .. Len(events) /\ Deciding(f)
      BY <3>1, WebhookTypes DEF WebhookSound
    <3>3. PICK g \in 1 .. Len(events) : g = f
      BY <3>2
    <3>4. /\ organization'.plan = PlanOf(events[g]) /\ organization'.status = events[g].status
          /\ organization'.subscription = events[g].subscription
          /\ organization'.lastEventAt = events[g].at
      BY <1>t, <3>1, <3>3 DEF Organization
    <3>5. g \in 1 .. Len(events') /\ events'[g] = events[g] /\ Deciding(g)'
      BY <1>s, <3>2, <3>3 DEF EventsKept
    <3> HIDE DEF Deciding
    <3>6. LastIsFrom(g)'
      BY <3>4, <3>5 DEF LastIsFrom, PlanOf
    <3> QED BY <3>5, <3>6
  <2>2. ASSUME NEW h \in WebhookHandlers, AttachCustomer(h)
        PROVE  /\ organization'.lastEventAt = organization.lastEventAt
               /\ organization'.plan = organization.plan /\ organization'.status = organization.status
               /\ organization'.subscription = organization.subscription
    <3>1. organization' = [organization EXCEPT !.customer = organization'.customer]
      BY <2>2, AttachKeeps
    <3> QED BY <1>t, <3>1 DEF Organization
  <2>3. \/ organization' = organization
        \/ \E h \in WebhookHandlers : AttachCustomer(h) \/ ApplySubscriptionState(h)
    <3>1. CASE ProviderStep
      BY <3>1, ProviderShape DEF server
    <3>2. CASE ~ProviderStep
      BY <3>2 DEF BillingNext, HandleWebhook, ProviderStep, ReceiveWebhook, ClaimEvent,
                  ResolveOrganization, ReleaseClaim, WebhookCallFails, WebhookCrashes, billingVars
    <3> QED BY <3>1, <3>2
  <2> QED BY <2>k, <2>1, <2>2, <2>3
<1> QED BY <1>1, <1>2, EffectsStep DEF EffectsInv

LEMMA AcknowledgedTakesEffectByInv == EffectsInv => AcknowledgedTakesEffect
BY DEF EffectsInv, Effect, AcknowledgedTakesEffect

LEMMA NewestEventDecidesByInv == BillingShape /\ EffectsInv => NewestEventDecides
<1> SUFFICES ASSUME BillingShape, EffectsInv, NEW e \in acknowledged \ lostEvents,
                    Deciding(e), ~InFlight(e),
                    \A f \in 1 .. Len(events) : f # e /\ Deciding(f) => events[f].at < events[e].at
             PROVE  /\ organization.plan = PlanOf(events[e])
                    /\ organization.status = events[e].status
                    /\ organization.subscription = events[e].subscription
  BY DEF NewestEventDecides
<1>1. Effect(e) /\ e \in 1 .. Len(events)
  BY DEF EffectsInv
<1>2. events[e] \in Event /\ events[e].at \in Nat /\ events[e].at >= 1
      /\ organization.lastEventAt \in Nat
  BY <1>1, EventTypes, BillingConstants DEF Event, BillingShape, BillingTypeOK, Organization
<1>3. organization.lastEventAt >= events[e].at
  BY <1>1 DEF Effect, Deciding
<1>4. PICK f \in 1 .. Len(events) : LastIsFrom(f)
  BY <1>2, <1>3 DEF EffectsInv
<1>5. f = e
  BY <1>2, <1>3, <1>4 DEF LastIsFrom
<1> QED BY <1>4, <1>5 DEF LastIsFrom

-----------------------------------------------------------------------------
\* The organization, the provider's subscriptions and events, the server's
\* claims and the checkouts in flight have the types the schemas give them.
THEOREM BillingTypeOKAlways == BillingSpec => []BillingTypeOK
<1>1. BillingShape => BillingTypeOK
  BY DEF BillingShape
<1> QED BY BillingShapeInit, BillingShapeStep, <1>1, PTL DEF BillingSpec

\* What the webhook answered 200 to is in effect: whenever an event was
\* acknowledged and none is under way, the organization has what the newest
\* acknowledged event of its subscription says.
THEOREM AcknowledgedTakesEffectAlways == BillingSpec => []AcknowledgedTakesEffect
BY BillingShapeInit, BillingShapeStep, EffectsInit, EffectsInvStep,
   AcknowledgedTakesEffectByInv, PTL DEF BillingSpec

\* An older event of a subscription never overwrites a newer one, in whatever
\* order the provider delivers them, repeats them or retries them.
THEOREM NewestEventDecidesAlways == BillingSpec => []NewestEventDecides
BY BillingShapeInit, BillingShapeStep, EffectsInit, EffectsInvStep,
   NewestEventDecidesByInv, PTL DEF BillingSpec

-----------------------------------------------------------------------------
(* Members and clients.                                                    *)

\* What a request in flight holds, given the members and the clients: the
\* operation says which of its fields are set; the client it read was there;
\* and the member it read, if the document still exists, is bound to no client.
Sound(it, members, clients) ==
    /\ it.op \in {"invite", "accept", "role", "remove"} => it.user \in Users
    /\ it.op \in {"archive", "delete", "assign"} =>
          it.client \in Clients /\ clients[it.client] # "none"
    /\ it.op = "role" => it.role \in Roles
    /\ it.op = "remove" => it.role = None
    /\ it.op \in {"invite", "accept"} /\ it.role # "client" => it.client = None
    /\ it.op \in MemberOps /\ it.live =>
          members[it.user].role # None /\ members[it.user].client = None

SoundRequests == \A q \in MemberRequests : Sound(request[q], membership, client)

\* Only a contact is bound to a client.
TeamIsUnbound ==
    \A u \in Users :
        /\ membership[u].role # "client" => membership[u].client = None
        /\ invitation[u].role # "client" => invitation[u].client = None

MemberShape == MemberTypeOK /\ SoundRequests /\ TeamIsUnbound

MemberDoc == [role: Roles \cup {None}, client: Clients \cup {None}]

Pcs == {"check", "write", "mark", "sweep", "detach", "drop"}

LEMMA IdleIsSound ==
    ASSUME NEW members, NEW clients
    PROVE  IdleRequest \in Request /\ Sound(IdleRequest, members, clients)
BY DEF IdleRequest, Request, Operations, Sound, MemberOps

LEMMA NextCallIsSound ==
    ASSUME NEW members, NEW clients, NEW it \in Request, Sound(it, members, clients),
           NEW pc \in Pcs
    PROVE  /\ [it EXCEPT !.pc = pc] \in Request
           /\ Sound([it EXCEPT !.pc = pc], members, clients)
BY DEF Request, Sound, Pcs

LEMMA DeadIsSound ==
    ASSUME NEW members, NEW clients, NEW it \in Request, Sound(it, members, clients)
    PROVE  /\ [it EXCEPT !.live = FALSE] \in Request
           /\ Sound([it EXCEPT !.live = FALSE], members, clients)
BY DEF Request, Sound

\* One request is replaced by a sound one, and nothing else that requests refer to changes.
LEMMA RequestReplaced ==
    ASSUME MemberShape, NEW r \in MemberRequests, NEW it \in Request,
           Sound(it, membership, client), request' = [request EXCEPT ![r] = it],
           UNCHANGED <<membership, client>>
    PROVE  request' \in [MemberRequests -> Request] /\ SoundRequests'
<1>1. request' \in [MemberRequests -> Request]
  BY DEF MemberShape, MemberTypeOK
<1>2. ASSUME NEW q \in MemberRequests PROVE Sound(request'[q], membership', client')
  <2>1. request'[q] = IF q = r THEN it ELSE request[q]
    BY DEF MemberShape, MemberTypeOK
  <2> QED BY <2>1 DEF MemberShape, SoundRequests
<1> QED BY <1>1, <1>2 DEF SoundRequests

LEMMA MemberShapeInit == MemberInit => MemberShape
<1> SUFFICES ASSUME MemberInit PROVE MemberShape
  OBVIOUS
<1>1. \A q \in MemberRequests : request[q] = IdleRequest
  BY DEF MemberInit
<1>2. request \in [MemberRequests -> Request] /\ SoundRequests
  BY <1>1, IdleIsSound DEF MemberInit, SoundRequests
<1>3. TeamIsUnbound
  BY DEF MemberInit, TeamIsUnbound, NoMember, NoInvitation
<1> QED BY <1>2, <1>3
   DEF MemberInit, MemberShape, MemberTypeOK, NoMember, NoInvitation, Roles, InternalRoles

\* The steps that change no member, invitation or client.
LEMMA StartSound ==
    ASSUME MemberShape, NEW r \in MemberRequests, NEW fields \in Request,
           Sound(fields, membership, client), Start(r, fields),
           UNCHANGED <<membership, invitation, client, siteClient, memberHistory>>
    PROVE  MemberShape'
<1>1. request' \in [MemberRequests -> Request] /\ SoundRequests'
  BY RequestReplaced DEF Start
<1> QED BY <1>1 DEF MemberShape, MemberTypeOK, TeamIsUnbound, memberHistory

LEMMA MoveSound ==
    ASSUME MemberShape, NEW r \in MemberRequests,
           \/ Finish(r)
           \/ \E pc \in Pcs : Step(r, pc),
           UNCHANGED <<membership, client>>
    PROVE  request' \in [MemberRequests -> Request] /\ SoundRequests'
<1>1. request[r] \in Request /\ Sound(request[r], membership, client)
  BY DEF MemberShape, MemberTypeOK, SoundRequests
<1>2. CASE Finish(r)
  BY <1>2, IdleIsSound, RequestReplaced DEF Finish
<1>3. ASSUME NEW pc \in Pcs, Step(r, pc)
      PROVE  request' \in [MemberRequests -> Request] /\ SoundRequests'
  <2> DEFINE it == [request[r] EXCEPT !.pc = pc]
  <2>1. it \in Request /\ Sound(it, membership, client)
    BY <1>1, NextCallIsSound
  <2>2. request' = [request EXCEPT ![r] = it]
    BY <1>3 DEF Step
  <2> HIDE DEF it
  <2> QED BY <2>1, <2>2, RequestReplaced
<1> QED BY <1>2, <1>3

\* The members change, and the requests that hold a changed document lose it.
LEMMA LoseSound ==
    ASSUME MemberShape, NEW r, NEW ops \in SUBSET Operations, NEW users \in SUBSET Users,
           NEW reqs \in [MemberRequests -> Request],
           \A q \in MemberRequests : Sound(reqs[q], membership, client),
           request' = Lose(reqs, r, ops, users),
           \A q \in MemberRequests :
               /\ request'[q].op \in MemberOps /\ request'[q].live
               => membership'[request'[q].user] = membership[request'[q].user],
           UNCHANGED client
    PROVE  request' \in [MemberRequests -> Request] /\ SoundRequests'
<1>1. ASSUME NEW q \in MemberRequests
      PROVE  request'[q] \in Request /\ Sound(request'[q], membership, client)
  <2>1. request'[q] = reqs[q] \/ request'[q] = [reqs[q] EXCEPT !.live = FALSE]
    BY DEF Lose
  <2>2. reqs[q] \in Request /\ Sound(reqs[q], membership, client)
    OBVIOUS
  <2> QED BY <2>1, <2>2, DeadIsSound
<1>2. ASSUME NEW q \in MemberRequests PROVE Sound(request'[q], membership', client')
  BY <1>1, <1>2 DEF Sound
<1>3. request' \in [MemberRequests -> Request]
  BY <1>1 DEF Lose
<1> QED BY <1>2, <1>3 DEF SoundRequests

\* What a request that swept a client's contacts goes on as.
AfterSweep(r) == IF request[r].op = "archive" THEN IdleRequest
                 ELSE [request[r] EXCEPT !.pc = "detach"]

LEMMA AfterSweepSound ==
    ASSUME MemberShape, NEW r \in MemberRequests, request[r].op \in {"archive", "delete"}
    PROVE  /\ AfterSweep(r) \in Request
           /\ Sound(AfterSweep(r), membership, client)
           /\ AfterSweep(r).op \notin MemberOps
<1>t. request[r] \in Request /\ Sound(request[r], membership, client)
  BY DEF MemberShape, MemberTypeOK, SoundRequests
<1>1. CASE request[r].op = "archive"
  <2>1. IdleRequest.op \notin MemberOps
    BY DEF IdleRequest, MemberOps
  <2> QED BY <1>1, <2>1, IdleIsSound DEF AfterSweep
<1>2. CASE request[r].op # "archive"
  <2>1. [request[r] EXCEPT !.pc = "detach"].op = "delete"
    BY <1>t, <1>2 DEF Request
  <2>2. /\ [request[r] EXCEPT !.pc = "detach"] \in Request
        /\ Sound([request[r] EXCEPT !.pc = "detach"], membership, client)
    BY <1>t, NextCallIsSound DEF Pcs
  <2> QED BY <1>2, <2>1, <2>2 DEF AfterSweep, MemberOps
<1> QED BY <1>1, <1>2

LEMMA MemberShapeStep == MemberShape /\ [MemberNext]_memberVars => MemberShape'
<1> SUFFICES ASSUME MemberShape, [MemberNext]_memberVars PROVE MemberShape'
  OBVIOUS
<1>t. /\ membership \in [Users -> MemberDoc] /\ invitation \in [Users -> MemberDoc]
      /\ \A q \in MemberRequests : request[q] \in Request /\ Sound(request[q], membership, client)
  BY DEF MemberShape, MemberTypeOK, SoundRequests, MemberDoc
<1>r. InvitedRoles \subseteq Roles /\ None \notin Roles /\ "client" \notin InvitedRoles
  BY MembershipAssumption DEF Roles, InternalRoles, AssignableRoles
<1>1. ASSUME NEW r \in MemberRequests, NEW u \in Users, NEW role \in InvitedRoles,
             BeginInvite(r, u, role)
      PROVE  MemberShape'
  <2> DEFINE it == [IdleRequest EXCEPT !.op = "invite", !.pc = "write", !.user = u, !.role = role]
  <2>1. it \in Request /\ Sound(it, membership, client)
    BY <1>r DEF IdleRequest, Request, Operations, Sound, MemberOps
  <2> HIDE DEF it
  <2>2. Start(r, it)
    BY <1>1 DEF BeginInvite, it
  <2> QED BY <1>1, <2>1, <2>2, StartSound DEF BeginInvite
<1>2. ASSUME NEW r \in MemberRequests, NEW c \in Clients, NEW u \in Users,
             BeginInviteContact(r, c, u)
      PROVE  MemberShape'
  <2> DEFINE it == [IdleRequest EXCEPT !.op = "invite", !.pc = "write", !.user = u,
                                    !.role = "client", !.client = c]
  <2>1. it \in Request /\ Sound(it, membership, client)
    BY DEF IdleRequest, Request, Operations, Sound, MemberOps, Roles
  <2> HIDE DEF it
  <2>2. Start(r, it)
    BY <1>2 DEF BeginInviteContact, it
  <2> QED BY <1>2, <2>1, <2>2, StartSound DEF BeginInviteContact
<1>3. ASSUME NEW r \in MemberRequests, WriteInvitation(r) PROVE MemberShape'
  <2> DEFINE doc == [role |-> request[r].role, client |-> request[r].client]
  <2>1. doc \in MemberDoc /\ (doc.role # "client" => doc.client = None)
    BY <1>3, <1>t DEF WriteInvitation, In, Request, Sound, MemberDoc
  <2>2. invitation' = [invitation EXCEPT ![request[r].user] = doc]
    BY <1>3 DEF WriteInvitation
  <2> HIDE DEF doc
  <2>3. request' \in [MemberRequests -> Request] /\ SoundRequests'
    BY <1>3, MoveSound DEF WriteInvitation
  <2>4. invitation' \in [Users -> MemberDoc] /\ TeamIsUnbound'
    BY <1>3, <1>t, <2>1, <2>2 DEF WriteInvitation, MemberShape, TeamIsUnbound
  <2> QED BY <1>3, <2>3, <2>4
          DEF WriteInvitation, MemberShape, MemberTypeOK, memberHistory, MemberDoc
<1>4. ASSUME NEW u \in Users, RevokeInvitation(u) PROVE MemberShape'
  <2>1. request' \in [MemberRequests -> Request] /\ SoundRequests'
    BY <1>4, <1>t, LoseSound
       DEF RevokeInvitation, Operations, MemberShape, MemberTypeOK
  <2> QED BY <1>4, <2>1
          DEF RevokeInvitation, MemberShape, MemberTypeOK, TeamIsUnbound, memberHistory,
              NoInvitation
<1>5. ASSUME NEW r \in MemberRequests, NEW u \in Users, BeginAccept(r, u) PROVE MemberShape'
  <2> DEFINE it == [IdleRequest EXCEPT !.op = "accept", !.user = u,
                                    !.pc = IF IsMember(u) THEN "mark" ELSE "write",
                                    !.role = invitation[u].role,
                                    !.client = invitation[u].client]
  <2>1. it \in Request /\ Sound(it, membership, client)
    <3>1. invitation[u].role \in Roles \cup {None} /\ invitation[u].client \in Clients \cup {None}
          /\ (invitation[u].role # "client" => invitation[u].client = None)
      BY <1>t DEF MemberShape, TeamIsUnbound, MemberDoc
    <3> QED BY <3>1 DEF IdleRequest, Request, Operations, Sound, MemberOps
  <2> HIDE DEF it
  <2>2. Start(r, it)
    BY <1>5 DEF BeginAccept, it
  <2> QED BY <1>5, <2>1, <2>2, StartSound DEF BeginAccept
<1>6. ASSUME NEW r \in MemberRequests, AddMember(r) PROVE MemberShape'
  <2> DEFINE u == request[r].user
             doc == [role |-> request[r].role, client |-> request[r].client]
  <2>1. u \in Users /\ doc \in MemberDoc /\ (doc.role # "client" => doc.client = None)
    BY <1>6, <1>t DEF AddMember, In, Request, Sound, MemberDoc
  <2>2. CASE IsMember(u)
    <3>1. request' \in [MemberRequests -> Request] /\ SoundRequests'
      BY <1>6, <2>2, MoveSound DEF AddMember
    <3> QED BY <1>6, <2>2, <3>1 DEF AddMember, MemberShape, MemberTypeOK, TeamIsUnbound
  <2>3. CASE ~IsMember(u)
    <3>1. membership' = [membership EXCEPT ![u] = doc] /\ Step(r, "mark") /\ client' = client
          /\ late' \in {late \cup {u}, late \ {u}}
      BY <1>6, <2>3 DEF AddMember
    <3> HIDE DEF doc
    <3>2. membership' \in [Users -> MemberDoc] /\ TeamIsUnbound'
      BY <1>6, <1>t, <2>1, <3>1 DEF AddMember, MemberShape, TeamIsUnbound
    <3>3. ASSUME NEW q \in MemberRequests
          PROVE  request'[q] \in Request /\ Sound(request'[q], membership', client')
      <4>1. request'[q] \in Request /\ Sound(request'[q], membership, client)
        BY <1>t, <3>1, NextCallIsSound DEF Step, MemberShape, MemberTypeOK, Pcs
      <4>2. request'[q].op \in MemberOps /\ request'[q].live => request'[q].user # u
        BY <2>3, <4>1 DEF IsMember, Sound
      <4> QED BY <1>t, <2>1, <3>1, <4>1, <4>2 DEF Sound, MemberOps
    <3>4. request' \in [MemberRequests -> Request] /\ SoundRequests'
      BY <3>1, <3>3 DEF Step, SoundRequests, MemberShape, MemberTypeOK
    <3> QED BY <1>6, <2>1, <3>1, <3>2, <3>4 DEF AddMember, MemberShape, MemberTypeOK, MemberDoc
  <2> QED BY <2>2, <2>3
<1>7. ASSUME NEW r \in MemberRequests, MarkAccepted(r) PROVE MemberShape'
  <2> DEFINE reqs == [request EXCEPT ![r] = IdleRequest]
  <2>1. reqs \in [MemberRequests -> Request]
        /\ \A q \in MemberRequests : Sound(reqs[q], membership, client)
    BY <1>t, IdleIsSound DEF MemberShape, MemberTypeOK
  <2>2. request[r].user \in Users
    BY <1>7, <1>t DEF MarkAccepted, In, Sound
  <2>3. \/ request' = Lose(reqs, r, {"accept"}, {request[r].user})
        \/ Finish(r)
    BY <1>7 DEF MarkAccepted
  <2> HIDE DEF reqs
  <2>4. request' \in [MemberRequests -> Request] /\ SoundRequests'
    BY <1>7, <2>1, <2>2, <2>3, LoseSound, MoveSound DEF MarkAccepted, Operations
  <2>5. invitation' \in [Users -> MemberDoc]
        /\ \A w \in Users : invitation'[w] \in {invitation[w], NoInvitation}
    BY <1>7, <1>t DEF MarkAccepted, NoInvitation, MemberDoc
  <2> QED BY <1>7, <2>4, <2>5
          DEF MarkAccepted, MemberShape, MemberTypeOK, TeamIsUnbound, NoInvitation, MemberDoc,
              memberHistory
<1>8. ASSUME NEW r \in MemberRequests, NEW u \in Users, NEW op \in MemberOps,
             NEW role \in Roles \cup {None}, BeginMemberChange(r, op, u, role),
             op = "role" => role # None
      PROVE  MemberShape'
  <2> DEFINE pc == IF membership[u].role = "owner" /\ role # "owner" THEN "check" ELSE "write"
             it == [IdleRequest EXCEPT !.op = op, !.pc = pc, !.user = u, !.role = role]
  <2>1. it \in Request /\ Sound(it, membership, client)
    <3>1. /\ membership[u].role \in InternalRoles
          /\ op = "remove" => role = None
      BY <1>8 DEF BeginMemberChange
    <3>2. membership[u].role # None /\ membership[u].role # "client"
          /\ membership[u].client = None
      BY <3>1, MembershipAssumption
         DEF MemberShape, TeamIsUnbound, Roles, InternalRoles, AssignableRoles
    <3>3. pc \in {"check", "write"}
      OBVIOUS
    <3> HIDE DEF pc
    <3> QED BY <3>1, <3>2, <3>3, <1>8 DEF IdleRequest, Request, Operations, Sound, MemberOps
  <2> HIDE DEF it
  <2>2. Start(r, it)
    BY <1>8 DEF BeginMemberChange, it
  <2> QED BY <1>8, <2>1, <2>2, StartSound DEF BeginMemberChange
<1>10. ASSUME NEW r \in MemberRequests, AssertNotLastOwner(r) PROVE MemberShape'
  <2>1. request' \in [MemberRequests -> Request] /\ SoundRequests'
    BY <1>10, MoveSound DEF AssertNotLastOwner, Pcs
  <2>2. raced' \subseteq MemberRequests
    BY <1>10 DEF AssertNotLastOwner, RacedBy, Rivals, MemberShape, MemberTypeOK
  <2> QED BY <1>10, <2>1, <2>2 DEF AssertNotLastOwner, MemberShape, MemberTypeOK, TeamIsUnbound
<1>11. ASSUME NEW r \in MemberRequests, UpdateRole(r) PROVE MemberShape'
  <2> DEFINE u == request[r].user
             role == request[r].role
             doc == [membership[u] EXCEPT !.role = role]
  <2>0. raced' \subseteq MemberRequests
    BY <1>11 DEF UpdateRole, Rivals, MemberShape, MemberTypeOK
  <2>1. CASE ~request[r].live
    <3>1. request' \in [MemberRequests -> Request] /\ SoundRequests'
      BY <1>11, <2>1, MoveSound DEF UpdateRole
    <3> QED BY <1>11, <2>0, <2>1, <3>1 DEF UpdateRole, MemberShape, MemberTypeOK, TeamIsUnbound
  <2>2. CASE request[r].live
    <3>1. u \in Users /\ role \in Roles /\ membership[u].client = None
      BY <1>11, <1>t, <2>2 DEF UpdateRole, In, Sound, MemberOps
    <3>2. doc \in MemberDoc /\ doc.client = None /\ doc.role # None
      BY <1>t, <1>r, <3>1 DEF MemberDoc
    <3>3. membership' = [membership EXCEPT ![u] = doc] /\ Finish(r) /\ client' = client
      BY <1>11, <2>2 DEF UpdateRole
    <3> HIDE DEF doc
    <3>4. membership' \in [Users -> MemberDoc] /\ TeamIsUnbound'
      BY <1>11, <1>t, <3>1, <3>2, <3>3 DEF UpdateRole, MemberShape, TeamIsUnbound
    <3>5. ASSUME NEW q \in MemberRequests
          PROVE  request'[q] \in Request /\ Sound(request'[q], membership', client')
      <4>1. request'[q] \in Request /\ Sound(request'[q], membership, client)
        BY <1>t, <3>3, IdleIsSound DEF Finish, MemberShape, MemberTypeOK
      <4> QED BY <1>t, <3>1, <3>2, <3>3, <4>1 DEF Sound, MemberOps
    <3>6. request' \in [MemberRequests -> Request] /\ SoundRequests'
      BY <3>3, <3>5 DEF Finish, SoundRequests, MemberShape, MemberTypeOK
    <3> QED BY <1>11, <2>0, <3>4, <3>6 DEF UpdateRole, MemberShape, MemberTypeOK, MemberDoc
  <2> QED BY <2>1, <2>2
<1>n. NoMember \in MemberDoc /\ NoMember.client = None
  BY DEF NoMember, MemberDoc
<1>12. ASSUME NEW r \in MemberRequests, RemoveMember(r) PROVE MemberShape'
  <2> DEFINE reqs == [request EXCEPT ![r] = IdleRequest]
             u == request[r].user
  <2>1. reqs \in [MemberRequests -> Request] /\ reqs[r].op = "idle"
        /\ \A q \in MemberRequests : Sound(reqs[q], membership, client)
    BY <1>t, IdleIsSound DEF MemberShape, MemberTypeOK, IdleRequest
  <2> HIDE DEF reqs
  <2>2. u \in Users
    BY <1>12, <1>t DEF RemoveMember, In, Sound
  <2>3. CASE ~request[r].live
    <3>1. request' \in [MemberRequests -> Request] /\ SoundRequests'
      BY <1>12, <2>3, MoveSound DEF RemoveMember
    <3> QED BY <1>12, <2>3, <3>1
            DEF RemoveMember, MemberShape, MemberTypeOK, TeamIsUnbound, memberHistory
  <2>4. CASE request[r].live
    <3>1. membership' = [membership EXCEPT ![u] = NoMember] /\ client' = client
          /\ request' = Lose(reqs, r, MemberOps, {u})
      BY <1>12, <2>4 DEF RemoveMember, reqs
    <3>2. membership' \in [Users -> MemberDoc] /\ TeamIsUnbound'
      BY <1>12, <1>t, <1>n, <2>2, <3>1 DEF RemoveMember, MemberShape, TeamIsUnbound
    <3>3. ASSUME NEW q \in MemberRequests, request'[q].op \in MemberOps, request'[q].live
          PROVE  membership'[request'[q].user] = membership[request'[q].user]
      <4>1. request'[q].user # u
        BY <2>1, <3>1, <3>3 DEF Lose, Request, MemberOps
      <4> QED BY <1>t, <3>1, <4>1
    <3>4. request' \in [MemberRequests -> Request] /\ SoundRequests'
      BY <2>1, <2>2, <3>1, <3>3, LoseSound DEF Operations, MemberOps
    <3> QED BY <1>12, <3>2, <3>4
            DEF RemoveMember, MemberShape, MemberTypeOK, memberHistory, MemberDoc
  <2> QED BY <2>3, <2>4
<1>13. ASSUME NEW c \in Clients, CreateClient(c) \/ RestoreClient(c) PROVE MemberShape'
  <2>1. \A b \in Clients : client[b] # "none" => client'[b] # "none"
    BY <1>13 DEF CreateClient, RestoreClient, MemberShape, MemberTypeOK
  <2>2. SoundRequests'
    BY <1>13, <2>1 DEF CreateClient, RestoreClient, MemberShape, SoundRequests, Sound
  <2> QED BY <1>13, <2>2
          DEF CreateClient, RestoreClient, MemberShape, MemberTypeOK, TeamIsUnbound, memberHistory
<1>14. ASSUME NEW u \in Users, RevokeContact(u) PROVE MemberShape'
  <2>1. membership' = [membership EXCEPT ![u] = NoMember] /\ client' = client
        /\ request' = Lose(request, None, MemberOps, {u})
    BY <1>14 DEF RevokeContact
  <2>2. membership' \in [Users -> MemberDoc] /\ TeamIsUnbound'
    BY <1>14, <1>t, <1>n, <2>1 DEF RevokeContact, MemberShape, TeamIsUnbound
  <2>3. ASSUME NEW q \in MemberRequests, request'[q].op \in MemberOps, request'[q].live
        PROVE  membership'[request'[q].user] = membership[request'[q].user]
    <3>1. request'[q].user # u
      BY <1>t, <2>1, <2>3, MembershipAssumption DEF Lose, Request, MemberOps
    <3> QED BY <1>t, <2>1, <3>1
  <2>4. request' \in [MemberRequests -> Request] /\ SoundRequests'
    BY <1>t, <2>1, <2>3, LoseSound DEF Operations, MemberOps, MemberShape, MemberTypeOK
  <2> QED BY <1>14, <2>2, <2>4
          DEF RevokeContact, MemberShape, MemberTypeOK, memberHistory, MemberDoc
<1>15. ASSUME NEW r \in MemberRequests, NEW c \in Clients, BeginArchive(r, c)
       PROVE  MemberShape'
  <2> DEFINE it == [IdleRequest EXCEPT !.op = "archive", !.pc = "write", !.client = c,
                                    !.swept = client[c] = "archived"]
  <2>1. it \in Request /\ Sound(it, membership, client)
    BY <1>15 DEF BeginArchive, IdleRequest, Request, Operations, Sound, MemberOps
  <2> HIDE DEF it
  <2>2. Start(r, it)
    BY <1>15 DEF BeginArchive, it
  <2> QED BY <1>15, <2>1, <2>2, StartSound DEF BeginArchive
<1>16. ASSUME NEW r \in MemberRequests, NEW c \in Clients, BeginDeleteClient(r, c)
       PROVE  MemberShape'
  <2> DEFINE it == [IdleRequest EXCEPT !.op = "delete", !.pc = "sweep", !.client = c]
  <2>1. it \in Request /\ Sound(it, membership, client)
    BY <1>16 DEF BeginDeleteClient, IdleRequest, Request, Operations, Sound, MemberOps
  <2> HIDE DEF it
  <2>2. Start(r, it)
    BY <1>16 DEF BeginDeleteClient, it
  <2> QED BY <1>16, <2>1, <2>2, StartSound DEF BeginDeleteClient
<1>17. ASSUME NEW r \in MemberRequests, NEW c \in Clients, BeginAssignWebsite(r, c)
       PROVE  MemberShape'
  <2> DEFINE it == [IdleRequest EXCEPT !.op = "assign", !.pc = "write", !.client = c]
  <2>1. it \in Request /\ Sound(it, membership, client)
    BY <1>17 DEF BeginAssignWebsite, IdleRequest, Request, Operations, Sound, MemberOps
  <2> HIDE DEF it
  <2>2. Start(r, it)
    BY <1>17 DEF BeginAssignWebsite, it
  <2> QED BY <1>17, <2>1, <2>2, StartSound DEF BeginAssignWebsite
<1>18. ASSUME NEW r \in MemberRequests, ArchiveClient(r) \/ DeleteClient(r)
       PROVE  MemberShape'
  <2>1. request[r].client \in Clients /\ client[request[r].client] # "none"
    BY <1>18, <1>t DEF ArchiveClient, DeleteClient, In, Sound
  <2>2. \A q \in MemberRequests :
            request'[q] \in Request /\ Sound(request'[q], membership, client)
    <3>1. Finish(r) \/ Step(r, "sweep")
      BY <1>18 DEF ArchiveClient, DeleteClient
    <3>2. CASE Finish(r)
      BY <1>t, <3>2, IdleIsSound DEF Finish, MemberShape, MemberTypeOK
    <3>3. CASE Step(r, "sweep")
      <4> DEFINE it == [request[r] EXCEPT !.pc = "sweep"]
      <4>1. it \in Request /\ Sound(it, membership, client)
        BY <1>t, NextCallIsSound DEF Pcs
      <4>2. request' = [request EXCEPT ![r] = it]
        BY <3>3 DEF Step
      <4> HIDE DEF it
      <4> QED BY <1>t, <4>1, <4>2 DEF MemberShape, MemberTypeOK
    <3> QED BY <3>1, <3>2, <3>3
  <2>3. client' \in [Clients -> {"none", "active", "archived", "deleted"}]
        /\ \A b \in Clients : client[b] # "none" => client'[b] # "none"
    BY <1>18, <2>1 DEF ArchiveClient, DeleteClient, MemberShape, MemberTypeOK
  <2>4. membership' = membership
    BY <1>18 DEF ArchiveClient, DeleteClient
  <2>5. SoundRequests'
    BY <2>2, <2>3, <2>4 DEF SoundRequests, Sound
  <2>6. request' \in [MemberRequests -> Request]
    BY <1>18, <2>2 DEF ArchiveClient, DeleteClient, Finish, Step, MemberShape, MemberTypeOK
  <2> QED BY <1>18, <2>1, <2>3, <2>5, <2>6
          DEF ArchiveClient, DeleteClient, MemberShape, MemberTypeOK, TeamIsUnbound, memberHistory
<1>19. ASSUME NEW r \in MemberRequests, RevokeAllAccess(r) PROVE MemberShape'
  <2> DEFINE c == request[r].client
             it == AfterSweep(r)
             reqs == [request EXCEPT ![r] = it]
  <2>1. it \in Request /\ Sound(it, membership, client) /\ it.op \notin MemberOps
    BY <1>19, AfterSweepSound DEF RevokeAllAccess
  <2>2. request' = Lose(reqs, r, MemberOps, ContactsOf(c))
    BY <1>19 DEF RevokeAllAccess, AfterSweep
  <2> HIDE DEF it
  <2>3. reqs \in [MemberRequests -> Request] /\ reqs[r].op \notin MemberOps
        /\ \A q \in MemberRequests : Sound(reqs[q], membership, client)
    BY <1>t, <2>1 DEF MemberShape, MemberTypeOK
  <2> HIDE DEF reqs
  <2>4. /\ membership' = [u \in Users |-> IF u \in ContactsOf(c) THEN NoMember ELSE membership[u]]
        /\ client' = client
    BY <1>19 DEF RevokeAllAccess
  <2>5. membership' \in [Users -> MemberDoc] /\ TeamIsUnbound'
    BY <1>19, <1>t, <1>n, <2>4 DEF RevokeAllAccess, MemberShape, TeamIsUnbound
  <2>6. ASSUME NEW q \in MemberRequests, request'[q].op \in MemberOps, request'[q].live
        PROVE  membership'[request'[q].user] = membership[request'[q].user]
    <3>1. request'[q].user \notin ContactsOf(c)
      BY <2>2, <2>3, <2>6 DEF Lose, Request, MemberOps
    <3>2. request'[q].user \in Users
      BY <2>2, <2>3, <2>6 DEF Lose, Request, MemberOps, Sound
    <3> QED BY <2>4, <3>1, <3>2
  <2>7. request' \in [MemberRequests -> Request] /\ SoundRequests'
    BY <2>2, <2>3, <2>4, <2>6, LoseSound DEF Operations, MemberOps, ContactsOf
  <2> QED BY <1>19, <2>5, <2>7 DEF RevokeAllAccess, MemberShape, MemberTypeOK, MemberDoc
<1>20. ASSUME NEW r \in MemberRequests, DetachClient(r) PROVE MemberShape'
  <2>1. request' \in [MemberRequests -> Request] /\ SoundRequests'
    BY <1>20, MoveSound DEF DetachClient, Pcs
  <2> QED BY <1>20, <2>1
          DEF DetachClient, MemberShape, MemberTypeOK, TeamIsUnbound, memberHistory
<1>21. ASSUME NEW r \in MemberRequests, AssignWebsite(r) PROVE MemberShape'
  <2>1. request' \in [MemberRequests -> Request] /\ SoundRequests'
    BY <1>21, MoveSound DEF AssignWebsite
  <2>2. request[r].client \in Clients
    BY <1>21, <1>t DEF AssignWebsite, In, Sound
  <2> QED BY <1>21, <2>1, <2>2 DEF AssignWebsite, MemberShape, MemberTypeOK, TeamIsUnbound
<1>22. ASSUME NEW r \in MemberRequests, RequestDies(r) PROVE MemberShape'
  <2>1. request' \in [MemberRequests -> Request] /\ SoundRequests'
    BY <1>22, MoveSound DEF RequestDies
  <2>2. unswept' \subseteq Clients
    BY <1>22, <1>t DEF RequestDies, In, Sound, MemberShape, MemberTypeOK
  <2> QED BY <1>22, <2>1, <2>2 DEF RequestDies, MemberShape, MemberTypeOK, TeamIsUnbound
<1>23. CASE UNCHANGED memberVars
  BY <1>23 DEF memberVars, MemberShape, MemberTypeOK, SoundRequests, TeamIsUnbound
<1>24. /\ {"owner", "client"} \cup InvitedRoles \subseteq Roles
       /\ None \notin {"owner", "client"} \cup InvitedRoles
       /\ "role" \in MemberOps /\ "remove" \in MemberOps
  BY <1>r DEF Roles, InternalRoles, MemberOps
<1> QED
  BY <1>1, <1>2, <1>3, <1>4, <1>5, <1>6, <1>7, <1>8, <1>10, <1>11, <1>12, <1>13, <1>14,
     <1>15, <1>16, <1>17, <1>18, <1>19, <1>20, <1>21, <1>22, <1>23, <1>24
     DEF MemberNext, InvitationNext, StaffNext, ClientNext

-----------------------------------------------------------------------------
(* The last owner.                                                         *)

\* A request past its checks that will take the role of its user.
Threatens(q, u) ==
    /\ request[q].op \in MemberOps /\ request[q].pc = "write" /\ request[q].live
    /\ request[q].user = u /\ request[q].role # "owner"

\* A request that counted alone leaves an owner whom no request threatens.
SafeOwner ==
    \A q \in MemberRequests \ raced, v \in Users :
        Threatens(q, v) /\ membership[v].role = "owner" =>
            \E u \in Users \ {v} : /\ membership[u].role = "owner"
                                  /\ \A p \in MemberRequests : ~Threatens(p, u)

\* Of two owners, one is not the given user.
LEMMA AnotherOwner ==
    ASSUME NEW v, ~(Cardinality(Owners) <= 1)
    PROVE  \E u \in Owners : u # v
<1> SUFFICES ASSUME Owners \subseteq {v} PROVE FALSE
  OBVIOUS
<1>1. IsFiniteSet({v}) /\ Cardinality({v}) = 1
  BY FS_Singleton
<1> QED BY <1>1, FS_Subset, FS_CardinalityType

\* No request threatens more than before, and every owner stays one.
LEMMA OwnersLeftAlone ==
    ASSUME SafeOwner,
           \A q \in MemberRequests, u \in Users : Threatens(q, u)' => (q \in raced => q \in raced'),
           \A u \in Users : membership[u].role = "owner" => membership'[u].role = "owner",
           \A q \in MemberRequests, u \in Users : Threatens(q, u)' => Threatens(q, u),
           \A q \in MemberRequests, u \in Users :
               Threatens(q, u) /\ membership'[u].role = "owner" => membership[u].role = "owner"
    PROVE  SafeOwner'
<1> SUFFICES ASSUME NEW q \in MemberRequests, q \notin raced', NEW v \in Users,
                    Threatens(q, v)', membership'[v].role = "owner"
             PROVE  \E u \in Users \ {v} : /\ membership'[u].role = "owner"
                                           /\ \A p \in MemberRequests : ~Threatens(p, u)'
  BY DEF SafeOwner
<1>1. q \notin raced /\ Threatens(q, v) /\ membership[v].role = "owner"
  OBVIOUS
<1>2. PICK u \in Users \ {v} : /\ membership[u].role = "owner"
                              /\ \A p \in MemberRequests : ~Threatens(p, u)
  BY <1>1 DEF SafeOwner
<1> QED BY <1>2

\* A request replaced by one that is not about to change a member.
LEMMA NoNewThreat ==
    ASSUME MemberShape, NEW r \in MemberRequests, NEW it,
           request' = [request EXCEPT ![r] = it],
           it.op \notin MemberOps \/ it.pc # "write"
    PROVE  \A q \in MemberRequests, u \in Users : Threatens(q, u)' => Threatens(q, u)
BY DEF Threatens, MemberShape, MemberTypeOK

\* Requests that lose their document threaten no more than before.
LEMMA NoNewThreatByLoss ==
    ASSUME MemberShape, NEW r, NEW ops, NEW users,
           NEW reqs \in [MemberRequests -> Request], request' = Lose(reqs, r, ops, users),
           \A q \in MemberRequests : reqs[q] = request[q] \/ reqs[q].op \notin MemberOps
    PROVE  \A q \in MemberRequests, u \in Users : Threatens(q, u)' => Threatens(q, u)
<1> SUFFICES ASSUME NEW q \in MemberRequests, NEW u \in Users, Threatens(q, u)'
             PROVE  Threatens(q, u)
  OBVIOUS
<1>1. request'[q] = reqs[q] \/ request'[q] = [reqs[q] EXCEPT !.live = FALSE]
  BY DEF Lose
<1>2. reqs[q] \in Request
  OBVIOUS
<1> QED BY <1>1, <1>2 DEF Threatens, Request

LEMMA SafeOwnerStep == MemberShape /\ SafeOwner /\ [MemberNext]_memberVars => SafeOwner'
<1> SUFFICES ASSUME MemberShape, SafeOwner, [MemberNext]_memberVars PROVE SafeOwner'
  OBVIOUS
<1>t. /\ membership \in [Users -> MemberDoc] /\ request \in [MemberRequests -> Request]
      /\ raced \subseteq MemberRequests
      /\ \A q \in MemberRequests : request[q] \in Request /\ Sound(request[q], membership, client)
  BY DEF MemberShape, MemberTypeOK, SoundRequests, MemberDoc
<1>r. None \notin Roles
  BY MembershipAssumption
<1>n. None # "owner"
  BY <1>r DEF Roles, InternalRoles
<1>i. IdleRequest.op \notin MemberOps
  BY DEF IdleRequest, MemberOps
<1>1. ASSUME NEW r \in MemberRequests,
             Finish(r) \/ \E pc \in Pcs : Step(r, pc) /\ request[r].op \notin MemberOps
      PROVE  \A q \in MemberRequests, u \in Users : Threatens(q, u)' => Threatens(q, u)
  <2>1. CASE Finish(r)
    BY <1>i, <2>1, NoNewThreat DEF Finish
  <2>2. ASSUME NEW pc \in Pcs, Step(r, pc), request[r].op \notin MemberOps
        PROVE  \A q \in MemberRequests, u \in Users : Threatens(q, u)' => Threatens(q, u)
    <3> DEFINE it == [request[r] EXCEPT !.pc = pc]
    <3>1. it.op \notin MemberOps
      BY <1>t, <2>2 DEF Request
    <3>2. request' = [request EXCEPT ![r] = it]
      BY <2>2 DEF Step
    <3> HIDE DEF it
    <3> QED BY <3>1, <3>2, NoNewThreat
  <2> QED BY <1>1, <2>1, <2>2
<1>2. ASSUME NEW r \in MemberRequests, NEW it, Start(r, it), it.op \notin MemberOps,
             UNCHANGED membership, UNCHANGED raced
      PROVE  SafeOwner'
  <2>1. \A q \in MemberRequests, u \in Users : Threatens(q, u)' => Threatens(q, u)
    BY <1>2, NoNewThreat DEF Start
  <2> QED BY <1>2, <2>1, OwnersLeftAlone
\* Invitations and requests of the clients' pages.
<1>3. ASSUME NEW r \in MemberRequests, NEW u \in Users, NEW role \in InvitedRoles,
             BeginInvite(r, u, role)
      PROVE  SafeOwner'
  <2> DEFINE it == [IdleRequest EXCEPT !.op = "invite", !.pc = "write", !.user = u, !.role = role]
  <2>1. it.op \notin MemberOps
    BY DEF IdleRequest, MemberOps
  <2> HIDE DEF it
  <2> QED BY <1>2, <1>3, <2>1 DEF BeginInvite, it, memberHistory
<1>4. ASSUME NEW r \in MemberRequests, NEW c \in Clients, NEW u \in Users,
             BeginInviteContact(r, c, u)
      PROVE  SafeOwner'
  <2> DEFINE it == [IdleRequest EXCEPT !.op = "invite", !.pc = "write", !.user = u,
                                    !.role = "client", !.client = c]
  <2>1. it.op \notin MemberOps
    BY DEF IdleRequest, MemberOps
  <2> HIDE DEF it
  <2> QED BY <1>2, <1>4, <2>1 DEF BeginInviteContact, it, memberHistory
<1>5. ASSUME NEW r \in MemberRequests, NEW u \in Users, BeginAccept(r, u) PROVE SafeOwner'
  <2> DEFINE it == [IdleRequest EXCEPT !.op = "accept", !.user = u,
                                    !.pc = IF IsMember(u) THEN "mark" ELSE "write",
                                    !.role = invitation[u].role,
                                    !.client = invitation[u].client]
  <2>1. it.op \notin MemberOps
    BY DEF IdleRequest, MemberOps
  <2> HIDE DEF it
  <2> QED BY <1>2, <1>5, <2>1 DEF BeginAccept, it, memberHistory
<1>6. ASSUME NEW r \in MemberRequests, NEW c \in Clients, BeginArchive(r, c) PROVE SafeOwner'
  <2> DEFINE it == [IdleRequest EXCEPT !.op = "archive", !.pc = "write", !.client = c,
                                    !.swept = client[c] = "archived"]
  <2>1. it.op \notin MemberOps
    BY DEF IdleRequest, MemberOps
  <2> HIDE DEF it
  <2> QED BY <1>2, <1>6, <2>1 DEF BeginArchive, it, memberHistory
<1>7. ASSUME NEW r \in MemberRequests, NEW c \in Clients, BeginDeleteClient(r, c)
      PROVE  SafeOwner'
  <2> DEFINE it == [IdleRequest EXCEPT !.op = "delete", !.pc = "sweep", !.client = c]
  <2>1. it.op \notin MemberOps
    BY DEF IdleRequest, MemberOps
  <2> HIDE DEF it
  <2> QED BY <1>2, <1>7, <2>1 DEF BeginDeleteClient, it, memberHistory
<1>8. ASSUME NEW r \in MemberRequests, NEW c \in Clients, BeginAssignWebsite(r, c)
      PROVE  SafeOwner'
  <2> DEFINE it == [IdleRequest EXCEPT !.op = "assign", !.pc = "write", !.client = c]
  <2>1. it.op \notin MemberOps
    BY DEF IdleRequest, MemberOps
  <2> HIDE DEF it
  <2> QED BY <1>2, <1>8, <2>1 DEF BeginAssignWebsite, it, memberHistory
<1>9. ASSUME NEW r \in MemberRequests,
             WriteInvitation(r) \/ DeleteClient(r) \/ AssignWebsite(r) \/ RequestDies(r)
                 \/ ArchiveClient(r) \/ DetachClient(r)
      PROVE  SafeOwner'
  <2>1. Finish(r) \/ \E pc \in Pcs : Step(r, pc) /\ request[r].op \notin MemberOps
    BY <1>9 DEF WriteInvitation, DeleteClient, AssignWebsite, RequestDies, ArchiveClient,
                DetachClient, In, Pcs, MemberOps
  <2>2. membership' = membership /\ raced' \in {raced, raced \ {r}}
    BY <1>9 DEF WriteInvitation, DeleteClient, AssignWebsite, RequestDies, ArchiveClient,
                DetachClient, memberHistory
  <2>3. raced' # raced => \A u \in Users : ~Threatens(r, u)'
    BY <1>9, <1>t, <1>i DEF WriteInvitation, DeleteClient, AssignWebsite, RequestDies, ArchiveClient,
                DetachClient, memberHistory, Finish, Threatens
  <2> QED BY <1>1, <2>1, <2>2, <2>3, OwnersLeftAlone
<1>10. ASSUME NEW u \in Users, RevokeInvitation(u) PROVE SafeOwner'
  BY <1>10, <1>t, NoNewThreatByLoss, OwnersLeftAlone DEF RevokeInvitation, memberHistory
<1>11. ASSUME NEW r \in MemberRequests, AddMember(r) PROVE SafeOwner'
  <2>1. \A q \in MemberRequests, u \in Users : Threatens(q, u)' => Threatens(q, u)
    BY <1>1, <1>11 DEF AddMember, In, MemberOps, Pcs
  <2>2. \A u \in Users : membership[u].role = "owner" => membership'[u].role = "owner"
    BY <1>11, <1>t, MembershipAssumption DEF AddMember, IsMember, Roles, InternalRoles
  <2>3. \A q \in MemberRequests, u \in Users :
            Threatens(q, u) /\ membership'[u].role = "owner" => membership[u].role = "owner"
    <3>1. \A q \in MemberRequests, u \in Users : Threatens(q, u) => IsMember(u)
      BY <1>t DEF Threatens, Sound, IsMember
    <3> QED BY <1>11, <1>t, <3>1 DEF AddMember, IsMember
  <2> QED BY <1>11, <2>1, <2>2, <2>3, OwnersLeftAlone DEF AddMember
<1>12. ASSUME NEW r \in MemberRequests, MarkAccepted(r) PROVE SafeOwner'
  <2> DEFINE reqs == [request EXCEPT ![r] = IdleRequest]
  <2>1. reqs \in [MemberRequests -> Request]
        /\ \A q \in MemberRequests : reqs[q] = request[q] \/ reqs[q].op \notin MemberOps
    BY <1>t, <1>i, IdleIsSound
  <2>2. request' = Lose(reqs, r, {"accept"}, {request[r].user}) \/ Finish(r)
    BY <1>12 DEF MarkAccepted
  <2> HIDE DEF reqs
  <2>3. \A q \in MemberRequests, u \in Users : Threatens(q, u)' => Threatens(q, u)
    BY <1>1, <2>1, <2>2, NoNewThreatByLoss
  <2> QED BY <1>12, <2>3, OwnersLeftAlone DEF MarkAccepted, memberHistory
\* A change of a member starts with its check, or is no threat to an owner.
<1>13. ASSUME NEW r \in MemberRequests, NEW v \in Users, NEW op \in MemberOps,
              NEW role, BeginMemberChange(r, op, v, role)
       PROVE  SafeOwner'
  <2> DEFINE pc == IF membership[v].role = "owner" /\ role # "owner" THEN "check" ELSE "write"
             it == [IdleRequest EXCEPT !.op = op, !.pc = pc, !.user = v, !.role = role]
  <2>1. it.pc = pc /\ it.user = v /\ it.role = role
    BY DEF IdleRequest
  <2>2. pc = "write" => membership[v].role # "owner" \/ role = "owner"
    OBVIOUS
  <2> HIDE DEF it, pc
  <2>3. request' = [request EXCEPT ![r] = it] /\ UNCHANGED <<membership, raced>>
    BY <1>13 DEF BeginMemberChange, Start, it, pc, memberHistory
  <2>4. \A q \in MemberRequests, u \in Users :
            Threatens(q, u)' => Threatens(q, u) \/ membership[u].role # "owner"
    BY <1>t, <2>1, <2>2, <2>3 DEF Threatens
  <2> QED BY <2>3, <2>4 DEF SafeOwner
\* The check leaves another owner, whom nobody threatens unless checks overlap.
<1>14. ASSUME NEW r \in MemberRequests, AssertNotLastOwner(r) PROVE SafeOwner'
  <2>1. CASE Cardinality(Owners) <= 1
    <3>1. Finish(r) /\ UNCHANGED <<membership, raced>>
      BY <1>14, <2>1 DEF AssertNotLastOwner
    <3> QED BY <1>1, <3>1, OwnersLeftAlone
  <2>2. CASE ~(Cardinality(Owners) <= 1)
    <3>1. /\ Step(r, "write") /\ membership' = membership
          /\ raced' = raced \cup RacedBy(r)
      BY <1>14, <2>2 DEF AssertNotLastOwner
    <3>2. PICK u \in Owners : u # request[r].user
      BY <2>2, AnotherOwner
    <3> DEFINE it == [request[r] EXCEPT !.pc = "write"]
    <3>3. it.user = request[r].user
      BY <1>t DEF Request
    <3>4. request' = [request EXCEPT ![r] = it]
      BY <3>1 DEF Step
    <3> HIDE DEF it
    <3>5. \A q \in MemberRequests \ {r}, v \in Users :
              /\ Threatens(q, v)' <=> Threatens(q, v)
              /\ Threatens(q, v) /\ membership[v].role = "owner" => q \in Rivals(r, Owners)
      BY <1>t, <3>4 DEF Threatens, Rivals, Owners
    <3>6. ASSUME NEW q \in MemberRequests, q \notin raced', NEW v \in Users,
                 Threatens(q, v)', membership'[v].role = "owner"
          PROVE  \E w \in Users \ {v} : /\ membership'[w].role = "owner"
                                        /\ \A p \in MemberRequests : ~Threatens(p, w)'
      <4>1. q = r
        BY <3>1, <3>5, <3>6 DEF RacedBy
      <4>2. Rivals(r, Owners) = {}
        BY <3>1, <3>6, <4>1 DEF RacedBy
      <4>3. v = request[r].user
        BY <1>t, <3>3, <3>4, <3>6, <4>1 DEF Threatens
      <4>4. u \in Users /\ membership[u].role = "owner"
        BY <3>2 DEF Owners
      <4>5. \A p \in MemberRequests \ {r} : ~Threatens(p, u)'
        BY <3>5, <4>2, <4>4
      <4>6. ~Threatens(r, u)'
        BY <1>t, <3>2, <3>3, <3>4 DEF Threatens
      <4> QED BY <3>1, <3>2, <4>3, <4>4, <4>5, <4>6
    <3> QED BY <3>6 DEF SafeOwner
  <2> QED BY <2>1, <2>2
\* An update or a removal takes the role of a user its request threatens.
<1>15. ASSUME NEW r \in MemberRequests, UpdateRole(r) \/ RemoveMember(r) PROVE SafeOwner'
  <2> DEFINE w == request[r].user
             reqs == [request EXCEPT ![r] = IdleRequest]
  <2>1. /\ reqs \in [MemberRequests -> Request] /\ reqs[r] = IdleRequest
        /\ \A q \in MemberRequests : reqs[q] = request[q] \/ reqs[q].op \notin MemberOps
    BY <1>t, <1>i, IdleIsSound
  <2>2. request' = Lose(reqs, r, MemberOps, {w}) \/ request' = reqs
    BY <1>15 DEF UpdateRole, RemoveMember, Finish
  <2> HIDE DEF reqs
  <2>3. \A q \in MemberRequests, u \in Users : Threatens(q, u)' => Threatens(q, u)
    <3>1. request' = reqs => \A q \in MemberRequests, u \in Users : Threatens(q, u)' => Threatens(q, u)
      BY <2>1 DEF Threatens
    <3> QED BY <2>1, <2>2, <3>1, NoNewThreatByLoss
  <2>4. \A u \in Users : ~Threatens(r, u)'
    BY <1>i, <2>1, <2>2 DEF Lose, Threatens
  <2>5. ASSUME NEW u \in Users, membership[u].role = "owner", ~Threatens(r, u)
        PROVE  membership'[u].role = "owner"
    <3>1. CASE u # w \/ ~request[r].live
      BY <1>15, <1>t, <2>5, <3>1 DEF UpdateRole, RemoveMember
    <3>2. CASE u = w /\ request[r].live
      <4>1. request[r].role = "owner"
        BY <1>15, <2>5, <3>2 DEF UpdateRole, RemoveMember, In, Threatens, MemberOps
      <4>2. UpdateRole(r)
        BY <1>15, <1>t, <1>r, <4>1 DEF RemoveMember, In, Sound, Roles, InternalRoles
      <4>3. membership' = [membership EXCEPT ![w].role = "owner"]
        BY <3>2, <4>1, <4>2 DEF UpdateRole
      <4> QED BY <1>t, <3>2, <4>3 DEF MemberDoc
    <3> QED BY <3>1, <3>2
  <2>6. ASSUME NEW q \in MemberRequests, q \notin raced', NEW v \in Users,
               Threatens(q, v)', membership'[v].role = "owner"
        PROVE  q \notin raced /\ Threatens(q, v) /\ membership[v].role = "owner"
    <3>1. q # r /\ Threatens(q, v)
      BY <2>3, <2>4, <2>6
    <3>2. q \notin raced
      BY <1>15, <2>6, <3>1 DEF UpdateRole, RemoveMember
    <3>3. CASE membership[v].role # "owner"
      <4>1. UpdateRole(r) /\ request[r].live /\ v = w /\ request[r].role = "owner"
        <5>1. CASE UpdateRole(r)
          <6>1. /\ request[r].live /\ w \in Users
                /\ membership' = [membership EXCEPT ![w].role = request[r].role]
            BY <1>t, <2>6, <3>3, <5>1 DEF UpdateRole, Sound, In
          <6> QED BY <1>t, <2>6, <3>3, <5>1, <6>1 DEF MemberDoc
        <5>2. CASE RemoveMember(r)
          BY <1>n, <1>t, <2>6, <3>3, <5>2 DEF RemoveMember, NoMember
        <5> QED BY <1>15, <5>1, <5>2
      <4>2. q \in Rivals(r, {w})
        BY <3>1, <4>1 DEF Rivals, Threatens
      <4>3. q \in raced'
        BY <3>1, <4>1, <4>2 DEF UpdateRole
      <4> QED BY <2>6, <4>3
    <3> QED BY <3>1, <3>2, <3>3
  <2>7. ASSUME NEW q \in MemberRequests, q \notin raced', NEW v \in Users,
               Threatens(q, v)', membership'[v].role = "owner"
        PROVE  \E u \in Users \ {v} : /\ membership'[u].role = "owner"
                                      /\ \A p \in MemberRequests : ~Threatens(p, u)'
    <3>1. PICK u \in Users \ {v} : /\ membership[u].role = "owner"
                                  /\ \A p \in MemberRequests : ~Threatens(p, u)
      BY <2>6, <2>7 DEF SafeOwner
    <3> QED BY <2>3, <2>5, <3>1
  <2> QED BY <2>7 DEF SafeOwner
<1>16. ASSUME NEW u \in Users, RevokeContact(u) PROVE SafeOwner'
  <2>1. \A w \in Users : membership[w].role = "owner" => membership'[w].role = "owner"
    BY <1>16, <1>t DEF RevokeContact
  <2>2. \A w \in Users : membership'[w].role = "owner" => membership[w].role = "owner"
    BY <1>16, <1>n, <1>t DEF RevokeContact, NoMember
  <2> QED BY <1>16, <1>t, <2>1, <2>2, NoNewThreatByLoss, OwnersLeftAlone
          DEF RevokeContact, memberHistory
<1>17. ASSUME NEW r \in MemberRequests, RevokeAllAccess(r) PROVE SafeOwner'
  <2> DEFINE c == request[r].client
             it == AfterSweep(r)
             reqs == [request EXCEPT ![r] = it]
  <2>1. it \in Request /\ it.op \notin MemberOps
    BY <1>17, AfterSweepSound DEF RevokeAllAccess
  <2>2. request' = Lose(reqs, r, MemberOps, ContactsOf(c))
    BY <1>17 DEF RevokeAllAccess, AfterSweep
  <2> HIDE DEF it
  <2>3. /\ reqs \in [MemberRequests -> Request]
        /\ \A q \in MemberRequests : reqs[q] = request[q] \/ reqs[q].op \notin MemberOps
    BY <1>t, <2>1
  <2> HIDE DEF reqs
  <2>4. \A w \in Users : membership[w].role = "owner" => membership'[w].role = "owner"
    BY <1>17, <1>t DEF RevokeAllAccess, ContactsOf
  <2>5. \A w \in Users : membership'[w].role = "owner" => membership[w].role = "owner"
    BY <1>17, <1>n, <1>t DEF RevokeAllAccess, NoMember
  <2> QED BY <1>17, <2>2, <2>3, <2>4, <2>5, NoNewThreatByLoss, OwnersLeftAlone DEF RevokeAllAccess
<1>18. ASSUME NEW c \in Clients, CreateClient(c) \/ RestoreClient(c) PROVE SafeOwner'
  BY <1>18 DEF CreateClient, RestoreClient, SafeOwner, Threatens, memberHistory
<1>19. CASE UNCHANGED memberVars
  BY <1>19 DEF memberVars, SafeOwner, Threatens
<1>20. "role" \in MemberOps /\ "remove" \in MemberOps
  BY DEF MemberOps
<1> QED
  BY <1>3, <1>4, <1>5, <1>6, <1>7, <1>8, <1>9, <1>10, <1>11, <1>12, <1>13, <1>14, <1>15,
     <1>16, <1>17, <1>18, <1>19, <1>20
     DEF MemberNext, InvitationNext, StaffNext, ClientNext

-----------------------------------------------------------------------------
(* Clients that are archived or deleted.                                   *)

\* What a deletion has established for its client so far.
DeletionUnderWay ==
    \A r \in MemberRequests : request[r].op = "delete" =>
        /\ request[r].pc \in {"detach", "drop"} => ContactsOf(request[r].client) \subseteq late
        /\ request[r].pc = "drop" /\ siteClient = request[r].client => Website \in late

ClosedClients == ArchivedClientIsClosed /\ NothingOutlivesDeletion /\ DeletionUnderWay

\* A step that binds nobody to a client and forgets nothing of what was late
\* keeps what deletions and finished ones established.
LEMMA NobodyBound ==
    ASSUME NothingOutlivesDeletion, DeletionUnderWay,
           \A c \in Clients : ContactsOf(c)' \subseteq ContactsOf(c),
           late \subseteq late', siteClient' = siteClient \/ siteClient' = None,
           \A c \in Clients : client'[c] = "deleted" => client[c] = "deleted",
           \A r \in MemberRequests : request'[r].op = "delete" =>
               \/ request'[r] = request[r]
               \/ request'[r].pc \notin {"detach", "drop"},
           \A r \in MemberRequests : request'[r].op = "delete" => request'[r].client \in Clients
    PROVE  NothingOutlivesDeletion' /\ DeletionUnderWay'
<1>1. NothingOutlivesDeletion'
  BY MembershipAssumption DEF NothingOutlivesDeletion
<1>2. DeletionUnderWay'
  BY MembershipAssumption DEF DeletionUnderWay
<1> QED BY <1>1, <1>2

\* The same of archived clients.
LEMMA NoneReopened ==
    ASSUME ArchivedClientIsClosed,
           \A c \in Clients : ContactsOf(c)' \subseteq ContactsOf(c),
           late \cap Users \subseteq late', unswept \subseteq unswept',
           \A c \in Clients : client'[c] = "archived" => client[c] = "archived",
           \A r \in MemberRequests : In(r, "archive", "sweep") =>
               request'[r] = request[r] \/ request[r].client \in unswept'
    PROVE  ArchivedClientIsClosed'
BY DEF ArchivedClientIsClosed, In, ContactsOf

\* The requests a step leaves alone: no sweep is cut off, and no deletion
\* gets further.
Passive ==
    \A q \in MemberRequests :
        /\ request'[q].op = "delete" =>
              request'[q] = request[q] \/ request'[q].pc \notin {"detach", "drop"}
        /\ In(q, "archive", "sweep") => request'[q] = request[q]

LEMMA PassiveByReplacement ==
    ASSUME MemberShape, NEW r \in MemberRequests, NEW it, request' = [request EXCEPT ![r] = it],
           it.op = "delete" => it.pc \notin {"detach", "drop"}, ~In(r, "archive", "sweep")
    PROVE  Passive
BY DEF Passive, MemberShape, MemberTypeOK

LEMMA PassiveByFinish ==
    ASSUME MemberShape, NEW r \in MemberRequests, Finish(r), ~In(r, "archive", "sweep")
    PROVE  Passive
<1>1. IdleRequest.op # "delete"
  BY DEF IdleRequest
<1> QED BY <1>1, PassiveByReplacement DEF Finish

LEMMA PassiveByStep ==
    ASSUME MemberShape, NEW r \in MemberRequests, NEW pc, Step(r, pc),
           request[r].op # "delete", ~In(r, "archive", "sweep")
    PROVE  Passive
<1> DEFINE it == [request[r] EXCEPT !.pc = pc]
<1>1. it.op = request[r].op
  BY DEF MemberShape, MemberTypeOK, Request
<1>2. request' = [request EXCEPT ![r] = it]
  BY DEF Step
<1> HIDE DEF it
<1> QED BY <1>1, <1>2, PassiveByReplacement

LEMMA PassiveByLoss ==
    ASSUME NEW r, NEW ops, NEW users, "archive" \notin ops, "delete" \notin ops,
           NEW reqs \in [MemberRequests -> Request], request' = Lose(reqs, r, ops, users),
           \A q \in MemberRequests :
               \/ reqs[q] = request[q]
               \/ reqs[q].op # "delete" /\ ~In(q, "archive", "sweep")
    PROVE  Passive
<1> SUFFICES ASSUME NEW q \in MemberRequests
             PROVE  /\ request'[q].op = "delete" =>
                          request'[q] = request[q] \/ request'[q].pc \notin {"detach", "drop"}
                    /\ In(q, "archive", "sweep") => request'[q] = request[q]
  BY DEF Passive
<1>1. request'[q] = reqs[q] \/
      (reqs[q].op \in ops /\ request'[q] = [reqs[q] EXCEPT !.live = FALSE])
  BY DEF Lose
<1>2. request'[q].op = reqs[q].op
  BY <1>1 DEF Request
<1> QED BY <1>1, <1>2 DEF In

\* A step of this kind that binds nobody keeps every promise about clients.
LEMMA QuietStep ==
    ASSUME MemberShape', ClosedClients, Passive,
           \A c \in Clients : ContactsOf(c)' \subseteq ContactsOf(c),
           UNCHANGED <<client, siteClient, unswept, late>>
    PROVE  ClosedClients'
<1>1. \A q \in MemberRequests : request'[q].op = "delete" => request'[q].client \in Clients
  BY DEF MemberShape, SoundRequests, Sound
<1>2. NothingOutlivesDeletion' /\ DeletionUnderWay'
  BY <1>1, NobodyBound DEF ClosedClients, Passive
<1>3. ArchivedClientIsClosed'
  BY NoneReopened DEF ClosedClients, Passive
<1> QED BY <1>2, <1>3 DEF ClosedClients

LEMMA ClosedClientsStep ==
    MemberShape /\ MemberShape' /\ ClosedClients /\ [MemberNext]_memberVars => ClosedClients'
<1> SUFFICES ASSUME MemberShape, MemberShape', ClosedClients, [MemberNext]_memberVars
             PROVE  ClosedClients'
  OBVIOUS
<1>t. /\ membership \in [Users -> MemberDoc] /\ request \in [MemberRequests -> Request]
      /\ client \in [Clients -> {"none", "active", "archived", "deleted"}]
      /\ \A q \in MemberRequests : request[q] \in Request /\ Sound(request[q], membership, client)
  BY DEF MemberShape, MemberTypeOK, SoundRequests, MemberDoc
<1>a. None \notin Clients /\ None \notin Roles /\ Website \notin Users
  BY MembershipAssumption DEF Website
<1>s. ASSUME UNCHANGED membership PROVE \A c \in Clients : ContactsOf(c)' \subseteq ContactsOf(c)
  BY <1>s DEF ContactsOf
<1>1. ASSUME NEW r \in MemberRequests, NEW it, Start(r, it),
             it.op = "delete" => it.pc \notin {"detach", "drop"},
             UNCHANGED <<membership, client, siteClient, unswept, late>>
      PROVE  ClosedClients'
  <2>1. Passive
    BY <1>1, PassiveByReplacement DEF Start, In
  <2> QED BY <1>1, <1>s, <2>1, QuietStep
<1>2. ASSUME NEW r \in MemberRequests,
             \/ \E u \in Users, role \in InvitedRoles : BeginInvite(r, u, role)
             \/ \E c \in Clients, u \in Users : BeginInviteContact(r, c, u)
             \/ \E u \in Users : BeginAccept(r, u)
             \/ \E u \in Users, op \in MemberOps : \E role : BeginMemberChange(r, op, u, role)
             \/ \E c \in Clients : BeginArchive(r, c) \/ BeginDeleteClient(r, c)
                                       \/ BeginAssignWebsite(r, c)
      PROVE  ClosedClients'
  <2>1. \E it : Start(r, it) /\ (it.op = "delete" => it.pc \notin {"detach", "drop"})
    <3>1. ASSUME NEW u \in Users, NEW role \in InvitedRoles, BeginInvite(r, u, role)
          PROVE  \E it : Start(r, it) /\ it.op # "delete"
      <4>1. [IdleRequest EXCEPT !.op = "invite", !.pc = "write", !.user = u,
                                !.role = role].op = "invite"
        BY DEF IdleRequest
      <4> QED BY <3>1, <4>1 DEF BeginInvite
    <3>2. ASSUME NEW c \in Clients, NEW u \in Users, BeginInviteContact(r, c, u)
          PROVE  \E it : Start(r, it) /\ it.op # "delete"
      <4>1. [IdleRequest EXCEPT !.op = "invite", !.pc = "write", !.user = u,
                                    !.role = "client", !.client = c].op = "invite"
        BY DEF IdleRequest
      <4> QED BY <3>2, <4>1 DEF BeginInviteContact
    <3>3. ASSUME NEW u \in Users, BeginAccept(r, u)
          PROVE  \E it : Start(r, it) /\ it.op # "delete"
      <4>1. [IdleRequest EXCEPT !.op = "accept", !.user = u,
                                    !.pc = IF IsMember(u) THEN "mark" ELSE "write",
                                    !.role = invitation[u].role,
                                    !.client = invitation[u].client].op = "accept"
        BY DEF IdleRequest
      <4> QED BY <3>3, <4>1 DEF BeginAccept
    <3>4. ASSUME NEW u \in Users, NEW op \in MemberOps, NEW role,
                 BeginMemberChange(r, op, u, role)
          PROVE  \E it : Start(r, it) /\ it.op # "delete"
      <4> DEFINE pc == IF membership[u].role = "owner" /\ role # "owner" THEN "check" ELSE "write"
                 it == [IdleRequest EXCEPT !.op = op, !.pc = pc, !.user = u, !.role = role]
      <4>1. it.op = op
        BY DEF IdleRequest
      <4> HIDE DEF it
      <4>2. Start(r, it)
        BY <3>4 DEF BeginMemberChange, it
      <4> QED BY <4>1, <4>2 DEF MemberOps
    <3>5. ASSUME NEW c \in Clients, BeginArchive(r, c)
          PROVE  \E it : Start(r, it) /\ it.op # "delete"
      <4>1. [IdleRequest EXCEPT !.op = "archive", !.pc = "write", !.client = c,
                                !.swept = client[c] = "archived"].op = "archive"
        BY DEF IdleRequest
      <4> QED BY <3>5, <4>1 DEF BeginArchive
    <3>6. ASSUME NEW c \in Clients, BeginAssignWebsite(r, c)
          PROVE  \E it : Start(r, it) /\ it.op # "delete"
      <4>1. [IdleRequest EXCEPT !.op = "assign", !.pc = "write", !.client = c].op = "assign"
        BY DEF IdleRequest
      <4> QED BY <3>6, <4>1 DEF BeginAssignWebsite
    <3>7. ASSUME NEW c \in Clients, BeginDeleteClient(r, c)
          PROVE  \E it : Start(r, it) /\ it.pc \notin {"detach", "drop"}
      <4>1. [IdleRequest EXCEPT !.op = "delete", !.pc = "sweep", !.client = c].pc = "sweep"
        BY DEF IdleRequest
      <4> QED BY <3>7, <4>1 DEF BeginDeleteClient
    <3> QED BY <1>2, <3>1, <3>2, <3>3, <3>4, <3>5, <3>6, <3>7
  <2>2. UNCHANGED <<membership, client, siteClient, unswept, late>>
    BY <1>2 DEF BeginInvite, BeginInviteContact, BeginAccept, BeginMemberChange,
                BeginArchive, BeginDeleteClient, BeginAssignWebsite, memberHistory
  <2> QED BY <1>1, <2>1, <2>2
<1>3. ASSUME NEW r \in MemberRequests, WriteInvitation(r) \/ AssertNotLastOwner(r)
      PROVE  ClosedClients'
  <2>1. Passive
    BY <1>3, PassiveByFinish, PassiveByStep DEF WriteInvitation, AssertNotLastOwner, In, MemberOps
  <2>2. UNCHANGED <<membership, client, siteClient, unswept, late>>
    BY <1>3 DEF WriteInvitation, AssertNotLastOwner, memberHistory
  <2> QED BY <1>s, <2>1, <2>2, QuietStep
<1>4. ASSUME NEW u \in Users, RevokeInvitation(u) \/ RevokeContact(u) PROVE ClosedClients'
  <2>1. Passive
    BY <1>4, <1>t, PassiveByLoss DEF RevokeInvitation, RevokeContact, MemberOps
  <2>2. \A c \in Clients : ContactsOf(c)' \subseteq ContactsOf(c)
    BY <1>4, <1>t, <1>a DEF RevokeInvitation, RevokeContact, ContactsOf, NoMember
  <2>3. UNCHANGED <<client, siteClient, unswept, late>>
    BY <1>4 DEF RevokeInvitation, RevokeContact, memberHistory
  <2> QED BY <2>1, <2>2, <2>3, QuietStep
<1>5. ASSUME NEW r \in MemberRequests, MarkAccepted(r) \/ RemoveMember(r)
      PROVE  ClosedClients'
  <2> DEFINE reqs == [request EXCEPT ![r] = IdleRequest]
  <2>1. /\ reqs \in [MemberRequests -> Request]
        /\ \A q \in MemberRequests : reqs[q] = request[q] \/ (q = r /\ reqs[q].op = "idle")
    BY <1>t, IdleIsSound DEF IdleRequest
  <2>2. /\ \/ request' = Lose(reqs, r, {"accept"}, {request[r].user})
           \/ request' = Lose(reqs, r, MemberOps, {request[r].user})
           \/ Finish(r)
        /\ ~In(r, "archive", "sweep")
    BY <1>5 DEF MarkAccepted, RemoveMember, In
  <2> HIDE DEF reqs
  <2>3. Passive
    BY <2>1, <2>2, PassiveByLoss, PassiveByFinish DEF MemberOps
  <2>4. \A c \in Clients : ContactsOf(c)' \subseteq ContactsOf(c)
    BY <1>5, <1>t, <1>a DEF MarkAccepted, RemoveMember, ContactsOf, NoMember
  <2>5. UNCHANGED <<client, siteClient, unswept, late>>
    BY <1>5 DEF MarkAccepted, RemoveMember, memberHistory
  <2> QED BY <2>3, <2>4, <2>5, QuietStep
\* A role is changed only of a member who is bound to no client.
<1>6. ASSUME NEW r \in MemberRequests, UpdateRole(r) PROVE ClosedClients'
  <2>1. Passive
    BY <1>6, PassiveByFinish DEF UpdateRole, In
  <2>2. \A c \in Clients : ContactsOf(c)' \subseteq ContactsOf(c)
    <3>1. CASE ~request[r].live
      BY <1>6, <1>s, <3>1 DEF UpdateRole
    <3>2. CASE request[r].live
      <4> DEFINE u == request[r].user
                 doc == [membership[u] EXCEPT !.role = request[r].role]
      <4>1. u \in Users /\ membership[u].client = None
        BY <1>6, <1>t, <3>2 DEF UpdateRole, In, Sound, MemberOps
      <4>2. doc.client = None
        BY <1>t, <4>1 DEF MemberDoc
      <4>3. membership' = [membership EXCEPT ![u] = doc]
        BY <1>6, <3>2 DEF UpdateRole
      <4> HIDE DEF doc
      <4> QED BY <1>t, <1>a, <4>1, <4>2, <4>3 DEF ContactsOf
    <3> QED BY <3>1, <3>2
  <2>3. UNCHANGED <<client, siteClient, unswept, late>>
    BY <1>6 DEF UpdateRole
  <2> QED BY <2>1, <2>2, <2>3, QuietStep
\* A contact who joins a client that is being closed is late.
<1>7. ASSUME NEW r \in MemberRequests, AddMember(r) PROVE ClosedClients'
  <2> DEFINE u == request[r].user
             b == request[r].client
             doc == [role |-> request[r].role, client |-> b]
  <2>1. Passive
    BY <1>7, PassiveByFinish, PassiveByStep DEF AddMember, In
  <2>2. UNCHANGED <<client, siteClient, unswept>>
    BY <1>7 DEF AddMember
  <2>3. CASE IsMember(u)
    BY <1>7, <1>s, <2>1, <2>2, <2>3, QuietStep DEF AddMember
  <2>4. CASE ~IsMember(u)
    <3>1. /\ membership' = [membership EXCEPT ![u] = doc]
          /\ late' = IF Closing(b) THEN late \cup {u} ELSE late \ {u}
          /\ u \in Users
      BY <1>7, <1>t, <2>4 DEF AddMember, In, Sound
    <3>2. doc.client = b
      OBVIOUS
    <3> HIDE DEF doc
    <3>3. ASSUME NEW c \in Clients, ContactsOf(c) \subseteq late, c = b => Closing(b)
          PROVE  ContactsOf(c)' \subseteq late'
      BY <1>t, <1>a, <2>4, <3>1, <3>2, <3>3 DEF ContactsOf, IsMember
    <3>4. Website \in late => Website \in late'
      BY <1>a, <3>1
    <3>5. ArchivedClientIsClosed'
      BY <2>1, <2>2, <3>3, <1>a DEF ClosedClients, ArchivedClientIsClosed, Closing, Passive, In
    <3>6. NothingOutlivesDeletion'
      BY <2>2, <3>3, <3>4, <1>a DEF ClosedClients, NothingOutlivesDeletion, Closing
    <3>7. DeletionUnderWay'
      BY <1>t, <2>1, <2>2, <3>3, <3>4, <1>a
         DEF ClosedClients, DeletionUnderWay, Closing, Passive, Sound
    <3> QED BY <3>5, <3>6, <3>7 DEF ClosedClients
  <2> QED BY <2>3, <2>4
<1>8. ASSUME NEW r \in MemberRequests, AssignWebsite(r) PROVE ClosedClients'
  <2> DEFINE b == request[r].client
  <2>1. Passive
    BY <1>8, PassiveByFinish DEF AssignWebsite, In
  <2>2. /\ UNCHANGED <<membership, client, unswept>>
        /\ siteClient' = b /\ b \in Clients
        /\ late' = IF Closing(b) THEN late \cup {Website} ELSE late \ {Website}
    BY <1>8, <1>t DEF AssignWebsite, In, Sound
  <2>3. \A c \in Clients : ContactsOf(c) \subseteq late => ContactsOf(c)' \subseteq late'
    BY <2>2, <1>a DEF ContactsOf
  <2>5. ArchivedClientIsClosed'
    BY <2>1, <2>2, <2>3 DEF ClosedClients, ArchivedClientIsClosed, Passive, In
  <2>6. NothingOutlivesDeletion'
    BY <2>2, <2>3, <1>a DEF ClosedClients, NothingOutlivesDeletion, Closing
  <2>7. DeletionUnderWay'
    <3> SUFFICES ASSUME NEW q \in MemberRequests, request'[q].op = "delete",
                        request'[q].pc \in {"detach", "drop"}
                 PROVE  /\ ContactsOf(request[q].client)' \subseteq late'
                        /\ request'[q].pc = "drop" /\ siteClient' = request'[q].client
                              => Website \in late'
      BY DEF DeletionUnderWay
    <3>1. request'[q] = request[q]
      BY <2>1 DEF Passive
    <3>2. request[q].client \in Clients
      BY <1>t, <3>1 DEF Sound
    <3>3. ContactsOf(request[q].client) \subseteq late
      BY <3>1 DEF ClosedClients, DeletionUnderWay
    <3>4. request[q].client = b => Closing(b)
      BY <3>1, <3>2, <1>a DEF Closing
    <3> QED BY <2>2, <2>3, <3>1, <3>2, <3>3, <3>4
  <2> QED BY <2>5, <2>6, <2>7 DEF ClosedClients
<1>9. ASSUME NEW c \in Clients, CreateClient(c) \/ RestoreClient(c) PROVE ClosedClients'
  <2>1. \A b \in Clients : client'[b] \in {"archived", "deleted"} => client'[b] = client[b]
    BY <1>9, <1>t DEF CreateClient, RestoreClient
  <2>2. UNCHANGED <<membership, siteClient, request, unswept, late>>
    BY <1>9 DEF CreateClient, RestoreClient, memberHistory
  <2> QED BY <2>1, <2>2
          DEF ClosedClients, ArchivedClientIsClosed, NothingOutlivesDeletion,
              DeletionUnderWay, ContactsOf, In
\* Archiving writes the status and then sweeps; a stale read skips the sweep.
<1>10. ASSUME NEW r \in MemberRequests, ArchiveClient(r) PROVE ClosedClients'
  <2> DEFINE b == request[r].client
  <2>1. b \in Clients /\ client[b] # "none"
    BY <1>10, <1>t DEF ArchiveClient, In, Sound
  <2>2. UNCHANGED <<membership, siteClient, late>>
    BY <1>10 DEF ArchiveClient
  <2>3. Passive
    BY <1>10, PassiveByFinish, PassiveByStep DEF ArchiveClient, In
  <2>4. CASE client[b] = "deleted"
    BY <1>10, <1>s, <2>2, <2>3, <2>4, QuietStep DEF ArchiveClient
  <2>5. CASE client[b] # "deleted"
    <3>1. /\ client' = [client EXCEPT ![b] = "archived"]
          /\ IF request[r].swept THEN Finish(r) ELSE Step(r, "sweep")
          /\ unswept' = IF request[r].swept /\ client[b] = "active"
                        THEN unswept \cup {b} ELSE unswept
      BY <1>10, <2>5 DEF ArchiveClient
    <3>2. \A c \in Clients : client'[c] = "deleted" => client[c] = "deleted"
      BY <1>t, <3>1
    <3>3. \A q \in MemberRequests : request'[q].op = "delete" => request'[q].client \in Clients
      BY DEF MemberShape, SoundRequests, Sound
    <3>4. NothingOutlivesDeletion' /\ DeletionUnderWay'
      BY <1>s, <2>2, <2>3, <3>2, <3>3, NobodyBound DEF ClosedClients, Passive
    <3>5. CASE request[r].swept
      <4>1. \A c \in Clients : client'[c] = "archived" => client[c] = "archived" \/ c \in unswept'
        BY <1>t, <2>1, <2>5, <3>1, <3>5
      <4> QED BY <2>2, <2>3, <3>1, <3>4, <4>1
              DEF ClosedClients, ArchivedClientIsClosed, Passive, In, ContactsOf
    <3>6. CASE ~request[r].swept
      <4> DEFINE it == [request[r] EXCEPT !.pc = "sweep"]
      <4>1. it.op = "archive" /\ it.pc = "sweep" /\ it.client = b
        BY <1>10, <1>t DEF ArchiveClient, In, Request
      <4>2. request' = [request EXCEPT ![r] = it]
        BY <3>1, <3>6 DEF Step
      <4> HIDE DEF it
      <4>3. In(r, "archive", "sweep")' /\ request'[r].client = b
        BY <1>t, <4>1, <4>2 DEF In
      <4>4. \A c \in Clients : client'[c] = "archived" => client[c] = "archived" \/ c = b
        BY <1>t, <3>1
      <4> QED BY <2>2, <2>3, <3>1, <3>4, <3>6, <4>3, <4>4
              DEF ClosedClients, ArchivedClientIsClosed, Passive, In, ContactsOf
    <3> QED BY <3>5, <3>6
  <2> QED BY <2>4, <2>5
\* The sweep leaves the client without contacts.
<1>11. ASSUME NEW r \in MemberRequests, RevokeAllAccess(r) PROVE ClosedClients'
  <2> DEFINE b == request[r].client
             it == AfterSweep(r)
             reqs == [request EXCEPT ![r] = it]
  <2>1. /\ it \in Request
        /\ it.op = "delete" => it.client = b /\ it.pc = "detach"
    <3>1. CASE request[r].op = "archive"
      BY <3>1, IdleIsSound DEF AfterSweep, IdleRequest
    <3>2. CASE request[r].op # "archive"
      BY <1>t, <3>2 DEF AfterSweep, Request
    <3> QED BY <3>1, <3>2
  <2>2. /\ request' = Lose(reqs, r, MemberOps, ContactsOf(b))
        /\ membership' = [u \in Users |-> IF u \in ContactsOf(b) THEN NoMember ELSE membership[u]]
        /\ unswept' = unswept \ {b}
        /\ UNCHANGED <<client, siteClient, late>>
    BY <1>11 DEF RevokeAllAccess, AfterSweep
  <2> HIDE DEF it
  <2>3. \A c \in Clients : ContactsOf(c)' \subseteq ContactsOf(c) \ ContactsOf(b)
    BY <1>t, <1>a, <2>2 DEF ContactsOf, NoMember
  <2>4. /\ request'[r] = it
        /\ \A q \in MemberRequests \ {r} :
              request[q].op \in {"archive", "delete"} => request'[q] = request[q]
        /\ \A q \in MemberRequests \ {r} : request'[q].op = request[q].op
    BY <1>t, <2>1, <2>2 DEF Lose, MemberOps, Request
  <2>5. ArchivedClientIsClosed'
    BY <2>2, <2>3, <2>4 DEF ClosedClients, ArchivedClientIsClosed, In
  <2>6. NothingOutlivesDeletion'
    BY <2>2, <2>3 DEF ClosedClients, NothingOutlivesDeletion
  <2>7. DeletionUnderWay'
    <3> SUFFICES ASSUME NEW q \in MemberRequests, request'[q].op = "delete",
                        request'[q].pc \in {"detach", "drop"}
                 PROVE  /\ ContactsOf(request[q].client)' \subseteq late'
                        /\ request'[q].pc = "drop" /\ siteClient' = request'[q].client
                              => Website \in late'
      BY DEF DeletionUnderWay
    <3>1. CASE q = r
      <4>1. request'[r].client = b /\ request'[r].pc = "detach" /\ b \in Clients
        BY <1>11, <1>t, <2>1, <2>4, <3>1 DEF RevokeAllAccess, Sound
      <4> QED BY <2>3, <3>1, <4>1
    <3>2. CASE q # r
      <4>1. request'[q] = request[q] /\ request[q].client \in Clients
        BY <1>t, <2>4, <3>2 DEF Sound
      <4> QED BY <2>2, <2>3, <4>1 DEF ClosedClients, DeletionUnderWay
    <3> QED BY <3>1, <3>2
  <2> QED BY <2>5, <2>6, <2>7 DEF ClosedClients
<1>12. ASSUME NEW r \in MemberRequests, DetachClient(r) PROVE ClosedClients'
  <2> DEFINE b == request[r].client
             it == [request[r] EXCEPT !.pc = "drop"]
  <2>1. it.op = "delete" /\ it.client = b /\ it.pc = "drop" /\ b \in Clients
        /\ request[r].op = "delete" /\ request[r].pc = "detach"
    BY <1>12, <1>t DEF DetachClient, In, Request, Sound
  <2>2. /\ request' = [request EXCEPT ![r] = it]
        /\ siteClient' = IF siteClient = b THEN None ELSE siteClient
        /\ UNCHANGED <<membership, client, unswept, late>>
    BY <1>12 DEF DetachClient, Step, memberHistory
  <2> HIDE DEF it
  <2>3. /\ request'[r] = it
        /\ \A q \in MemberRequests \ {r} : request'[q] = request[q]
    BY <1>t, <2>2
  <2>4. \A c \in Clients : ContactsOf(c)' = ContactsOf(c)
    BY <2>2 DEF ContactsOf
  <2>5. ArchivedClientIsClosed'
    BY <2>1, <2>2, <2>3, <2>4 DEF ClosedClients, ArchivedClientIsClosed, In
  <2>6. NothingOutlivesDeletion'
    BY <2>2, <2>4, <1>a DEF ClosedClients, NothingOutlivesDeletion
  <2>7. DeletionUnderWay'
    BY <1>t, <2>1, <2>2, <2>3, <2>4, <1>a DEF ClosedClients, DeletionUnderWay, Sound
  <2> QED BY <2>5, <2>6, <2>7 DEF ClosedClients
<1>13. ASSUME NEW r \in MemberRequests, DeleteClient(r) PROVE ClosedClients'
  <2> DEFINE b == request[r].client
  <2>1. b \in Clients /\ request[r].op = "delete" /\ request[r].pc = "drop"
    BY <1>13, <1>t DEF DeleteClient, In, Sound
  <2>2. /\ client' = [client EXCEPT ![b] = "deleted"] /\ Finish(r)
        /\ UNCHANGED <<membership, siteClient, unswept, late>>
    BY <1>13 DEF DeleteClient, memberHistory
  <2>3. Passive
    BY <2>1, <2>2, PassiveByFinish DEF In
  <2>4. \A c \in Clients : ContactsOf(c)' = ContactsOf(c)
    BY <2>2 DEF ContactsOf
  <2>5. ArchivedClientIsClosed'
    BY <1>t, <2>2, <2>3, <2>4 DEF ClosedClients, ArchivedClientIsClosed, Passive, In
  <2>6. NothingOutlivesDeletion'
    BY <1>t, <2>1, <2>2, <2>4 DEF ClosedClients, NothingOutlivesDeletion, DeletionUnderWay
  <2>7. DeletionUnderWay'
    BY <1>t, <2>2, <2>3, <2>4 DEF ClosedClients, DeletionUnderWay, Passive, Sound
  <2> QED BY <2>5, <2>6, <2>7 DEF ClosedClients
<1>14. ASSUME NEW r \in MemberRequests, RequestDies(r) PROVE ClosedClients'
  <2>1. /\ UNCHANGED <<membership, client, siteClient, late>> /\ Finish(r)
        /\ unswept' = IF In(r, "archive", "sweep") THEN unswept \cup {request[r].client}
                      ELSE unswept
    BY <1>14 DEF RequestDies
  <2>2. /\ request'[r].op = "idle"
        /\ \A q \in MemberRequests \ {r} : request'[q] = request[q]
    BY <1>t, <2>1 DEF Finish, IdleRequest
  <2>3. \A c \in Clients : ContactsOf(c)' = ContactsOf(c)
    BY <2>1 DEF ContactsOf
  <2>4. ArchivedClientIsClosed'
    BY <2>1, <2>2, <2>3 DEF ClosedClients, ArchivedClientIsClosed, In
  <2>5. NothingOutlivesDeletion'
    BY <2>1, <2>3 DEF ClosedClients, NothingOutlivesDeletion
  <2>6. DeletionUnderWay'
    BY <1>t, <2>1, <2>2, <2>3 DEF ClosedClients, DeletionUnderWay, Sound
  <2> QED BY <2>4, <2>5, <2>6 DEF ClosedClients
<1>15. CASE UNCHANGED memberVars
  BY <1>15 DEF memberVars, ClosedClients, ArchivedClientIsClosed, NothingOutlivesDeletion,
               DeletionUnderWay, ContactsOf, In
<1>16. "role" \in MemberOps /\ "remove" \in MemberOps
  BY DEF MemberOps
<1> QED
  BY <1>2, <1>3, <1>4, <1>5, <1>6, <1>7, <1>8, <1>9, <1>10, <1>11, <1>12, <1>13, <1>14,
     <1>15, <1>16
     DEF MemberNext, InvitationNext, StaffNext, ClientNext

-----------------------------------------------------------------------------
(* The theorems.                                                           *)

LEMMA MemberInvariant == MemberSpec => [](MemberShape /\ SafeOwner /\ ClosedClients)
<1>1. MemberInit => SafeOwner /\ ClosedClients
  <2> SUFFICES ASSUME MemberInit PROVE SafeOwner /\ ClosedClients
    OBVIOUS
  <2>1. /\ \A q \in MemberRequests : request[q].op = "idle"
        /\ membership[Founder].role = "owner" /\ Founder \in Users
        /\ \A c \in Clients : client[c] = "none"
    BY MembershipAssumption DEF MemberInit, IdleRequest
  <2> QED BY <2>1 DEF SafeOwner, Threatens, MemberOps, ClosedClients, ArchivedClientIsClosed,
                      NothingOutlivesDeletion, DeletionUnderWay
<1> QED BY <1>1, MemberShapeInit, MemberShapeStep, SafeOwnerStep, ClosedClientsStep, PTL
        DEF MemberSpec

\* Members, invitations, clients and the requests in flight have the types
\* the schemas give them.
THEOREM MemberTypeOKAlways == MemberSpec => []MemberTypeOK
BY MemberInvariant, PTL DEF MemberShape

\* Only the write of a role change or of a removal takes a role from an owner.
LEMMA OwnersStay ==
    ASSUME MemberShape, [MemberNext]_memberVars
    PROVE  \/ \A u \in Users : membership[u].role = "owner" => membership'[u].role = "owner"
           \/ \E r \in MemberRequests : UpdateRole(r) \/ RemoveMember(r)
<1>t. membership \in [Users -> MemberDoc] /\ "owner" # "client" /\ None # "owner"
  BY MembershipAssumption DEF MemberShape, MemberTypeOK, MemberDoc, Roles, InternalRoles
<1> DEFINE Stay == \A u \in Users : membership[u].role = "owner" => membership'[u].role = "owner"
<1>1. UNCHANGED membership => Stay
  OBVIOUS
<1>2. ASSUME NEW r \in MemberRequests, AddMember(r) PROVE Stay
  BY <1>2, <1>t DEF AddMember, IsMember
<1>3. ASSUME NEW u \in Users, RevokeContact(u) PROVE Stay
  BY <1>3, <1>t DEF RevokeContact
<1>4. ASSUME NEW r \in MemberRequests, RevokeAllAccess(r) PROVE Stay
  BY <1>4, <1>t DEF RevokeAllAccess, ContactsOf
<1>5. InvitationNext => UNCHANGED membership \/ \E r \in MemberRequests : AddMember(r)
  BY DEF InvitationNext, WriteInvitation, RevokeInvitation, BeginAccept, MarkAccepted, RequestDies
<1>6. StaffNext => UNCHANGED membership \/ \E r \in MemberRequests : UpdateRole(r) \/ RemoveMember(r)
  BY DEF StaffNext, BeginInvite, BeginMemberChange, AssertNotLastOwner
<1>7. ClientNext => \/ UNCHANGED membership
                    \/ \E u \in Users : RevokeContact(u)
                    \/ \E r \in MemberRequests : RevokeAllAccess(r)
  BY DEF ClientNext, CreateClient, RestoreClient, BeginInviteContact, BeginArchive, ArchiveClient,
         BeginDeleteClient, DetachClient, DeleteClient, BeginAssignWebsite, AssignWebsite
<1> HIDE DEF Stay
<1>8. Stay \/ \E r \in MemberRequests : UpdateRole(r) \/ RemoveMember(r)
  BY <1>1, <1>2, <1>3, <1>4, <1>5, <1>6, <1>7 DEF MemberNext, memberVars
<1> QED BY <1>8 DEF Stay

\* The organization loses its last owner only to a request that had counted the
\* owners along with another, for any number of users and requests, and whatever
\* promotions, demotions, removals and invitations overlap.
THEOREM OwnerRemainsAlways == MemberSpec => OwnerRemains
<1>1. MemberShape /\ SafeOwner /\ [MemberNext]_memberVars
        => [Owners # {} /\ Owners' = {} =>
               \E r \in raced : request[r].op \in MemberOps /\ request'[r].op = "idle"]_memberVars
  <2> SUFFICES ASSUME MemberShape, SafeOwner, [MemberNext]_memberVars, Owners # {}, Owners' = {}
               PROVE  \E r \in raced : request[r].op \in MemberOps /\ request'[r].op = "idle"
    OBVIOUS
  <2>1. \A u \in Users : membership'[u].role # "owner"
    BY DEF Owners
  <2>2. PICK v \in Users : membership[v].role = "owner"
    BY DEF Owners
  <2>3. PICK r \in MemberRequests : UpdateRole(r) \/ RemoveMember(r)
    BY <2>1, <2>2, OwnersStay
  <2>t. /\ membership \in [Users -> MemberDoc] /\ request \in [MemberRequests -> Request]
        /\ request[r] \in Request /\ Sound(request[r], membership, client)
    BY DEF MemberShape, MemberTypeOK, SoundRequests, MemberDoc
  <2>4. request[r].op \in MemberOps /\ request'[r].op = "idle"
    BY <2>3, <2>t DEF UpdateRole, RemoveMember, In, MemberOps, Finish, Lose, IdleRequest
  <2>5. \A u \in Users : membership[u].role = "owner" =>
            u = request[r].user /\ request[r].live /\ request[r].role # "owner"
    BY <2>1, <2>3, <2>t, MembershipAssumption
       DEF UpdateRole, RemoveMember, In, Sound, MemberDoc, Roles, InternalRoles
  <2>6. Threatens(r, v)
    BY <2>2, <2>3, <2>4, <2>5 DEF Threatens, UpdateRole, RemoveMember, In
  <2>7. r \in raced
    BY <2>2, <2>5, <2>6 DEF SafeOwner
  <2> QED BY <2>4, <2>7
<1> QED BY <1>1, MemberInvariant, PTL DEF MemberSpec, OwnerRemains

\* Once the sweep that follows the archiving of a client is over, no member
\* that was there before is still active as one of its contacts.
THEOREM ArchivedClientIsClosedAlways == MemberSpec => []ArchivedClientIsClosed
BY MemberInvariant, PTL DEF ClosedClients

\* Once a client is deleted, no member, invitation or website that was bound
\* to it before the deletion began is still bound to it.
THEOREM NothingOutlivesDeletionAlways == MemberSpec => []NothingOutlivesDeletion
BY MemberInvariant, PTL DEF ClosedClients

=============================================================================
