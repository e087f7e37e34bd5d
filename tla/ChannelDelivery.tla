-------------------------- MODULE ChannelDelivery --------------------------
(***************************************************************************)
(* Slack, Discord and webhook messages.  A transition queues one delivery  *)
(* document per subscribed channel; workers claim due deliveries under an  *)
(* expiring lease, post them, and settle or reschedule them.  The claim    *)
(* counts the attempt.                                                     *)
(*                                                                         *)
(* As in UptimeMonitoring, every database call and the post itself are     *)
(* steps of their own, "due" says that nextAttemptAt has passed, and a     *)
(* lease is absent, in the future or expired.                              *)
(***************************************************************************)
EXTENDS Naturals, FiniteSets

CONSTANTS
    Channels,      \* notification_channels documents
    ChannelEvents, \* transitions: an incident and the event that happened to it
    Workers,       \* slots that can run runChannelDelivery, in any process
    MaxAttempts,   \* options.maxAttempts
    AttemptCap,    \* bound of the model: no claim counts further than this
    ChannelFaults  \* of {"abandon", "overrun"}: a job that stops half way, and
                   \* an attempt that outlives its lease

ASSUME ChannelAssumption ==
    /\ MaxAttempts \in Nat \ {0}
    /\ AttemptCap \in Nat /\ AttemptCap > MaxAttempts
    /\ ChannelFaults \subseteq {"abandon", "overrun"}
    /\ IsFiniteSet(ChannelEvents)

VARIABLES
    channel,      \* the notification_channels collection
    delivery,     \* the channel_deliveries collection, by dedupe key
    publisher,    \* channels a publish has read and not yet queued for
    worker,       \* what each running attempt holds in memory
    channelPurge, \* deleted channels whose deliveries are still to be deleted
    arrived,      \* history: deliveries some receiver has accepted
    disturbed     \* history: deliveries with an attempt that was abandoned or
                  \* that outlived its lease

channelVars == <<channel, delivery, publisher, worker, channelPurge, arrived, disturbed>>

-----------------------------------------------------------------------------
(* The documents.  dedupeKey is <incident>:<event>:<channel>, so a pair of *)
(* a transition and a channel names a delivery.                            *)

Deliveries == ChannelEvents \X Channels

ChannelOf(d) == d[2]

Settled == {"delivered", "failed"}

Channel == [exists: BOOLEAN, enabled: BOOLEAN, failures: Nat]

Delivery == [status: {"none", "pending"} \cup Settled, attempts: 0 .. AttemptCap,
             due: BOOLEAN, lease: {"none", "held", "expired"}]

NoDelivery == [status |-> "none", attempts |-> 0, due |-> FALSE, lease |-> "none"]

Queued == [NoDelivery EXCEPT !.status = "pending", !.due = TRUE]

Results == {"delivered", "retry", "failed", "dropped"}

IdleWorker == [pc |-> "idle"]

Attempting(k, d) == worker[k].pc # "idle" /\ worker[k].delivery = d

Worker ==
    {IdleWorker} \cup
    [pc: {"read", "post"}, delivery: Deliveries, attempt: 1 .. AttemptCap] \cup
    [pc: {"settle", "record"}, delivery: Deliveries, result: Results]

ChannelTypeOK ==
    /\ channel \in [Channels -> Channel]
    /\ delivery \in [Deliveries -> Delivery]
    /\ publisher \in [ChannelEvents -> SUBSET Channels]
    /\ worker \in [Workers -> Worker]
    /\ channelPurge \subseteq Channels
    /\ arrived \subseteq Deliveries
    /\ disturbed \subseteq Deliveries

ChannelInit ==
    /\ channel = [c \in Channels |-> [exists |-> TRUE, enabled |-> TRUE, failures |-> 0]]
    /\ delivery = [d \in Deliveries |-> NoDelivery]
    /\ publisher = [e \in ChannelEvents |-> {}]
    /\ worker = [k \in Workers |-> IdleWorker]
    /\ channelPurge = {}
    /\ arrived = {}
    /\ disturbed = {}

-----------------------------------------------------------------------------
(* Publishing.                                                             *)

\* The enabled channels that subscribe to the event and that the plan still
\* covers, read before any of them is queued for.  A replayed job publishes
\* again.
ReadSubscribers(e) ==
    /\ publisher[e] = {}
    /\ \E subscribed \in SUBSET {c \in Channels : channel[c].exists /\ channel[c].enabled} :
           publisher' = [publisher EXCEPT ![e] = subscribed]
    /\ UNCHANGED <<channel, delivery, worker, channelPurge, arrived, disturbed>>

\* The unique index on dedupeKey turns a second insert into a no-op.
Enqueued(d) == IF delivery[d].status = "none" THEN Queued ELSE delivery[d]

EnqueueDelivery(e, c) ==
    /\ c \in publisher[e]
    /\ publisher' = [publisher EXCEPT ![e] = @ \ {c}]
    /\ delivery' = [delivery EXCEPT ![<<e, c>>] = Enqueued(<<e, c>>)]
    /\ UNCHANGED <<channel, worker, channelPurge, arrived, disturbed>>

\* An insert that throws, or a process that dies, leaves the remaining
\* channels without a delivery.
PublishAborts(e) ==
    /\ "abandon" \in ChannelFaults
    /\ publisher[e] # {}
    /\ publisher' = [publisher EXCEPT ![e] = {}]
    /\ UNCHANGED <<channel, delivery, worker, channelPurge, arrived, disturbed>>

-----------------------------------------------------------------------------
(* One attempt.                                                            *)

ClaimableDelivery(d) ==
    /\ delivery[d].status = "pending"
    /\ delivery[d].due
    /\ delivery[d].lease # "held"

\* Due, claimed and counted are one findOneAndUpdate.
ClaimDelivery(k, d) ==
    /\ worker[k].pc = "idle"
    /\ ClaimableDelivery(d)
    /\ delivery[d].attempts < AttemptCap
    /\ delivery' = [delivery EXCEPT ![d].lease = "held", ![d].attempts = @ + 1]
    /\ worker' = [worker EXCEPT ![k] = [pc |-> "read", delivery |-> d,
                                        attempt |-> delivery[d].attempts + 1]]
    /\ UNCHANGED <<channel, publisher, channelPurge, arrived, disturbed>>

Settling(k, result) ==
    [worker EXCEPT ![k] = [pc |-> "settle", delivery |-> worker[k].delivery,
                           result |-> result]]

\* Mutant: a channel that is gone or switched off just ends the attempt.
ForgottenWhenOff(k) == [worker EXCEPT ![k] = IdleWorker]

\* A channel that is gone or switched off fails the delivery.
WhenOff(k) == Settling(k, "dropped")

\* The channel's stored credentials may be unreadable: that is a failure of
\* the channel, and counts as one.
ReadChannel(k) ==
    LET c == channel[ChannelOf(worker[k].delivery)]
    IN  /\ worker[k].pc = "read"
        /\ IF ~c.exists \/ ~c.enabled
           THEN worker' = WhenOff(k)
           ELSE \/ worker' = [worker EXCEPT ![k].pc = "post"]
                \/ worker' = Settling(k, "failed")
        /\ UNCHANGED <<channel, delivery, publisher, channelPurge, arrived, disturbed>>

\* The receiver's answer: a 2xx; no answer after it accepted the message; no
\* answer, a 408, 429 or 5xx without; or a refusal that will not change.
Answers == {"accepted", "unanswered", "retryable", "refused"}

\* Mutant: an attempt is retried as long as its number is within the limit.
ResultOneMore(answer, attempt) ==
    CASE answer = "accepted" -> "delivered"
      [] answer \in {"unanswered", "retryable"} /\ attempt <= MaxAttempts -> "retry"
      [] OTHER -> "failed"

\* Mutant: whatever the receiver did not refuse counts as delivered.
ResultOptimistic(answer, attempt) ==
    IF answer = "refused" THEN "failed" ELSE "delivered"

ResultOf(answer, attempt) ==
    CASE answer = "accepted" -> "delivered"
      [] answer \in {"unanswered", "retryable"} /\ attempt < MaxAttempts -> "retry"
      [] OTHER -> "failed"

Post(k, answer) ==
    /\ worker[k].pc = "post"
    /\ arrived' = IF answer \in {"accepted", "unanswered"}
                  THEN arrived \cup {worker[k].delivery}
                  ELSE arrived
    /\ worker' = Settling(k, ResultOf(answer, worker[k].attempt))
    /\ UNCHANGED <<channel, delivery, publisher, channelPurge, disturbed>>

\* Mutant: the result is written as the status, whatever it is called.
OutcomeAsNamed(d, result) ==
    [delivery[d] EXCEPT !.lease = "none", !.due = FALSE,
                        !.status = IF result = "retry" THEN "pending" ELSE result]

OutcomeOf(d, result) ==
    IF result = "retry"
    THEN [delivery[d] EXCEPT !.lease = "none", !.due = FALSE]
    ELSE [delivery[d] EXCEPT !.lease = "none", !.due = FALSE,
                             !.status = IF result = "delivered" THEN "delivered"
                                                                ELSE "failed"]

\* Mutant: settled by id alone, without the condition on the status.
SettledUnconditionally(d, result) == OutcomeOf(d, result)

\* markDelivered, scheduleRetry and markFailed are conditioned on the delivery
\* still being pending, and on nothing about the lease.
SettledAs(d, result) ==
    IF delivery[d].status = "pending" THEN OutcomeOf(d, result) ELSE delivery[d]

\* Mutant: a retry is recorded on the channel as well.
RecordsEveryResult(result) == result # "dropped"

\* Only a settled outcome of the channel's own is recorded on it.
Records(result) == result \in {"delivered", "failed"}

Settle(k) ==
    LET d == worker[k].delivery
        result == worker[k].result
    IN  /\ worker[k].pc = "settle"
        /\ delivery' = [delivery EXCEPT ![d] = SettledAs(d, result)]
        /\ worker' = [worker EXCEPT ![k] = IF Records(result)
                                           THEN [@ EXCEPT !.pc = "record"]
                                           ELSE IdleWorker]
        /\ UNCHANGED <<channel, publisher, channelPurge, arrived, disturbed>>

RecordOutcome(k) ==
    LET c == ChannelOf(worker[k].delivery)
    IN  /\ worker[k].pc = "record"
        /\ channel' = IF ~channel[c].exists THEN channel
                      ELSE [channel EXCEPT ![c].failures =
                              IF worker[k].result = "delivered" THEN 0 ELSE @ + 1]
        /\ worker' = [worker EXCEPT ![k] = IdleWorker]
        /\ UNCHANGED <<delivery, publisher, channelPurge, arrived, disturbed>>

-----------------------------------------------------------------------------
(* Time and faults.                                                        *)

RetryBecomesDue(d) ==
    /\ delivery[d].status = "pending"
    /\ ~delivery[d].due
    /\ delivery' = [delivery EXCEPT ![d].due = TRUE]
    /\ UNCHANGED <<channel, publisher, worker, channelPurge, arrived, disturbed>>

\* A lease runs out under a dead attempt, or, as a fault, under a live one.
DeliveryLeaseExpires(d) ==
    LET live == \E k \in Workers : Attempting(k, d)
    IN  /\ delivery[d].lease = "held"
        /\ live => "overrun" \in ChannelFaults
        /\ delivery' = [delivery EXCEPT ![d].lease = "expired"]
        /\ disturbed' = IF live THEN disturbed \cup {d} ELSE disturbed
        /\ UNCHANGED <<channel, publisher, worker, channelPurge, arrived>>

\* The process dies, or a database call throws: either way nothing more is
\* written, and the lease is left to expire.
Abandon(k) ==
    /\ "abandon" \in ChannelFaults
    /\ worker[k].pc # "idle"
    /\ worker' = [worker EXCEPT ![k] = IdleWorker]
    /\ disturbed' = disturbed \cup {worker[k].delivery}
    /\ UNCHANGED <<channel, delivery, publisher, channelPurge, arrived>>

-----------------------------------------------------------------------------
(* The API.                                                                *)

SetChannelEnabled(c, enabled) ==
    /\ channel[c].exists
    /\ channel[c].enabled # enabled
    /\ channel' = [channel EXCEPT ![c].enabled = enabled]
    /\ UNCHANGED <<delivery, publisher, worker, channelPurge, arrived, disturbed>>

\* The channel goes first, what is queued for it in a second call.
DeleteChannel(c) ==
    /\ channel[c].exists
    /\ channel' = [channel EXCEPT ![c].exists = FALSE]
    /\ channelPurge' = channelPurge \cup {c}
    /\ UNCHANGED <<delivery, publisher, worker, arrived, disturbed>>

DeleteDeliveries(c) ==
    /\ c \in channelPurge
    /\ channelPurge' = channelPurge \ {c}
    /\ delivery' = [d \in Deliveries |-> IF ChannelOf(d) = c THEN NoDelivery
                                                             ELSE delivery[d]]
    /\ UNCHANGED <<channel, publisher, worker, arrived, disturbed>>

-----------------------------------------------------------------------------
(* The specification.                                                      *)

Attempt(k) ==
    \/ ReadChannel(k)
    \/ \E answer \in Answers : Post(k, answer)
    \/ Settle(k)
    \/ RecordOutcome(k)

ChannelNext ==
    \/ \E e \in ChannelEvents :
          \/ ReadSubscribers(e)
          \/ \E c \in Channels : EnqueueDelivery(e, c)
          \/ PublishAborts(e)
    \/ \E k \in Workers :
          \/ \E d \in Deliveries : ClaimDelivery(k, d)
          \/ Attempt(k)
          \/ Abandon(k)
    \/ \E d \in Deliveries : RetryBecomesDue(d) \/ DeliveryLeaseExpires(d)
    \/ \E c \in Channels :
          \/ \E enabled \in BOOLEAN : SetChannelEnabled(c, enabled)
          \/ DeleteChannel(c)
          \/ DeleteDeliveries(c)

ChannelSpec == ChannelInit /\ [][ChannelNext]_channelVars

\* Live attempts go on, time passes, and the loop claims the delivery that has
\* been due longest first.
ChannelFairness ==
    /\ \A k \in Workers : WF_channelVars(Attempt(k))
    /\ \A d \in Deliveries : /\ WF_channelVars(RetryBecomesDue(d))
                             /\ WF_channelVars(DeliveryLeaseExpires(d))
                             /\ SF_channelVars(\E k \in Workers : ClaimDelivery(k, d))

ChannelFairSpec == ChannelSpec /\ ChannelFairness

-----------------------------------------------------------------------------
(* Properties.                                                             *)

\* "A delivery settled by one process cannot be reopened by another that held
\* an expired lease on it", nor by publishing the transition again: once
\* settled, the document stays as it is until its channel is deleted.
SettledOnce ==
    [][\A d \in Deliveries :
          delivery[d].status \in Settled =>
              \/ delivery'[d] = delivery[d]
              \/ ChannelOf(d) \in channelPurge]_channelVars

\* "The delivery log is always an honest account": what it calls delivered has
\* been accepted by the receiver.
HonestLog ==
    \A d \in Deliveries : delivery[d].status = "delivered" => d \in arrived

\* The retry limit is kept by every delivery whose attempts all ran to their
\* end within their leases.
AttemptsAccounted ==
    \A d \in Deliveries :
        d \notin disturbed => delivery[d].attempts <= MaxAttempts

\* "consecutiveFailures counts messages that never arrived": it never exceeds
\* the number of the channel's deliveries that failed, as long as each of them
\* was attempted by one worker at a time.
FailuresCounted ==
    \A c \in Channels :
        channel[c].exists /\ (\A e \in ChannelEvents : <<e, c>> \notin disturbed) =>
            channel[c].failures <=
                Cardinality({e \in ChannelEvents : delivery[<<e, c>>].status = "failed"})

\* "A delivery that crashes the process runs out": no delivery is attempted
\* more than MaxAttempts times.
RunsOut == \A d \in Deliveries : delivery[d].attempts <= MaxAttempts

\* Every queued message is settled, or deleted with its channel, unless an
\* attempt at it was disturbed.
EventuallySettled ==
    \A d \in Deliveries : []<>(delivery[d].status # "pending" \/ d \in disturbed)

=============================================================================
