----------------------- MODULE ChannelDeliveryProofs -----------------------
(***************************************************************************)
(* Proofs about the channel queue, for every set of channels, transitions  *)
(* and workers, any attempt limit, and abandoned and overrunning attempts. *)
(***************************************************************************)
EXTENDS ChannelDelivery, FiniteSetTheorems, TLAPS

-----------------------------------------------------------------------------
(* Types.                                                                  *)

\* What a step may read of one working worker.
LEMMA WorkerFields ==
    ASSUME ChannelTypeOK, NEW k \in Workers
    PROVE  /\ worker[k].pc \in {"read", "post"} =>
                  /\ worker[k].delivery \in Deliveries
                  /\ worker[k].attempt \in 1 .. AttemptCap
           /\ worker[k].pc \in {"settle", "record"} =>
                  /\ worker[k].delivery \in Deliveries
                  /\ worker[k].result \in Results
           /\ worker[k].pc \in {"idle", "read", "post", "settle", "record"}
<1>1. worker[k] \in Worker
  BY DEF ChannelTypeOK
<1> QED BY <1>1 DEF Worker, IdleWorker

\* The documents a delivery starts as, before and after it is queued.
LEMMA NewDocumentsType == NoDelivery \in Delivery /\ Queued \in Delivery
<1>1. 0 \in 0 .. AttemptCap
  BY ChannelAssumption
<1>2. NoDelivery \in Delivery
  BY <1>1 DEF NoDelivery, Delivery
<1> QED BY <1>2 DEF Queued, Delivery

\* Whatever a settling attempt writes is a delivery document.
LEMMA SettledType ==
    ASSUME ChannelTypeOK, NEW d \in Deliveries, NEW result \in Results
    PROVE  SettledAs(d, result) \in Delivery
<1>1. delivery[d] \in Delivery
  BY DEF ChannelTypeOK
<1> QED BY <1>1 DEF SettledAs, OutcomeOf, Delivery, Settled

\* A worker that goes on to settle.
LEMMA SettlingType ==
    ASSUME ChannelTypeOK, NEW k \in Workers, NEW result \in Results,
           worker[k].delivery \in Deliveries
    PROVE  Settling(k, result) \in [Workers -> Worker]
<1> DEFINE w == [pc |-> "settle", delivery |-> worker[k].delivery, result |-> result]
<1>1. w \in Worker
  BY DEF Worker
<1>2. Settling(k, result) = [worker EXCEPT ![k] = w]
  BY DEF Settling
<1> HIDE DEF w
<1> QED BY <1>1, <1>2 DEF ChannelTypeOK

\* Every state the queue can start in is well typed.
LEMMA InitTypeOK == ChannelInit => ChannelTypeOK
BY ChannelAssumption
   DEF ChannelInit, ChannelTypeOK, Channel, Delivery, NoDelivery, Worker, IdleWorker, Deliveries

\* Every step keeps the types.
LEMMA TypeStep == ChannelTypeOK /\ [ChannelNext]_channelVars => ChannelTypeOK'
<1> SUFFICES ASSUME ChannelTypeOK, [ChannelNext]_channelVars PROVE ChannelTypeOK'
  OBVIOUS
<1>i. IdleWorker \in Worker
  BY DEF Worker
<1>1. ASSUME NEW e \in ChannelEvents, ReadSubscribers(e) PROVE ChannelTypeOK'
  BY <1>1 DEF ReadSubscribers, ChannelTypeOK
<1>2. ASSUME NEW e \in ChannelEvents, NEW c \in Channels, EnqueueDelivery(e, c) PROVE ChannelTypeOK'
  <2>1. <<e, c>> \in Deliveries
    BY DEF Deliveries
  <2>2. Enqueued(<<e, c>>) \in Delivery
    BY <2>1, NewDocumentsType DEF Enqueued, ChannelTypeOK
  <2> QED BY <1>2, <2>1, <2>2 DEF EnqueueDelivery, ChannelTypeOK
<1>3. ASSUME NEW e \in ChannelEvents, PublishAborts(e) PROVE ChannelTypeOK'
  BY <1>3 DEF PublishAborts, ChannelTypeOK
<1>4. ASSUME NEW k \in Workers, NEW d \in Deliveries, ClaimDelivery(k, d) PROVE ChannelTypeOK'
  <2> DEFINE next == delivery[d].attempts + 1
             doc == [delivery[d] EXCEPT !.lease = "held", !.attempts = next]
             w == [pc |-> "read", delivery |-> d, attempt |-> next]
  <2>1. delivery[d] \in Delivery
    BY DEF ChannelTypeOK
  <2>2. next \in 1 .. AttemptCap /\ next \in 0 .. AttemptCap
    BY <1>4, <2>1, ChannelAssumption DEF ClaimDelivery, Delivery
  <2>5. delivery' = [delivery EXCEPT ![d] = doc] /\ worker' = [worker EXCEPT ![k] = w]
    BY <1>4 DEF ClaimDelivery
  <2> HIDE DEF next
  <2>3. doc \in Delivery
    BY <2>1, <2>2 DEF Delivery
  <2>4. w \in Worker
    BY <2>2 DEF Worker
  <2> HIDE DEF doc, w
  <2> QED BY <1>4, <2>3, <2>4, <2>5 DEF ClaimDelivery, ChannelTypeOK
<1>5. ASSUME NEW k \in Workers, ReadChannel(k) PROVE ChannelTypeOK'
  <2>1. worker[k].pc = "read"
    BY <1>5 DEF ReadChannel
  <2>2. worker[k].delivery \in Deliveries /\ worker[k].attempt \in 1 .. AttemptCap
    BY <2>1, WorkerFields
  <2>3. Settling(k, "dropped") \in [Workers -> Worker] /\
        Settling(k, "failed") \in [Workers -> Worker]
    BY <2>2, SettlingType DEF Results
  <2>4. [worker EXCEPT ![k].pc = "post"] \in [Workers -> Worker]
    <3>1. worker[k] \in [pc: {"read", "post"}, delivery: Deliveries,
                         attempt: 1 .. AttemptCap]
      BY <2>1 DEF ChannelTypeOK, Worker, IdleWorker
    <3>2. [worker[k] EXCEPT !.pc = "post"] \in Worker
      BY <3>1 DEF Worker
    <3> QED BY <3>2 DEF ChannelTypeOK
  <2>5. worker' \in [Workers -> Worker]
    BY <1>5, <2>3, <2>4 DEF ReadChannel, WhenOff
  <2> QED BY <1>5, <2>5 DEF ReadChannel, ChannelTypeOK
<1>6. ASSUME NEW k \in Workers, NEW answer \in Answers, Post(k, answer) PROVE ChannelTypeOK'
  <2>1. worker[k].delivery \in Deliveries
    BY <1>6, WorkerFields DEF Post
  <2>2. ResultOf(answer, worker[k].attempt) \in Results
    BY DEF ResultOf, Results
  <2>3. worker' \in [Workers -> Worker]
    BY <1>6, <2>1, <2>2, SettlingType DEF Post
  <2> QED BY <1>6, <2>1, <2>3 DEF Post, ChannelTypeOK
<1>7. ASSUME NEW k \in Workers, Settle(k) PROVE ChannelTypeOK'
  <2>1. worker[k].delivery \in Deliveries /\ worker[k].result \in Results
    BY <1>7, WorkerFields DEF Settle
  <2>2. delivery' \in [Deliveries -> Delivery]
    BY <1>7, <2>1, SettledType DEF Settle, ChannelTypeOK
  <2>3. worker[k] \in [pc: {"settle", "record"}, delivery: Deliveries, result: Results]
    BY <1>7 DEF Settle, ChannelTypeOK, Worker, IdleWorker
  <2>4. [worker[k] EXCEPT !.pc = "record"] \in Worker
    BY <2>3 DEF Worker
  <2>5. worker' \in [Workers -> Worker]
    BY <1>7, <1>i, <2>4 DEF Settle, ChannelTypeOK
  <2> QED BY <1>7, <2>2, <2>5 DEF Settle, ChannelTypeOK
<1>8. ASSUME NEW k \in Workers, RecordOutcome(k) PROVE ChannelTypeOK'
  <2>1. worker[k].delivery \in Deliveries
    BY <1>8, WorkerFields DEF RecordOutcome
  <2>2. ChannelOf(worker[k].delivery) \in Channels
    BY <2>1 DEF Deliveries, ChannelOf
  <2>3. channel' \in [Channels -> Channel]
    BY <1>8, <2>2 DEF RecordOutcome, ChannelTypeOK, Channel
  <2> QED BY <1>8, <1>i, <2>3 DEF RecordOutcome, ChannelTypeOK
<1>9. ASSUME NEW d \in Deliveries, RetryBecomesDue(d) PROVE ChannelTypeOK'
  BY <1>9 DEF RetryBecomesDue, ChannelTypeOK, Delivery
<1>10. ASSUME NEW d \in Deliveries, DeliveryLeaseExpires(d) PROVE ChannelTypeOK'
  BY <1>10 DEF DeliveryLeaseExpires, ChannelTypeOK, Delivery
<1>11. ASSUME NEW k \in Workers, Abandon(k) PROVE ChannelTypeOK'
  <2>1. worker[k].delivery \in Deliveries
    BY <1>11, WorkerFields DEF Abandon
  <2> QED BY <1>11, <1>i, <2>1 DEF Abandon, ChannelTypeOK
<1>12. ASSUME NEW c \in Channels, NEW enabled \in BOOLEAN, SetChannelEnabled(c, enabled)
       PROVE  ChannelTypeOK'
  BY <1>12 DEF SetChannelEnabled, ChannelTypeOK, Channel
<1>13. ASSUME NEW c \in Channels, DeleteChannel(c) PROVE ChannelTypeOK'
  BY <1>13 DEF DeleteChannel, ChannelTypeOK, Channel
<1>14. ASSUME NEW c \in Channels, DeleteDeliveries(c) PROVE ChannelTypeOK'
  <2> QED BY <1>14, NewDocumentsType DEF DeleteDeliveries, ChannelTypeOK
<1>15. CASE UNCHANGED channelVars
  BY <1>15 DEF channelVars, ChannelTypeOK
<1> QED
  BY <1>1, <1>2, <1>3, <1>4, <1>5, <1>6, <1>7, <1>8, <1>9, <1>10, <1>11, <1>12,
     <1>13, <1>14, <1>15 DEF ChannelNext, Attempt

\* Every state is well typed, and no claim counts further than the cap.
THEOREM TypeCorrectness == ChannelSpec => []ChannelTypeOK
BY InitTypeOK, TypeStep, PTL DEF ChannelSpec

-----------------------------------------------------------------------------
(* The log.                                                                *)

\* An attempt that is about to write "delivered" was answered by a receiver.
HonestAttempts ==
    \A k \in Workers :
        worker[k].pc = "settle" /\ worker[k].result = "delivered"
            => worker[k].delivery \in arrived

\* Every step keeps the log and the attempts honest: only an accepted post
\* ends in "delivered", and what a receiver has accepted stays accepted.
LEMMA HonestStep ==
    ChannelTypeOK /\ HonestLog /\ HonestAttempts /\ [ChannelNext]_channelVars => HonestLog' /\ HonestAttempts'
<1> SUFFICES ASSUME ChannelTypeOK, HonestLog, HonestAttempts, [ChannelNext]_channelVars
             PROVE  HonestLog' /\ HonestAttempts'
  OBVIOUS
<1>1. ASSUME NEW e \in ChannelEvents, ReadSubscribers(e) \/ PublishAborts(e)
      PROVE  HonestLog' /\ HonestAttempts'
  BY <1>1 DEF ReadSubscribers, PublishAborts, HonestLog, HonestAttempts
<1>2. ASSUME NEW e \in ChannelEvents, NEW c \in Channels, EnqueueDelivery(e, c)
      PROVE  HonestLog' /\ HonestAttempts'
  BY <1>2 DEF EnqueueDelivery, Enqueued, Queued, NoDelivery, ChannelTypeOK, HonestLog, HonestAttempts
<1>3. ASSUME NEW k \in Workers, NEW d \in Deliveries, ClaimDelivery(k, d)
      PROVE  HonestLog' /\ HonestAttempts'
  <2>1. \A b \in Deliveries : delivery'[b].status = delivery[b].status
    BY <1>3 DEF ClaimDelivery, ChannelTypeOK, Delivery
  <2> QED BY <1>3, <2>1 DEF ClaimDelivery, ChannelTypeOK, HonestLog, HonestAttempts
<1>4. ASSUME NEW k \in Workers, ReadChannel(k) PROVE HonestLog' /\ HonestAttempts'
  <2>1. HonestLog'
    BY <1>4 DEF ReadChannel, HonestLog
  <2>2. worker'[k].pc = "settle" => worker'[k].result # "delivered"
    <3>1. worker[k] \in [pc: {"read", "post"}, delivery: Deliveries,
                         attempt: 1 .. AttemptCap]
      BY <1>4 DEF ReadChannel, ChannelTypeOK, Worker, IdleWorker
    <3>2. \/ worker' = Settling(k, "dropped")
          \/ worker' = Settling(k, "failed")
          \/ worker' = [worker EXCEPT ![k].pc = "post"]
      BY <1>4 DEF ReadChannel, WhenOff
    <3> QED BY <3>1, <3>2 DEF Settling, ChannelTypeOK
  <2>3. \A l \in Workers : l # k => worker'[l] = worker[l]
    BY <1>4 DEF ReadChannel, WhenOff, Settling, ChannelTypeOK
  <2> QED BY <1>4, <2>1, <2>2, <2>3 DEF ReadChannel, HonestAttempts
<1>5. ASSUME NEW k \in Workers, NEW answer \in Answers, Post(k, answer)
      PROVE  HonestLog' /\ HonestAttempts'
  <2>1. arrived \subseteq arrived'
    BY <1>5 DEF Post
  <2>2. HonestLog'
    BY <1>5, <2>1 DEF Post, HonestLog
  <2>3. /\ worker'[k].delivery = worker[k].delivery
        /\ worker'[k].result = ResultOf(answer, worker[k].attempt)
        /\ \A l \in Workers : l # k => worker'[l] = worker[l]
    BY <1>5 DEF Post, Settling, ChannelTypeOK
  <2>4. ResultOf(answer, worker[k].attempt) = "delivered" => answer = "accepted"
    BY DEF ResultOf
  <2>5. answer = "accepted" => worker[k].delivery \in arrived'
    BY <1>5 DEF Post
  <2> QED BY <2>1, <2>2, <2>3, <2>4, <2>5 DEF HonestAttempts
<1>6. ASSUME NEW k \in Workers, Settle(k) PROVE HonestLog' /\ HonestAttempts'
  <2> DEFINE d == worker[k].delivery
             result == worker[k].result
  <2>1. d \in Deliveries /\ result \in Results
    BY <1>6, WorkerFields DEF Settle
  <2>2. delivery' = [delivery EXCEPT ![d] = SettledAs(d, result)] /\ arrived' = arrived
    BY <1>6 DEF Settle
  <2>3. SettledAs(d, result).status = "delivered" =>
            delivery[d].status = "delivered" \/ result = "delivered"
    <3>1. delivery[d] \in Delivery
      BY <2>1 DEF ChannelTypeOK
    <3> QED BY <3>1 DEF SettledAs, OutcomeOf, Delivery
  <2>4. result = "delivered" => d \in arrived
    BY <1>6 DEF Settle, HonestAttempts
  <2>5. HonestLog'
    <3> HIDE DEF d, result
    <3> QED BY <2>1, <2>2, <2>3, <2>4 DEF HonestLog, ChannelTypeOK
  <2>6. HonestAttempts'
    BY <1>6 DEF Settle, HonestAttempts, IdleWorker, ChannelTypeOK
  <2> QED BY <2>5, <2>6
<1>7. ASSUME NEW k \in Workers, RecordOutcome(k) \/ Abandon(k)
      PROVE  HonestLog' /\ HonestAttempts'
  BY <1>7 DEF RecordOutcome, Abandon, HonestLog, HonestAttempts, IdleWorker, ChannelTypeOK
<1>8. ASSUME NEW d \in Deliveries, RetryBecomesDue(d) \/ DeliveryLeaseExpires(d)
      PROVE  HonestLog' /\ HonestAttempts'
  <2>1. \A b \in Deliveries : delivery'[b].status = delivery[b].status
    BY <1>8 DEF RetryBecomesDue, DeliveryLeaseExpires, ChannelTypeOK, Delivery
  <2> QED BY <1>8, <2>1 DEF RetryBecomesDue, DeliveryLeaseExpires, HonestLog, HonestAttempts
<1>9. ASSUME NEW c \in Channels,
             DeleteChannel(c) \/ \E enabled \in BOOLEAN : SetChannelEnabled(c, enabled)
      PROVE  HonestLog' /\ HonestAttempts'
  BY <1>9 DEF SetChannelEnabled, DeleteChannel, HonestLog, HonestAttempts
<1>10. ASSUME NEW c \in Channels, DeleteDeliveries(c) PROVE HonestLog' /\ HonestAttempts'
  BY <1>10 DEF DeleteDeliveries, NoDelivery, HonestLog, HonestAttempts
<1>11. CASE UNCHANGED channelVars
  BY <1>11 DEF channelVars, HonestLog, HonestAttempts
<1> QED
  BY <1>1, <1>2, <1>3, <1>4, <1>5, <1>6, <1>7, <1>8, <1>9, <1>10, <1>11
     DEF ChannelNext, Attempt

\* "The delivery log is always an honest account": whatever the log calls
\* delivered has been accepted by its receiver.
THEOREM HonestLogAlways == ChannelSpec => []HonestLog
<1>1. ChannelInit => HonestLog /\ HonestAttempts
  BY DEF ChannelInit, HonestLog, HonestAttempts, NoDelivery, IdleWorker
<1> QED BY <1>1, HonestStep, TypeCorrectness, PTL DEF ChannelSpec

-----------------------------------------------------------------------------
(* Settled deliveries.                                                     *)

\* A lease is held, or was, only on a delivery that is still to be sent.
LeasedIsPending ==
    \A d \in Deliveries : delivery[d].lease # "none" => delivery[d].status = "pending"

\* Only a pending delivery is leased, and settling it ends its lease.
LEMMA LeasedStep == ChannelTypeOK /\ LeasedIsPending /\ [ChannelNext]_channelVars => LeasedIsPending'
<1> SUFFICES ASSUME ChannelTypeOK, LeasedIsPending, [ChannelNext]_channelVars PROVE LeasedIsPending'
  OBVIOUS
<1>1. ASSUME NEW e \in ChannelEvents, NEW c \in Channels, EnqueueDelivery(e, c) PROVE LeasedIsPending'
  <2>1. <<e, c>> \in Deliveries
    BY DEF Deliveries
  <2> QED BY <1>1, <2>1 DEF EnqueueDelivery, Enqueued, Queued, NoDelivery, ChannelTypeOK, LeasedIsPending
<1>2. ASSUME NEW k \in Workers, NEW d \in Deliveries, ClaimDelivery(k, d)
      PROVE  LeasedIsPending'
  BY <1>2 DEF ClaimDelivery, ClaimableDelivery, ChannelTypeOK, Delivery, LeasedIsPending
<1>3. ASSUME NEW k \in Workers, Settle(k) PROVE LeasedIsPending'
  <2> DEFINE d == worker[k].delivery
             result == worker[k].result
  <2>1. d \in Deliveries
    BY <1>3, WorkerFields DEF Settle
  <2>2. delivery' = [delivery EXCEPT ![d] = SettledAs(d, result)]
    BY <1>3 DEF Settle
  <2>3. SettledAs(d, result).lease # "none" => SettledAs(d, result) = delivery[d]
    <3>1. delivery[d] \in Delivery
      BY <2>1 DEF ChannelTypeOK
    <3> QED BY <3>1 DEF SettledAs, OutcomeOf, Delivery
  <2> HIDE DEF d, result
  <2> QED BY <2>1, <2>2, <2>3 DEF LeasedIsPending, ChannelTypeOK
<1>4. ASSUME NEW d \in Deliveries, RetryBecomesDue(d) \/ DeliveryLeaseExpires(d)
      PROVE  LeasedIsPending'
  BY <1>4 DEF RetryBecomesDue, DeliveryLeaseExpires, ChannelTypeOK, Delivery, LeasedIsPending
<1>5. ASSUME NEW c \in Channels, DeleteDeliveries(c) PROVE LeasedIsPending'
  BY <1>5 DEF DeleteDeliveries, NoDelivery, LeasedIsPending
<1>6. CASE UNCHANGED delivery
  BY <1>6 DEF LeasedIsPending
<1> QED
  BY <1>1, <1>2, <1>3, <1>4, <1>5, <1>6
     DEF ChannelNext, Attempt, ReadSubscribers, PublishAborts, ReadChannel, Post, RecordOutcome,
         Abandon, SetChannelEnabled, DeleteChannel, channelVars

\* "A delivery settled by one process cannot be reopened by another that held
\* an expired lease on it", nor by publishing again: a settled delivery stays
\* as it is until its channel is deleted.
THEOREM SettledOnceAlways == ChannelSpec => SettledOnce
<1>1. ASSUME ChannelTypeOK, LeasedIsPending, [ChannelNext]_channelVars
      PROVE  [\A d \in Deliveries :
                 delivery[d].status \in Settled =>
                     \/ delivery'[d] = delivery[d]
                     \/ ChannelOf(d) \in channelPurge]_channelVars
  <2> SUFFICES ASSUME ChannelNext, NEW d \in Deliveries, delivery[d].status \in Settled
               PROVE  delivery'[d] = delivery[d] \/ ChannelOf(d) \in channelPurge
    BY <1>1
  <2>0. delivery[d].status \notin {"none", "pending"} /\ delivery[d].lease = "none"
    BY <1>1 DEF Settled, LeasedIsPending
  <2>1. ASSUME NEW e \in ChannelEvents, NEW c \in Channels, EnqueueDelivery(e, c)
        PROVE  delivery'[d] = delivery[d]
    BY <1>1, <2>0, <2>1 DEF EnqueueDelivery, Enqueued, ChannelTypeOK
  <2>2. ASSUME NEW k \in Workers, NEW b \in Deliveries, ClaimDelivery(k, b)
        PROVE  delivery'[d] = delivery[d]
    BY <1>1, <2>0, <2>2 DEF ClaimDelivery, ClaimableDelivery, ChannelTypeOK
  <2>3. ASSUME NEW k \in Workers, Settle(k) PROVE delivery'[d] = delivery[d]
    BY <1>1, <2>0, <2>3 DEF Settle, SettledAs, ChannelTypeOK
  <2>4. ASSUME NEW b \in Deliveries, RetryBecomesDue(b) \/ DeliveryLeaseExpires(b)
        PROVE  delivery'[d] = delivery[d]
    BY <1>1, <2>0, <2>4 DEF RetryBecomesDue, DeliveryLeaseExpires, ChannelTypeOK
  <2>5. ASSUME NEW c \in Channels, DeleteDeliveries(c)
        PROVE  delivery'[d] = delivery[d] \/ ChannelOf(d) \in channelPurge
    BY <2>5 DEF DeleteDeliveries
  <2>6. CASE UNCHANGED delivery
    BY <2>6
  <2> QED
    BY <2>1, <2>2, <2>3, <2>4, <2>5, <2>6
       DEF ChannelNext, Attempt, ReadSubscribers, PublishAborts, ReadChannel, Post,
           RecordOutcome, Abandon, SetChannelEnabled, DeleteChannel, channelVars
<1>2. ChannelInit => LeasedIsPending
  BY DEF ChannelInit, LeasedIsPending, NoDelivery
<1> QED BY <1>1, <1>2, LeasedStep, TypeCorrectness, PTL DEF ChannelSpec, SettledOnce

-----------------------------------------------------------------------------
(* Attempts.                                                               *)

\* A worker that is still to settle the delivery, and one that is still to
\* record what it settled.
Active(k, d) == worker[k].pc \in {"read", "post", "settle"} /\ worker[k].delivery = d
Recording(k, d) == worker[k].pc = "record" /\ worker[k].delivery = d

\* Until its channel is gone and its documents with it, a delivery that no
\* fault has touched is in the hands of one worker at most, which holds the
\* lease and counted the last attempt.
Sole(d) ==
    /\ \A k, l \in Workers : Attempting(k, d) /\ Attempting(l, d) => k = l
    /\ \A k \in Workers : Active(k, d) =>
          /\ delivery[d].status = "pending" /\ delivery[d].lease = "held"
          /\ delivery[d].attempts >= 1
          /\ worker[k].pc \in {"read", "post"} => worker[k].attempt = delivery[d].attempts
          /\ worker[k].pc = "settle" /\ worker[k].result = "retry" =>
                delivery[d].attempts < MaxAttempts
    /\ \A k \in Workers : Recording(k, d) =>
          delivery[d].status = worker[k].result /\ worker[k].result \in Settled
    /\ delivery[d].status = "pending" /\ delivery[d].lease = "held" =>
          \E k \in Workers : Active(k, d)
    /\ delivery[d].status = "pending" /\ delivery[d].lease # "held" =>
          delivery[d].attempts < MaxAttempts
    /\ delivery[d].attempts <= MaxAttempts

\* A worker that may still give the delivery another attempt.
CanRetry(k, d) ==
    /\ worker[k].delivery = d
    /\ \/ worker[k].pc = "post" /\ worker[k].attempt < MaxAttempts
       \/ worker[k].pc = "settle" /\ worker[k].result = "retry"

\* The attempts of a delivery that was queued again after its channel was
\* deleted: its own, which finds no channel, and one more if a worker from
\* before asks for a retry.
Open(d) ==
    \/ delivery[d].status = "none"
    \/ delivery[d].status = "pending" /\ delivery[d].lease # "held"

Leftover(d) ==
    /\ \A k, l \in Workers : CanRetry(k, d) /\ CanRetry(l, d) => k = l
    /\ \A k \in Workers : CanRetry(k, d) => MaxAttempts >= 2
    /\ delivery[d].status = "pending" /\ delivery[d].lease = "held" =>
          \E k \in Workers : Active(k, d)
    /\ delivery[d].attempts <= IF MaxAttempts >= 2 THEN 2 ELSE 1
    /\ Open(d) \/ (\E k \in Workers : CanRetry(k, d)) =>
          delivery[d].attempts <= IF MaxAttempts >= 2 THEN 1 ELSE 0
    /\ Open(d) /\ (\E k \in Workers : CanRetry(k, d)) => delivery[d].attempts = 0

\* The channel is there, or what was queued for it is still to be deleted.
Kept(c) == channel[c].exists \/ c \in channelPurge

AttemptsInv ==
    /\ \A c \in channelPurge : ~channel[c].exists
    /\ \A d \in Deliveries \ disturbed :
          IF Kept(ChannelOf(d)) THEN Sole(d) ELSE Leftover(d)

LEMMA ChannelOfDelivery == \A d \in Deliveries : ChannelOf(d) \in Channels
BY DEF Deliveries, ChannelOf

LEMMA WorkerKinds ==
    ASSUME ChannelTypeOK, NEW k \in Workers
    PROVE  /\ worker[k].pc \in {"idle", "read", "post", "settle", "record"}
           /\ worker[k].pc = "idle" => worker[k] = IdleWorker
           /\ worker[k].pc \in {"read", "post"} =>
                 worker[k].attempt \in Nat /\ worker[k].attempt >= 1
           /\ worker[k].pc \in {"settle", "record"} => worker[k].result \in Results
<1>1. worker[k] \in Worker
  BY DEF ChannelTypeOK
<1> QED BY <1>1, ChannelAssumption DEF Worker, IdleWorker

\* What a step that has nothing to do with a delivery leaves as it was.
LEMMA DeliveryUntouched ==
    ASSUME ChannelTypeOK, NEW d \in Deliveries, delivery'[d].status = delivery[d].status,
           delivery'[d].attempts = delivery[d].attempts, delivery'[d].lease = delivery[d].lease,
           \A k \in Workers : worker'[k] = worker[k] \/ (~Attempting(k, d) /\ ~Attempting(k, d)')
    PROVE  (Sole(d) => Sole(d)') /\ (Leftover(d) => Leftover(d)')
<1>1. \A k \in Workers : (Attempting(k, d)' <=> Attempting(k, d)) /\ (Active(k, d)' <=> Active(k, d))
                         /\ (Recording(k, d)' <=> Recording(k, d))
                         /\ (CanRetry(k, d)' <=> CanRetry(k, d))
                         /\ (Attempting(k, d) => worker'[k] = worker[k])
  BY DEF Attempting, Active, Recording, CanRetry
<1>2. \A k \in Workers : (Active(k, d) => Attempting(k, d)) /\ (Recording(k, d) => Attempting(k, d))
  BY DEF Attempting, Active, Recording
<1> HIDE DEF Attempting, Active, Recording, CanRetry
<1> QED BY <1>1, <1>2 DEF Sole, Leftover, Open

\* One worker moves on, with the same delivery.
LEMMA OneMoves ==
    ASSUME ChannelTypeOK, NEW k \in Workers, NEW w, worker' = [worker EXCEPT ![k] = w]
    PROVE  worker'[k] = w /\ \A l \in Workers \ {k} : worker'[l] = worker[l]
BY DEF ChannelTypeOK

\* What each step of an attempt does to its worker.
LEMMA AttemptMoves ==
    ASSUME ChannelTypeOK, NEW k \in Workers, Attempt(k)
    PROVE  /\ \A l \in Workers \ {k} : worker'[l] = worker[l]
           /\ \/ /\ worker[k].pc = "read" /\ UNCHANGED <<delivery, channel>>
                 /\ channel[ChannelOf(worker[k].delivery)].exists
                 /\ worker'[k].pc = "post" /\ worker'[k].delivery = worker[k].delivery
                 /\ worker'[k].attempt = worker[k].attempt
              \/ /\ worker[k].pc = "read" /\ UNCHANGED <<delivery, channel>>
                 /\ worker'[k].pc = "settle" /\ worker'[k].delivery = worker[k].delivery
                 /\ worker'[k].result \in {"dropped", "failed"}
              \/ /\ worker[k].pc = "post" /\ UNCHANGED <<delivery, channel>>
                 /\ worker'[k].pc = "settle" /\ worker'[k].delivery = worker[k].delivery
                 /\ worker'[k].result = "retry" => worker[k].attempt < MaxAttempts
              \/ /\ worker[k].pc = "settle" /\ channel' = channel
                 /\ delivery' = [delivery EXCEPT ![worker[k].delivery] =
                                    SettledAs(worker[k].delivery, worker[k].result)]
                 /\ IF Records(worker[k].result)
                    THEN /\ worker'[k].pc = "record" /\ worker'[k].result = worker[k].result
                         /\ worker'[k].delivery = worker[k].delivery
                    ELSE worker'[k].pc = "idle"
              \/ /\ worker[k].pc = "record" /\ delivery' = delivery
                 /\ worker'[k].pc = "idle"
<1>t. worker[k] \in Worker /\ worker \in [Workers -> Worker]
  BY DEF ChannelTypeOK
<1>1. CASE ReadChannel(k)
  <2>1. worker[k] \in [pc: {"read", "post"}, delivery: Deliveries, attempt: 1 .. AttemptCap]
    BY <1>t, <1>1 DEF ReadChannel, Worker, IdleWorker
  <2>2. \/ worker' = Settling(k, "dropped") \/ worker' = Settling(k, "failed")
        \/ worker' = [worker EXCEPT ![k].pc = "post"] /\ channel[ChannelOf(worker[k].delivery)].exists
    BY <1>1 DEF ReadChannel, WhenOff
  <2>3. CASE worker' = Settling(k, "dropped") \/ worker' = Settling(k, "failed")
    BY <1>1, <1>t, <2>3 DEF Settling, ReadChannel
  <2>4. CASE /\ worker' = [worker EXCEPT ![k].pc = "post"]
             /\ channel[ChannelOf(worker[k].delivery)].exists
    BY <1>1, <1>t, <2>1, <2>4 DEF ReadChannel
  <2> QED BY <2>2, <2>3, <2>4
<1>2. ASSUME NEW answer \in Answers, Post(k, answer)
      PROVE  /\ \A l \in Workers \ {k} : worker'[l] = worker[l]
             /\ worker[k].pc = "post" /\ UNCHANGED <<delivery, channel>>
             /\ worker'[k].pc = "settle" /\ worker'[k].delivery = worker[k].delivery
             /\ worker'[k].result = "retry" => worker[k].attempt < MaxAttempts
  <2>1. worker' = Settling(k, ResultOf(answer, worker[k].attempt))
    BY <1>2 DEF Post
  <2>2. ResultOf(answer, worker[k].attempt) = "retry" => worker[k].attempt < MaxAttempts
    BY DEF ResultOf
  <2>3. /\ worker'[k].pc = "settle" /\ worker'[k].delivery = worker[k].delivery
        /\ worker'[k].result = ResultOf(answer, worker[k].attempt)
        /\ \A l \in Workers \ {k} : worker'[l] = worker[l]
    BY <1>t, <2>1 DEF Settling
  <2> QED BY <1>2, <2>2, <2>3 DEF Post
<1>3. CASE Settle(k)
  <2>1. worker[k] \in [pc: {"settle", "record"}, delivery: Deliveries, result: Results]
    BY <1>t, <1>3 DEF Settle, Worker, IdleWorker
  <2> QED BY <1>t, <1>3, <2>1 DEF Settle, IdleWorker
<1>4. CASE RecordOutcome(k)
  BY <1>t, <1>4 DEF RecordOutcome, IdleWorker
<1> QED BY <1>1, <1>2, <1>3, <1>4 DEF Attempt

\* Settling writes to a delivery that is still pending, and to no other.
LEMMA SettledWrites ==
    ASSUME ChannelTypeOK, NEW d \in Deliveries, NEW result \in Results
    PROVE  /\ SettledAs(d, result).attempts = delivery[d].attempts
           /\ delivery[d].status # "pending" => SettledAs(d, result) = delivery[d]
           /\ delivery[d].status = "pending" => SettledAs(d, result).lease = "none"
           /\ delivery[d].status = "pending" /\ result = "retry" =>
                 SettledAs(d, result).status = "pending"
           /\ delivery[d].status = "pending" /\ result # "retry" =>
                 SettledAs(d, result).status = IF result = "delivered" THEN "delivered" ELSE "failed"
<1>1. delivery[d] \in Delivery
  BY DEF ChannelTypeOK
<1> QED BY <1>1 DEF SettledAs, OutcomeOf, Delivery

LEMMA ClaimIsSole ==
    ASSUME ChannelTypeOK, NEW k \in Workers, NEW d \in Deliveries, Sole(d), ClaimDelivery(k, d)
    PROVE  Sole(d)'
<1> DEFINE w == [pc |-> "read", delivery |-> d, attempt |-> delivery[d].attempts + 1]
<1>1. /\ worker[k].pc = "idle" /\ worker'[k] = w
      /\ \A l \in Workers \ {k} : worker'[l] = worker[l]
  BY DEF ClaimDelivery, ChannelTypeOK
<1>2. /\ delivery[d].status = "pending" /\ delivery[d].lease # "held"
      /\ delivery'[d].status = "pending" /\ delivery'[d].lease = "held"
      /\ delivery[d].attempts \in Nat
      /\ delivery'[d].attempts = delivery[d].attempts + 1
  <2>1. delivery[d] \in Delivery /\ delivery \in [Deliveries -> Delivery]
    BY DEF ChannelTypeOK
  <2> DEFINE more == delivery[d].attempts + 1
             doc == [delivery[d] EXCEPT !.lease = "held", !.attempts = more]
  <2>2. delivery' = [delivery EXCEPT ![d] = doc]
    BY DEF ClaimDelivery
  <2> HIDE DEF more
  <2>3. /\ doc.status = delivery[d].status /\ doc.lease = "held" /\ doc.attempts = more
    BY <2>1 DEF Delivery
  <2> HIDE DEF doc
  <2>4. delivery'[d] = doc
    BY <2>1, <2>2
  <2>5. delivery[d].attempts \in Nat
    BY <2>1, ChannelAssumption DEF Delivery
  <2> QED BY <2>3, <2>4, <2>5 DEF ClaimDelivery, ClaimableDelivery, more
<1>3. \A l \in Workers : ~Attempting(l, d)
  BY <1>2, WorkerKinds DEF Sole, Attempting, Active, Recording, Settled
<1>4. \A l \in Workers : Attempting(l, d)' => l = k
  BY <1>1, <1>3 DEF Attempting
<1>5. delivery[d].attempts < MaxAttempts
  BY <1>2 DEF Sole
<1>6. delivery'[d].attempts <= MaxAttempts /\ delivery'[d].attempts >= 1
  BY <1>2, <1>5, ChannelAssumption
<1>7. Active(k, d)' /\ worker'[k].attempt = delivery'[d].attempts /\ worker'[k].pc = "read"
  BY <1>1, <1>2 DEF Active
<1>8. \A l \in Workers : (Active(l, d)' => l = k) /\ ~Recording(l, d)'
  BY <1>1, <1>4 DEF Active, Recording, Attempting
<1> HIDE DEF w
<1> QED BY <1>2, <1>4, <1>6, <1>7, <1>8 DEF Sole

\* The worker of a delivery is the only one that is not idle about it.
LEMMA SoleWorker ==
    ASSUME ChannelTypeOK, NEW d \in Deliveries, Sole(d), NEW k \in Workers, Attempting(k, d),
           \A l \in Workers \ {k} : worker'[l] = worker[l]
    PROVE  \A l \in Workers : Attempting(l, d)' \/ Active(l, d)' \/ Recording(l, d)' => l = k
BY DEF Sole, Attempting, Active, Recording

LEMMA AttemptIsSole ==
    ASSUME ChannelTypeOK, NEW k \in Workers, NEW d \in Deliveries, Sole(d), Attempt(k),
           worker[k].delivery = d
    PROVE  Sole(d)'
<1>0. worker[k].pc # "idle" /\ Attempting(k, d)
  BY AttemptMoves DEF Attempting
<1>1. \A l \in Workers : Attempting(l, d)' \/ Active(l, d)' \/ Recording(l, d)' => l = k
  BY <1>0, AttemptMoves, SoleWorker
<1>2. CASE worker[k].pc \in {"read", "post"}
  <2>1. delivery' = delivery /\ Active(k, d)
    BY <1>2, AttemptMoves DEF Active
  <2>2. Active(k, d)' /\ ~Recording(k, d)'
    BY <1>2, AttemptMoves DEF Active, Recording
  <2>3. /\ worker'[k].pc \in {"read", "post"} => worker'[k].attempt = worker[k].attempt
        /\ worker'[k].pc = "settle" /\ worker'[k].result = "retry" => worker[k].attempt < MaxAttempts
    BY <1>2, AttemptMoves
  <2> QED BY <1>1, <1>2, <2>1, <2>2, <2>3 DEF Sole
<1>3. CASE worker[k].pc = "settle"
  <2> DEFINE result == worker[k].result
  <2>1. /\ delivery[d].status = "pending" /\ delivery[d].lease = "held"
        /\ result = "retry" => delivery[d].attempts < MaxAttempts
        /\ delivery[d].attempts <= MaxAttempts
    BY <1>3 DEF Sole, Active
  <2>2. result \in Results
    BY <1>3, WorkerKinds
  <2>3. delivery'[d] = SettledAs(d, result)
    BY <1>3, AttemptMoves DEF ChannelTypeOK
  <2>4. /\ delivery'[d].attempts = delivery[d].attempts /\ delivery'[d].lease = "none"
        /\ delivery'[d].status = IF result = "retry" THEN "pending"
                                 ELSE IF result = "delivered" THEN "delivered" ELSE "failed"
    BY <2>1, <2>2, <2>3, SettledWrites
  <2>5. ~Active(k, d)' /\ (Recording(k, d)' => worker'[k].result = result /\ Records(result))
    BY <1>3, AttemptMoves DEF Active, Recording
  <2> HIDE DEF result
  <2> QED BY <1>1, <2>1, <2>4, <2>5 DEF Sole, Settled, Records
<1>4. CASE worker[k].pc = "record"
  <2>1. delivery' = delivery /\ worker'[k].pc = "idle"
    BY <1>4, AttemptMoves
  <2>2. Recording(k, d) /\ ~Active(k, d)' /\ ~Recording(k, d)'
    BY <1>4, <2>1 DEF Recording, Active
  <2>3. delivery[d].status # "pending"
    BY <2>2 DEF Sole, Settled
  <2> QED BY <1>1, <2>1, <2>2, <2>3 DEF Sole
<1> QED BY <1>0, <1>2, <1>3, <1>4, WorkerKinds

LEMMA EnqueueKeeps ==
    ASSUME ChannelTypeOK, NEW d \in Deliveries, Sole(d) \/ Leftover(d),
           worker' = worker, delivery' = [delivery EXCEPT ![d] = Enqueued(d)]
    PROVE  (Sole(d) => Sole(d)') /\ (Leftover(d) => Leftover(d)')
<1>1. CASE delivery[d].status # "none"
  <2>1. delivery' = delivery
    BY <1>1 DEF ChannelTypeOK, Enqueued
  <2> QED BY <2>1, DeliveryUntouched
<1>2. CASE delivery[d].status = "none"
  <2>1. /\ delivery'[d].status = "pending" /\ delivery'[d].attempts = 0
        /\ delivery'[d].lease = "none"
    BY <1>2 DEF ChannelTypeOK, Enqueued, Queued, NoDelivery
  <2>2. ASSUME Sole(d) PROVE \A k \in Workers : ~Active(k, d) /\ ~Recording(k, d)
    BY <1>2, <2>2 DEF Sole, Settled
  <2>3. \A k \in Workers : /\ (Attempting(k, d)' <=> Attempting(k, d)) /\ (Active(k, d)' <=> Active(k, d))
                           /\ (Recording(k, d)' <=> Recording(k, d))
                           /\ (CanRetry(k, d)' <=> CanRetry(k, d))
    BY DEF Attempting, Active, Recording, CanRetry
  <2>4. 0 < MaxAttempts /\ 0 <= MaxAttempts
    BY ChannelAssumption
  <2>5. Open(d)
    BY <1>2 DEF Open
  <2> HIDE DEF Attempting, Active, Recording, CanRetry, Open
  <2>6. Sole(d) => Sole(d)'
    BY <2>1, <2>2, <2>3, <2>4 DEF Sole
  <2>7. Leftover(d) => Leftover(d)'
    BY <2>1, <2>3 DEF Leftover
  <2> QED BY <2>6, <2>7
<1> QED BY <1>1, <1>2

\* The documents of a deleted channel go: what its worker holds is left over.
LEMMA DeletionLeavesOver ==
    ASSUME ChannelTypeOK, NEW d \in Deliveries, Sole(d), worker' = worker, delivery'[d] = NoDelivery
    PROVE  Leftover(d)'
<1>1. /\ delivery'[d].status = "none" /\ delivery'[d].attempts = 0
  BY DEF NoDelivery
<1>2. \A k \in Workers : CanRetry(k, d)' => CanRetry(k, d)
  BY DEF CanRetry
<1>3. ASSUME NEW k \in Workers, CanRetry(k, d)
      PROVE  Attempting(k, d) /\ MaxAttempts >= 2
  <2>1. Active(k, d) /\ Attempting(k, d)
    BY <1>3 DEF CanRetry, Active, Attempting
  <2>2. delivery[d].attempts >= 1 /\ delivery[d].attempts < MaxAttempts
    BY <1>3, <2>1 DEF CanRetry, Sole
  <2>3. delivery[d] \in Delivery /\ delivery[d].attempts \in Nat /\ MaxAttempts \in Nat
    BY ChannelAssumption DEF ChannelTypeOK, Delivery
  <2> QED BY <2>1, <2>2, <2>3
<1>4. \A k, l \in Workers : CanRetry(k, d) /\ CanRetry(l, d) => k = l
  BY <1>3 DEF Sole
<1> QED BY <1>1, <1>2, <1>3, <1>4 DEF Leftover

LEMMA ClaimIsLeftover ==
    ASSUME ChannelTypeOK, NEW k \in Workers, NEW d \in Deliveries, Leftover(d), ClaimDelivery(k, d)
    PROVE  Leftover(d)'
<1> DEFINE w == [pc |-> "read", delivery |-> d, attempt |-> delivery[d].attempts + 1]
<1>1. /\ worker[k].pc = "idle" /\ worker'[k] = w
      /\ \A l \in Workers \ {k} : worker'[l] = worker[l]
  BY DEF ClaimDelivery, ChannelTypeOK
<1>2. /\ delivery[d].status = "pending" /\ delivery[d].lease # "held"
      /\ delivery'[d].status = "pending" /\ delivery'[d].lease = "held"
      /\ delivery[d].attempts \in Nat
      /\ delivery'[d].attempts = delivery[d].attempts + 1
  <2>1. delivery[d] \in Delivery /\ delivery \in [Deliveries -> Delivery]
    BY DEF ChannelTypeOK
  <2> DEFINE more == delivery[d].attempts + 1
             doc == [delivery[d] EXCEPT !.lease = "held", !.attempts = more]
  <2>2. delivery' = [delivery EXCEPT ![d] = doc]
    BY DEF ClaimDelivery
  <2> HIDE DEF more
  <2>3. /\ doc.status = delivery[d].status /\ doc.lease = "held" /\ doc.attempts = more
    BY <2>1 DEF Delivery
  <2> HIDE DEF doc
  <2>4. delivery'[d] = doc
    BY <2>1, <2>2
  <2>5. delivery[d].attempts \in Nat
    BY <2>1, ChannelAssumption DEF Delivery
  <2> QED BY <2>3, <2>4, <2>5 DEF ClaimDelivery, ClaimableDelivery, more
<1>3. Active(k, d)' /\ ~CanRetry(k, d)' /\ ~CanRetry(k, d)
  BY <1>1 DEF Active, CanRetry
<1>4. \A l \in Workers : CanRetry(l, d)' <=> CanRetry(l, d)
  BY <1>1, <1>3 DEF CanRetry
<1>5. Open(d) /\ ~Open(d)'
  BY <1>2 DEF Open
<1> HIDE DEF w, Open, Active, CanRetry
<1>6. MaxAttempts \in Nat
  BY ChannelAssumption
<1>7. delivery[d].attempts <= IF MaxAttempts >= 2 THEN 1 ELSE 0
  BY <1>5 DEF Leftover
<1>8. (\E l \in Workers : CanRetry(l, d)) => delivery[d].attempts = 0 /\ MaxAttempts >= 2
  BY <1>5 DEF Leftover
<1>9. delivery'[d].attempts <= IF MaxAttempts >= 2 THEN 2 ELSE 1
  BY <1>2, <1>6, <1>7
<1>10. (\E l \in Workers : CanRetry(l, d)) => delivery'[d].attempts <= IF MaxAttempts >= 2 THEN 1 ELSE 0
  BY <1>2, <1>6, <1>8
<1> QED BY <1>2, <1>3, <1>4, <1>5, <1>9, <1>10 DEF Leftover

LEMMA AttemptIsLeftover ==
    ASSUME ChannelTypeOK, NEW k \in Workers, NEW d \in Deliveries, Leftover(d), Attempt(k),
           worker[k].delivery = d, ~channel[ChannelOf(d)].exists
    PROVE  Leftover(d)'
<1>0. worker[k].pc \in {"read", "post", "settle", "record"}
      /\ \A l \in Workers \ {k} : worker'[l] = worker[l]
  BY AttemptMoves
<1>1. \A l \in Workers \ {k} : /\ (CanRetry(l, d)' <=> CanRetry(l, d))
                              /\ (Active(l, d)' <=> Active(l, d))
  BY <1>0 DEF CanRetry, Active
<1>2. CASE worker[k].pc \in {"read", "post"}
  <2>1. delivery' = delivery /\ Active(k, d)' /\ Active(k, d)
    BY <1>2, AttemptMoves DEF Active
  <2>2. CanRetry(k, d)' => CanRetry(k, d)
    BY <1>2, AttemptMoves DEF CanRetry
  <2>3. Open(d)' <=> Open(d)
    BY <2>1 DEF Open
  <2> HIDE DEF Open, CanRetry, Active
  <2>4. \A l \in Workers : (CanRetry(l, d)' => CanRetry(l, d)) /\ (Active(l, d)' <=> Active(l, d))
    BY <1>1, <2>1, <2>2
  <2> QED BY <2>1, <2>3, <2>4 DEF Leftover
<1>3. CASE worker[k].pc = "settle"
  <2> DEFINE result == worker[k].result
  <2>1. result \in Results
    BY <1>3, WorkerKinds
  <2>2. delivery'[d] = SettledAs(d, result)
    BY <1>3, AttemptMoves DEF ChannelTypeOK
  <2>3. /\ delivery'[d].attempts = delivery[d].attempts
        /\ delivery'[d].status = "pending" => delivery'[d].lease = "none"
        /\ Open(d)' => Open(d) \/ result = "retry"
    BY <2>1, <2>2, SettledWrites DEF Open
  <2>4. ~CanRetry(k, d)' /\ (result = "retry" => CanRetry(k, d))
    BY <1>3, AttemptMoves DEF CanRetry
  <2>5. \A l \in Workers : CanRetry(l, d)' => CanRetry(l, d) /\ l # k
    BY <1>1, <2>4
  <2>6. Open(d)' \/ (\E l \in Workers : CanRetry(l, d)') =>
            Open(d) \/ (\E l \in Workers : CanRetry(l, d))
    BY <2>3, <2>4, <2>5
  <2> HIDE DEF Open, CanRetry, Active, result
  <2>7. Open(d)' /\ (\E l \in Workers : CanRetry(l, d)') => Open(d) /\ (\E l \in Workers : CanRetry(l, d))
    BY <2>3, <2>4, <2>5 DEF Leftover
  <2> QED BY <2>3, <2>5, <2>6, <2>7 DEF Leftover
<1>4. CASE worker[k].pc = "record"
  <2>1. delivery' = delivery /\ worker'[k].pc = "idle"
    BY <1>4, AttemptMoves
  <2>2. ~Active(k, d)' /\ ~Active(k, d) /\ ~CanRetry(k, d)' /\ ~CanRetry(k, d)
    BY <1>4, <2>1 DEF Active, CanRetry
  <2>3. Open(d)' <=> Open(d)
    BY <2>1 DEF Open
  <2> HIDE DEF Open, CanRetry, Active
  <2>4. \A l \in Workers : (CanRetry(l, d)' <=> CanRetry(l, d)) /\ (Active(l, d)' <=> Active(l, d))
    BY <1>1, <2>2
  <2> QED BY <2>1, <2>3, <2>4 DEF Leftover
<1> QED BY <1>0, <1>2, <1>3, <1>4

LEMMA AttemptsInit == ChannelInit => AttemptsInv
<1> SUFFICES ASSUME ChannelInit PROVE AttemptsInv
  OBVIOUS
<1>1. ASSUME NEW d \in Deliveries PROVE Kept(ChannelOf(d)) /\ Sole(d)
  <2>1. \A k \in Workers : worker[k].pc = "idle"
    BY DEF ChannelInit, IdleWorker
  <2>2. delivery[d].status = "none" /\ delivery[d].attempts = 0
    BY DEF ChannelInit, NoDelivery
  <2>3. Kept(ChannelOf(d))
    BY ChannelOfDelivery DEF ChannelInit, Kept
  <2> QED BY <2>1, <2>2, <2>3, ChannelAssumption DEF Sole, Attempting, Active, Recording
<1> QED BY <1>1 DEF AttemptsInv, ChannelInit

\* No channel comes back, and no delivery is cleared of a fault.
LEMMA NothingComesBack ==
    ASSUME ChannelTypeOK, [ChannelNext]_channelVars
    PROVE  /\ disturbed \subseteq disturbed'
           /\ \A c \in Channels : channel'[c].exists => channel[c].exists
<1>t. channel \in [Channels -> Channel]
  BY DEF ChannelTypeOK
<1>1. ASSUME NEW k \in Workers, RecordOutcome(k)
      PROVE  \A c \in Channels : channel'[c].exists => channel[c].exists
  <2> DEFINE b == ChannelOf(worker[k].delivery)
             n == IF worker[k].result = "delivered" THEN 0 ELSE channel[b].failures + 1
             doc == [channel[b] EXCEPT !.failures = n]
  <2>1. channel' = channel \/ channel' = [channel EXCEPT ![b] = doc]
    BY <1>1 DEF RecordOutcome
  <2>2. b \in Channels
    BY <1>1, WorkerFields, ChannelOfDelivery DEF RecordOutcome
  <2> HIDE DEF b, n
  <2>3. doc.exists = channel[b].exists
    BY <1>t, <2>2 DEF Channel
  <2> HIDE DEF doc
  <2> QED BY <1>t, <2>1, <2>2, <2>3
<1>2. ASSUME NEW c \in Channels,
             DeleteChannel(c) \/ \E enabled \in BOOLEAN : SetChannelEnabled(c, enabled)
      PROVE  \A b \in Channels : channel'[b].exists => channel[b].exists
  <2>1. channel[c].exists /\ \A b \in Channels \ {c} : channel'[b] = channel[b]
    BY <1>t, <1>2 DEF DeleteChannel, SetChannelEnabled
  <2> QED BY <2>1
<1>3. ASSUME UNCHANGED channel PROVE \A c \in Channels : channel'[c].exists => channel[c].exists
  BY <1>3
<1>4. \A c \in Channels : channel'[c].exists => channel[c].exists
  BY <1>1, <1>2, <1>3
     DEF ChannelNext, Attempt, ReadSubscribers, EnqueueDelivery, PublishAborts, ClaimDelivery, ReadChannel, Post,
         Settle, RetryBecomesDue, DeliveryLeaseExpires, Abandon, DeleteDeliveries, channelVars
<1>5. disturbed \subseteq disturbed'
  BY DEF ChannelNext, Attempt, ReadSubscribers, EnqueueDelivery, PublishAborts, ClaimDelivery, ReadChannel, Post,
         Settle, RecordOutcome, RetryBecomesDue, DeliveryLeaseExpires, Abandon, SetChannelEnabled,
         DeleteChannel, DeleteDeliveries, channelVars
<1> QED BY <1>4, <1>5

\* What becomes of a delivery no fault touches, in one step that leaves its
\* documents where they are.
LEMMA HandledStep ==
    ASSUME ChannelTypeOK, LeasedIsPending, ChannelNext, NEW d \in Deliveries, d \notin disturbed',
           Sole(d) \/ (Leftover(d) /\ ~channel[ChannelOf(d)].exists),
           ~DeleteDeliveries(ChannelOf(d))
    PROVE  (Sole(d) => Sole(d)') /\ (Leftover(d) /\ ~channel[ChannelOf(d)].exists => Leftover(d)')
<1> DEFINE Goal == (Sole(d) => Sole(d)')
                   /\ (Leftover(d) /\ ~channel[ChannelOf(d)].exists => Leftover(d)')
<1>u. ASSUME delivery'[d].status = delivery[d].status, delivery'[d].attempts = delivery[d].attempts,
             delivery'[d].lease = delivery[d].lease,
             \A k \in Workers : worker'[k] = worker[k] \/ (~Attempting(k, d) /\ ~Attempting(k, d)')
      PROVE  Goal
  BY <1>u, DeliveryUntouched
<1>t. delivery \in [Deliveries -> Delivery] /\ worker \in [Workers -> Worker] /\ delivery[d] \in Delivery
  BY DEF ChannelTypeOK
<1>1. ASSUME UNCHANGED <<delivery, worker>> PROVE Goal
  BY <1>u, <1>1
<1>2. ASSUME NEW e \in ChannelEvents, NEW c \in Channels, EnqueueDelivery(e, c) PROVE Goal
  <2>1. worker' = worker /\ delivery' = [delivery EXCEPT ![<<e, c>>] = Enqueued(<<e, c>>)]
    BY <1>2 DEF EnqueueDelivery
  <2>2. CASE d = <<e, c>>
    BY <2>1, <2>2, EnqueueKeeps
  <2>3. CASE d # <<e, c>>
    BY <1>t, <1>u, <2>1, <2>3
  <2> QED BY <2>2, <2>3
<1>3. ASSUME NEW k \in Workers, NEW b \in Deliveries, ClaimDelivery(k, b) PROVE Goal
  <2>1. CASE b = d
    BY <1>3, <2>1, ClaimIsSole, ClaimIsLeftover
  <2>2. CASE b # d
    <3>1. /\ delivery'[d] = delivery[d] /\ worker[k].pc = "idle" /\ worker'[k].delivery = b
          /\ \A l \in Workers \ {k} : worker'[l] = worker[l]
      BY <1>t, <1>3, <2>2 DEF ClaimDelivery
    <3> QED BY <1>u, <2>2, <3>1 DEF Attempting
  <2> QED BY <2>1, <2>2
<1>4. ASSUME NEW k \in Workers, Attempt(k) PROVE Goal
  <2>1. CASE worker[k].delivery = d
    BY <1>4, <2>1, AttemptIsSole, AttemptIsLeftover
  <2>2. CASE worker[k].delivery # d
    <3>1. delivery'[d] = delivery[d]
      BY <1>t, <1>4, <2>2, AttemptMoves
    <3>2. ~Attempting(k, d) /\ ~Attempting(k, d)' /\ \A l \in Workers \ {k} : worker'[l] = worker[l]
      BY <1>4, <2>2, AttemptMoves DEF Attempting
    <3> QED BY <1>u, <3>1, <3>2
  <2> QED BY <2>1, <2>2
<1>5. ASSUME NEW k \in Workers, Abandon(k) PROVE Goal
  <2>1. /\ delivery' = delivery /\ worker'[k].pc = "idle" /\ worker[k].delivery # d
        /\ \A l \in Workers \ {k} : worker'[l] = worker[l]
    BY <1>t, <1>5 DEF Abandon, IdleWorker
  <2> QED BY <1>u, <2>1 DEF Attempting
<1>6. ASSUME NEW b \in Deliveries, RetryBecomesDue(b) PROVE Goal
  <2>1. /\ worker' = worker /\ delivery'[d].status = delivery[d].status
        /\ delivery'[d].attempts = delivery[d].attempts /\ delivery'[d].lease = delivery[d].lease
    BY <1>t, <1>6 DEF RetryBecomesDue, Delivery
  <2> QED BY <1>u, <2>1
<1>7. ASSUME NEW b \in Deliveries, DeliveryLeaseExpires(b) PROVE Goal
  <2>1. b # d
    <3> SUFFICES ASSUME b = d PROVE FALSE
      OBVIOUS
    <3>1. delivery[d].lease = "held" /\ delivery[d].status = "pending"
      BY <1>7 DEF DeliveryLeaseExpires, LeasedIsPending
    <3>2. \E k \in Workers : Attempting(k, d)
      BY <3>1 DEF Sole, Leftover, Active, Attempting
    <3> QED BY <1>7, <3>2 DEF DeliveryLeaseExpires
  <2>2. worker' = worker /\ delivery'[d] = delivery[d]
    BY <1>t, <1>7, <2>1 DEF DeliveryLeaseExpires
  <2> QED BY <1>u, <2>2
<1>8. ASSUME NEW c \in Channels, DeleteDeliveries(c) PROVE Goal
  <2>1. c # ChannelOf(d)
    BY <1>8
  <2>2. worker' = worker /\ delivery'[d] = delivery[d]
    BY <1>t, <1>8, <2>1 DEF DeleteDeliveries
  <2> QED BY <1>u, <2>2
<1> HIDE DEF Goal
<1>9. Goal
  BY <1>1, <1>2, <1>3, <1>4, <1>5, <1>6, <1>7, <1>8
     DEF ChannelNext, ReadSubscribers, PublishAborts, SetChannelEnabled, DeleteChannel
<1> QED BY <1>9 DEF Goal

LEMMA AttemptsStep ==
    ChannelTypeOK /\ LeasedIsPending /\ AttemptsInv /\ [ChannelNext]_channelVars => AttemptsInv'
<1> SUFFICES ASSUME ChannelTypeOK, LeasedIsPending, AttemptsInv, [ChannelNext]_channelVars PROVE AttemptsInv'
  OBVIOUS
<1>1. /\ disturbed \subseteq disturbed'
      /\ \A c \in Channels : channel'[c].exists => channel[c].exists
  BY NothingComesBack
<1>t. channel \in [Channels -> Channel] /\ channelPurge \subseteq Channels
  BY DEF ChannelTypeOK
<1>u. ASSUME UNCHANGED channelVars PROVE AttemptsInv'
  <2>1. \A d \in Deliveries : /\ (Sole(d)' <=> Sole(d)) /\ (Leftover(d)' <=> Leftover(d))
                            /\ (Kept(ChannelOf(d))' <=> Kept(ChannelOf(d)))
    BY <1>u DEF channelVars, Sole, Leftover, Kept, Active, Recording, Attempting, CanRetry, Open
  <2> HIDE DEF Sole, Leftover, Kept
  <2> QED BY <1>u, <2>1 DEF AttemptsInv, channelVars
<1> SUFFICES ASSUME ChannelNext PROVE AttemptsInv'
  BY <1>u
\* A channel leaves, and later what was queued for it.
<1>2. \/ \E c \in Channels : /\ channelPurge' = channelPurge \cup {c} /\ channel[c].exists
                            /\ channel' = [channel EXCEPT ![c].exists = FALSE]
      \/ \E c \in Channels : DeleteDeliveries(c)
      \/ channelPurge' = channelPurge /\ \A c \in Channels : channel'[c].exists = channel[c].exists
  <2>1. ASSUME NEW k \in Workers, RecordOutcome(k)
        PROVE  \A c \in Channels : channel'[c].exists = channel[c].exists
    <3> DEFINE b == ChannelOf(worker[k].delivery)
               n == IF worker[k].result = "delivered" THEN 0 ELSE channel[b].failures + 1
               doc == [channel[b] EXCEPT !.failures = n]
    <3>1. channel' = channel \/ channel' = [channel EXCEPT ![b] = doc]
      BY <2>1 DEF RecordOutcome
    <3>2. b \in Channels
      BY <2>1, WorkerFields, ChannelOfDelivery DEF RecordOutcome
    <3> HIDE DEF b, n
    <3>3. doc.exists = channel[b].exists
      BY <1>t, <3>2 DEF Channel
    <3> HIDE DEF doc
    <3> QED BY <1>t, <3>1, <3>2, <3>3
  <2>2. ASSUME NEW c \in Channels, NEW enabled \in BOOLEAN, SetChannelEnabled(c, enabled)
        PROVE  \A b \in Channels : channel'[b].exists = channel[b].exists
    BY <1>t, <2>2 DEF SetChannelEnabled, Channel
  <2>3. ASSUME NEW k \in Workers, RecordOutcome(k) PROVE channelPurge' = channelPurge
    BY <2>3 DEF RecordOutcome
  <2>4. ASSUME NEW c \in Channels, NEW enabled \in BOOLEAN, SetChannelEnabled(c, enabled)
        PROVE  channelPurge' = channelPurge
    BY <2>4 DEF SetChannelEnabled
  <2>5. ASSUME NEW c \in Channels, DeleteChannel(c)
        PROVE  /\ channelPurge' = channelPurge \cup {c} /\ channel[c].exists
               /\ channel' = [channel EXCEPT ![c].exists = FALSE]
    BY <2>5 DEF DeleteChannel
  <2> QED
    BY <2>1, <2>2, <2>3, <2>4, <2>5
       DEF ChannelNext, Attempt, ReadSubscribers, EnqueueDelivery, PublishAborts, ClaimDelivery, ReadChannel, Post,
           Settle, RetryBecomesDue, DeliveryLeaseExpires, Abandon
<1>3. \A c \in channelPurge' : ~channel'[c].exists
  <2>1. ASSUME NEW c \in Channels, DeleteDeliveries(c) PROVE channelPurge' \subseteq channelPurge
    BY <2>1 DEF DeleteDeliveries
  <2> QED BY <1>1, <1>2, <1>t, <2>1 DEF AttemptsInv, Channel
<1>4. ASSUME NEW d \in Deliveries \ disturbed'
      PROVE  IF Kept(ChannelOf(d))' THEN Sole(d)' ELSE Leftover(d)'
  <2>0. d \notin disturbed /\ ChannelOf(d) \in Channels
    BY <1>1, ChannelOfDelivery
  <2>1. IF Kept(ChannelOf(d)) THEN Sole(d) ELSE Leftover(d) /\ ~channel[ChannelOf(d)].exists
    BY <2>0 DEF AttemptsInv, Kept
  <2>2. CASE DeleteDeliveries(ChannelOf(d))
    <3>1. /\ worker' = worker /\ delivery'[d] = NoDelivery /\ channel' = channel
          /\ channelPurge' = channelPurge \ {ChannelOf(d)} /\ ChannelOf(d) \in channelPurge
      BY <2>2 DEF DeleteDeliveries
    <3>2. Sole(d)
      BY <2>1, <3>1 DEF Kept
    <3>3. ~channel[ChannelOf(d)].exists
      BY <3>1 DEF AttemptsInv
    <3>4. ~Kept(ChannelOf(d))'
      BY <3>1, <3>3 DEF Kept
    <3> QED BY <3>1, <3>2, <3>4, DeletionLeavesOver
  <2>3. CASE ~DeleteDeliveries(ChannelOf(d))
    <3>1. (Sole(d) => Sole(d)') /\ (Leftover(d) /\ ~channel[ChannelOf(d)].exists => Leftover(d)')
      BY <2>1, <2>3, HandledStep
    <3>2. Kept(ChannelOf(d))' <=> Kept(ChannelOf(d))
      <4>1. ASSUME NEW c \in Channels, DeleteDeliveries(c)
            PROVE  channel' = channel /\ channelPurge' = channelPurge \ {c} /\ c # ChannelOf(d)
        BY <2>3, <4>1 DEF DeleteDeliveries
      <4> QED BY <1>t, <1>2, <2>0, <4>1 DEF Kept, Channel
    <3> HIDE DEF Kept, Sole, Leftover
    <3> QED BY <2>1, <3>1, <3>2
  <2> QED BY <2>2, <2>3
<1> QED BY <1>3, <1>4 DEF AttemptsInv

LEMMA AttemptsAccountedByInv == ChannelTypeOK /\ AttemptsInv => AttemptsAccounted
<1> SUFFICES ASSUME ChannelTypeOK, AttemptsInv, NEW d \in Deliveries, d \notin disturbed
             PROVE  delivery[d].attempts <= MaxAttempts
  BY DEF AttemptsAccounted
<1>1. delivery[d].attempts \in Nat /\ MaxAttempts \in Nat /\ MaxAttempts >= 1
  BY ChannelAssumption DEF ChannelTypeOK, Delivery
<1>2. CASE Sole(d)
  BY <1>2 DEF Sole
<1>3. CASE Leftover(d)
  BY <1>1, <1>3 DEF Leftover
<1> QED BY <1>2, <1>3 DEF AttemptsInv

\* The limit of attempts is kept wherever no fault breaks in, whatever happens
\* to the channel meanwhile.
THEOREM AttemptsAccountedAlways == ChannelSpec => []AttemptsAccounted
<1>1. ChannelInit => LeasedIsPending
  BY DEF ChannelInit, LeasedIsPending, NoDelivery
<1> QED BY <1>1, LeasedStep, TypeCorrectness, AttemptsInit, AttemptsStep, AttemptsAccountedByInv,
           PTL DEF ChannelSpec

-----------------------------------------------------------------------------
(* Failures of a channel.                                                  *)

\* A worker that has settled a delivery as failed and is still to say so.
Reporting(k, d) == Recording(k, d) /\ worker[k].result = "failed"

\* The failures that the channel was told of, or never will be.
CountedFailures(c) ==
    {e \in ChannelEvents : /\ delivery[<<e, c>>].status = "failed"
                    /\ \A k \in Workers : ~Reporting(k, <<e, c>>)}

Undisturbed(c) == channel[c].exists /\ \A e \in ChannelEvents : <<e, c>> \notin disturbed

FailuresInv ==
    \A c \in Channels : Undisturbed(c) => channel[c].failures <= Cardinality(CountedFailures(c))

\* A failure that was counted stays one: the message is settled, and nobody
\* works on it any more.
LEMMA FailureStays ==
    ASSUME ChannelTypeOK, ChannelNext, NEW d \in Deliveries, Sole(d), ChannelOf(d) \notin channelPurge,
           delivery[d].status = "failed", \A k \in Workers : ~Reporting(k, d)
    PROVE  delivery'[d].status = "failed" /\ \A k \in Workers : ~Reporting(k, d)'
<1>t. delivery \in [Deliveries -> Delivery] /\ worker \in [Workers -> Worker] /\ delivery[d] \in Delivery
  BY DEF ChannelTypeOK
<1>0. \A k \in Workers : ~Active(k, d)
  BY DEF Sole
<1>1. delivery'[d].status = "failed"
  <2>1. ASSUME NEW e \in ChannelEvents, NEW c \in Channels, EnqueueDelivery(e, c)
        PROVE  delivery'[d].status = "failed"
    BY <1>t, <2>1 DEF EnqueueDelivery, Enqueued
  <2>2. ASSUME NEW k \in Workers, NEW b \in Deliveries, ClaimDelivery(k, b)
        PROVE  delivery'[d].status = "failed"
    <3>1. b # d
      BY <2>2 DEF ClaimDelivery, ClaimableDelivery
    <3> QED BY <1>t, <2>2, <3>1 DEF ClaimDelivery
  <2>3. ASSUME NEW k \in Workers, Attempt(k) PROVE delivery'[d].status = "failed"
    <3>1. delivery' = delivery
          \/ (worker[k].pc = "settle" /\ delivery' = [delivery EXCEPT ![worker[k].delivery] =
                                    SettledAs(worker[k].delivery, worker[k].result)])
      BY <2>3, AttemptMoves
    <3>2. worker[k].pc = "settle" /\ worker[k].delivery = d => Active(k, d)
      BY DEF Active
    <3> QED BY <1>0, <1>t, <3>1, <3>2
  <2>4. ASSUME NEW b \in Deliveries, RetryBecomesDue(b) \/ DeliveryLeaseExpires(b)
        PROVE  delivery'[d].status = "failed"
    BY <1>t, <2>4 DEF RetryBecomesDue, DeliveryLeaseExpires, Delivery
  <2>5. ASSUME NEW c \in Channels, DeleteDeliveries(c) PROVE delivery'[d].status = "failed"
    BY <2>5 DEF DeleteDeliveries
  <2>6. ASSUME UNCHANGED delivery PROVE delivery'[d].status = "failed"
    BY <2>6
  <2> QED
    BY <2>1, <2>2, <2>3, <2>4, <2>5, <2>6
       DEF ChannelNext, ReadSubscribers, PublishAborts, Abandon, SetChannelEnabled, DeleteChannel
<1>2. ASSUME NEW l \in Workers, Reporting(l, d)' PROVE FALSE
  <2>1. ASSUME NEW k \in Workers, Attempt(k) PROVE FALSE
    <3>1. CASE k = l
      <4>1. worker[k].pc = "settle" /\ worker'[k].delivery = worker[k].delivery
        BY <1>2, <2>1, <3>1, AttemptMoves DEF Reporting, Recording
      <4> QED BY <1>0, <1>2, <3>1, <4>1 DEF Active, Reporting, Recording
    <3>2. CASE k # l
      <4>1. worker'[l] = worker[l]
        BY <2>1, <3>2, AttemptMoves
      <4> QED BY <1>2, <4>1 DEF Reporting, Recording
    <3> QED BY <3>1, <3>2
  <2>2. ASSUME NEW k \in Workers, (\E b \in Deliveries : ClaimDelivery(k, b)) \/ Abandon(k) PROVE FALSE
    <3>1. ASSUME NEW b \in Deliveries, ClaimDelivery(k, b)
          PROVE  /\ \A m \in Workers \ {k} : worker'[m] = worker[m]
                 /\ worker'[k].pc = "read"
      BY <1>t, <3>1 DEF ClaimDelivery
    <3>2. /\ \A m \in Workers \ {k} : worker'[m] = worker[m]
          /\ worker'[k].pc # "record"
      <4>1. CASE Abandon(k)
        <5>1. worker'[k] = IdleWorker /\ \A m \in Workers \ {k} : worker'[m] = worker[m]
          BY <1>t, <4>1 DEF Abandon
        <5> QED BY <5>1 DEF IdleWorker
      <4> QED BY <2>2, <3>1, <4>1
    <3>3. worker'[l].pc = "record" /\ l \in Workers
      BY <1>2 DEF Reporting, Recording
    <3>4. l # k
      BY <3>3, <3>2
    <3>5. worker'[l] = worker[l]
      BY <3>4, <3>2
    <3> QED BY <1>2, <3>5 DEF Reporting, Recording
  <2>3. ASSUME UNCHANGED worker PROVE FALSE
    BY <1>2, <2>3 DEF Reporting, Recording
  <2> QED
    BY <2>1, <2>2, <2>3
       DEF ChannelNext, ReadSubscribers, EnqueueDelivery, PublishAborts, RetryBecomesDue, DeliveryLeaseExpires,
           SetChannelEnabled, DeleteChannel, DeleteDeliveries
<1> QED BY <1>1, <1>2

LEMMA FailuresAreFinite ==
    \A c \in Channels : /\ IsFiniteSet(CountedFailures(c))
                        /\ Cardinality(CountedFailures(c)) \in Nat
<1> SUFFICES ASSUME NEW c \in Channels
             PROVE  IsFiniteSet(CountedFailures(c)) /\ Cardinality(CountedFailures(c)) \in Nat
  OBVIOUS
<1>1. CountedFailures(c) \subseteq ChannelEvents /\ IsFiniteSet(ChannelEvents)
  BY ChannelAssumption DEF CountedFailures
<1>2. IsFiniteSet(CountedFailures(c))
  BY <1>1, FS_Subset
<1> QED BY <1>2, FS_CardinalityType

LEMMA FailuresStep ==
    ChannelTypeOK /\ AttemptsInv /\ FailuresInv /\ [ChannelNext]_channelVars => FailuresInv'
<1> SUFFICES ASSUME ChannelTypeOK, AttemptsInv, FailuresInv, [ChannelNext]_channelVars,
                    NEW c \in Channels, Undisturbed(c)'
             PROVE  channel'[c].failures <= Cardinality(CountedFailures(c)')
  BY DEF FailuresInv
<1>t. channel \in [Channels -> Channel] /\ worker \in [Workers -> Worker]
  BY DEF ChannelTypeOK
<1>1. Undisturbed(c) /\ c \notin channelPurge
  BY NothingComesBack DEF Undisturbed, AttemptsInv
<1>2. channel[c].failures <= Cardinality(CountedFailures(c)) /\ channel[c].failures \in Nat
  BY <1>1, <1>t DEF FailuresInv, Channel
<1>u. CASE UNCHANGED channelVars
  <2>1. CountedFailures(c)' = CountedFailures(c) /\ channel' = channel
    BY <1>u DEF channelVars, CountedFailures, Reporting, Recording
  <2> QED BY <1>2, <2>1
<1> SUFFICES ASSUME ChannelNext PROVE channel'[c].failures <= Cardinality(CountedFailures(c)')
  BY <1>u
<1>3. \A e \in ChannelEvents : <<e, c>> \in Deliveries /\ ChannelOf(<<e, c>>) = c /\ Sole(<<e, c>>)
  <2>1. \A e \in ChannelEvents : <<e, c>> \in Deliveries /\ ChannelOf(<<e, c>>) = c
    BY DEF Deliveries, ChannelOf
  <2> QED BY <1>1, <2>1 DEF AttemptsInv, Undisturbed, Kept
<1>4. CountedFailures(c) \subseteq CountedFailures(c)'
  <2> SUFFICES ASSUME NEW e \in CountedFailures(c) PROVE e \in CountedFailures(c)'
    OBVIOUS
  <2>1. e \in ChannelEvents /\ delivery[<<e, c>>].status = "failed"
        /\ \A k \in Workers : ~Reporting(k, <<e, c>>)
    BY DEF CountedFailures
  <2>2. delivery'[<<e, c>>].status = "failed" /\ \A k \in Workers : ~Reporting(k, <<e, c>>)'
    BY <1>1, <1>3, <2>1, FailureStays
  <2> HIDE DEF Reporting
  <2> QED BY <2>1, <2>2 DEF CountedFailures
<1>5. IsFiniteSet(CountedFailures(c)') /\ Cardinality(CountedFailures(c)') \in Nat
  <2>1. CountedFailures(c)' \subseteq ChannelEvents /\ IsFiniteSet(ChannelEvents)
    BY ChannelAssumption DEF CountedFailures
  <2>2. IsFiniteSet(CountedFailures(c)')
    BY <2>1, FS_Subset
  <2> QED BY <2>2, FS_CardinalityType
<1>6. Cardinality(CountedFailures(c)) <= Cardinality(CountedFailures(c)')
      /\ Cardinality(CountedFailures(c)) \in Nat
  BY <1>4, <1>5, FS_Subset, FailuresAreFinite
<1>7. ASSUME NEW k \in Workers, RecordOutcome(k), channel'[c].failures # channel[c].failures
      PROVE  channel'[c].failures <= Cardinality(CountedFailures(c)')
  <2> DEFINE d == worker[k].delivery
             n == IF worker[k].result = "delivered" THEN 0 ELSE channel[ChannelOf(d)].failures + 1
             doc == [channel[ChannelOf(d)] EXCEPT !.failures = n]
  <2>1. /\ channel' = channel \/ channel' = [channel EXCEPT ![ChannelOf(d)] = doc]
        /\ worker' = [worker EXCEPT ![k] = IdleWorker] /\ worker[k].pc = "record"
        /\ delivery' = delivery
    BY <1>7 DEF RecordOutcome
  <2>2. d \in Deliveries
    BY <2>1, WorkerFields
  <2>3. ChannelOf(d) = c
    BY <1>t, <1>7, <2>1
  <2>4. PICK e \in ChannelEvents : d = <<e, c>>
    BY <2>2, <2>3 DEF Deliveries, ChannelOf
  <2>5. channel'[c].failures = n
    BY <1>t, <1>7, <2>1, <2>3 DEF Channel
  <2>6. CASE worker[k].result = "delivered"
    BY <1>5, <2>5, <2>6
  <2>7. CASE worker[k].result # "delivered"
    <3>1. Recording(k, <<e, c>>) /\ Attempting(k, <<e, c>>)
      BY <2>1, <2>4 DEF Recording, Attempting
    <3>2. delivery[<<e, c>>].status = "failed" /\ worker[k].result = "failed"
      BY <1>3, <2>7, <3>1 DEF Sole, Settled
    <3>3. e \notin CountedFailures(c)
      BY <3>1, <3>2 DEF CountedFailures, Reporting
    <3>4. ASSUME NEW l \in Workers, Reporting(l, <<e, c>>)' PROVE FALSE
      <4>1. l # k
        BY <1>t, <2>1, <3>4 DEF Reporting, Recording, IdleWorker
      <4>2. worker'[l] = worker[l]
        BY <1>t, <2>1, <4>1
      <4>3. Attempting(l, <<e, c>>)
        BY <3>4, <4>2 DEF Reporting, Recording, Attempting
      <4> QED BY <1>3, <3>1, <4>1, <4>3 DEF Sole
    <3>5. e \in CountedFailures(c)'
      <4> HIDE DEF Reporting
      <4> QED BY <2>1, <3>2, <3>4 DEF CountedFailures
    <3>6. CountedFailures(c) \cup {e} \subseteq CountedFailures(c)'
      BY <1>4, <3>5
    <3>7. /\ IsFiniteSet(CountedFailures(c) \cup {e})
          /\ Cardinality(CountedFailures(c) \cup {e}) = Cardinality(CountedFailures(c)) + 1
      BY <3>3, FS_AddElement, FailuresAreFinite
    <3>8. Cardinality(CountedFailures(c) \cup {e}) <= Cardinality(CountedFailures(c)')
      BY <1>5, <3>6, FS_Subset
    <3>9. n = channel[c].failures + 1
      BY <2>3, <2>7
    <3> HIDE DEF n
    <3> QED BY <1>2, <1>5, <1>6, <2>5, <3>7, <3>8, <3>9
  <2> QED BY <2>6, <2>7
<1>8. ASSUME channel'[c].failures = channel[c].failures
      PROVE  channel'[c].failures <= Cardinality(CountedFailures(c)')
  BY <1>2, <1>5, <1>6, <1>8
<1>9. \/ channel'[c].failures = channel[c].failures
      \/ \E k \in Workers : RecordOutcome(k)
  <2>1. ASSUME NEW b \in Channels,
               DeleteChannel(b) \/ \E enabled \in BOOLEAN : SetChannelEnabled(b, enabled)
        PROVE  channel'[c].failures = channel[c].failures
    BY <1>t, <2>1 DEF DeleteChannel, SetChannelEnabled, Channel
  <2>2. ASSUME UNCHANGED channel PROVE channel'[c].failures = channel[c].failures
    BY <2>2
  <2> QED
    BY <2>1, <2>2
       DEF ChannelNext, Attempt, ReadSubscribers, EnqueueDelivery, PublishAborts, ClaimDelivery, ReadChannel, Post,
           Settle, RetryBecomesDue, DeliveryLeaseExpires, Abandon, DeleteDeliveries
<1> QED BY <1>7, <1>8, <1>9

LEMMA FailuresCountedByInv == ChannelTypeOK /\ FailuresInv => FailuresCounted
<1> SUFFICES ASSUME ChannelTypeOK, FailuresInv, NEW c \in Channels, Undisturbed(c)
             PROVE  channel[c].failures <=
                       Cardinality({e \in ChannelEvents : delivery[<<e, c>>].status = "failed"})
  BY DEF FailuresCounted, Undisturbed
<1> DEFINE failed == {e \in ChannelEvents : delivery[<<e, c>>].status = "failed"}
<1>1. CountedFailures(c) \subseteq failed /\ failed \subseteq ChannelEvents /\ IsFiniteSet(ChannelEvents)
  BY ChannelAssumption DEF CountedFailures
<1> HIDE DEF failed
<1>2. Cardinality(CountedFailures(c)) <= Cardinality(failed) /\ Cardinality(failed) \in Nat
  BY <1>1, FS_Subset, FS_CardinalityType
<1>3. channel[c].failures <= Cardinality(CountedFailures(c))
  BY DEF FailuresInv
<1>4. channel[c].failures \in Nat
  BY DEF ChannelTypeOK, Channel
<1>5. channel[c].failures <= Cardinality(failed)
  BY <1>2, <1>3, <1>4, FailuresAreFinite
<1> QED BY <1>5 DEF failed

LEMMA FailuresInit == ChannelInit => FailuresInv
<1> SUFFICES ASSUME ChannelInit, NEW c \in Channels
             PROVE  channel[c].failures <= Cardinality(CountedFailures(c))
  BY DEF FailuresInv
<1>1. channel[c].failures = 0
  BY DEF ChannelInit
<1> QED BY <1>1, FailuresAreFinite

\* What a channel counts as failures in a row are messages that failed, for
\* every channel none of whose messages was interrupted.
THEOREM FailuresCountedAlways == ChannelSpec => []FailuresCounted
<1>1. ChannelInit => LeasedIsPending
  BY DEF ChannelInit, LeasedIsPending, NoDelivery
<1> QED BY <1>1, LeasedStep, TypeCorrectness, AttemptsInit, AttemptsStep, FailuresInit, FailuresStep,
           FailuresCountedByInv, PTL DEF ChannelSpec

=============================================================================
