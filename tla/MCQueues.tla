------------------------------ MODULE MCQueues ------------------------------
(***************************************************************************)
(* What works off queues for as long as the process lives: jobs on due     *)
(* websites, workers on channel deliveries, and the loop that drives       *)
(* either.  Each behaviour exercises one of the three and leaves the       *)
(* others alone.  They share no state here, so nothing is lost by it; each *)
(* has the fairness of its own specification.                              *)
(***************************************************************************)
EXTENDS MCUptimeMonitoring, ChannelDelivery, PollLoop

VARIABLE focus   \* the part that is exercised

queueVars == <<vars, channelVars, pollVars, focus>>

QueuesInit ==
    /\ Init /\ ChannelInit /\ PollInit
    /\ focus \in {"uptime", "channels", "loop"}

QueuesNext ==
    \/ focus = "uptime" /\ Next /\ UNCHANGED <<channelVars, pollVars, focus>>
    \/ focus = "channels" /\ ChannelNext /\ UNCHANGED <<vars, pollVars, focus>>
    \/ focus = "loop" /\ PollNext /\ UNCHANGED <<vars, channelVars, focus>>

\* Fairness, ChannelFairness and PollFairness, each where its part is exercised;
\* of one website and one delivery, weak fairness of the claim is enough.
QueuesFairness ==
    /\ \A k \in Jobs : WF_vars(focus = "uptime" /\ JobStep(k))
    /\ \A w \in Websites :
          /\ WF_vars(focus = "uptime" /\ BecomeDue(w))
          /\ WF_vars(focus = "uptime" /\ LeaseExpires(w))
          /\ WF_vars(focus = "uptime" /\ \E k \in Jobs : Claim(k, w))
    /\ \A k \in Workers : WF_channelVars(focus = "channels" /\ Attempt(k))
    /\ \A d \in Deliveries :
          /\ WF_channelVars(focus = "channels" /\ RetryBecomesDue(d))
          /\ WF_channelVars(focus = "channels" /\ DeliveryLeaseExpires(d))
          /\ WF_channelVars(focus = "channels" /\ \E k \in Workers : ClaimDelivery(k, d))
    /\ WF_pollVars(focus = "loop" /\ \E t \in Ticks : TimerFires(t))
    /\ \A t \in Ticks : WF_pollVars(focus = "loop" /\ TickStep(t))
    /\ \A m \in Messages : SF_pollVars(focus = "loop" /\ \E t \in Ticks : ClaimOne(t, m))

QueuesSpec == QueuesInit /\ [][QueuesNext]_queueVars /\ QueuesFairness

\* Deliveries, workers, ticks and calls have the types their documents and
\* fields give them; no tick holds more than a batch (claimDeliveryBatch).
QueuesTypeOK == ChannelTypeOK /\ PollTypeOK

\* EventuallyChecked, for the behaviours that exercise it: elsewhere nobody
\* claims the website, which is due from the start.
WebsitesAreChecked == \A w \in Websites : []<>(focus = "uptime" => Attended(w))
=============================================================================
