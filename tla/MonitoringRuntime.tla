-------------------------- MODULE MonitoringRuntime --------------------------
(***************************************************************************)
(* The process that hosts the five loops: the ticks the timers start, the  *)
(* sweep an external scheduler asks for (runOnce), and the shutdown.  A    *)
(* worker has no route for sweeps; the API may host the loops itself.      *)
(*                                                                         *)
(* A loop is what PollLoop describes, reduced to the ticks that run and    *)
(* the one it calls in flight; an armed timer may fire at any time, so     *)
(* waking it early changes nothing here.                                   *)
(***************************************************************************)
EXTENDS Shared

CONSTANTS
    Producers,     \* the loops whose jobs queue messages: uptime, monitors, reports
    Sweeps,        \* requests for a sweep that can be under way
    Posts,         \* channel deliveries
    PostBatch      \* CHANNEL_BATCH_SIZE: deliveries one channel tick claims

ASSUME MonitoringRuntimeAssumption ==
    /\ "channels" \notin Producers /\ "analysis" \notin Producers
    /\ "timer" \notin Sweeps
    /\ None \notin Sweeps \cup {"timer"} /\ None \notin 0 .. 3
    /\ PostBatch \in Nat \ {0}

VARIABLES
    host,         \* this.host: "worker" or "api"
    ticks,        \* ticks that run, by loop and by who started them
    inFlight,     \* inFlightTick of each loop
    sweep,        \* sweeps under way, and the ticks each waits for
    stopping,     \* this.stopping, and that of every loop
    shutdown,     \* steps of the shutdown done, None before it; and what stop() waits for
    database,     \* the connection: "open", "closed", or gone with the process
    post,         \* channel deliveries
    postedFor,    \* history: the sweeps that waited for the tick that queued a delivery
    excused,      \* history: sweeps whose channel tick could not take everything
    overlapped    \* history: ticks that another tick of their loop ran beside

runtimeVars == <<host, ticks, inFlight, sweep, stopping, shutdown, database, post, postedFor,
                 excused, overlapped>>

Loops == Producers \cup {"channels", "analysis"}
Starters == Sweeps \cup {"timer"}

\* claimed: deliveries a channel tick has claimed.
HostedTick == [phase: {"off", "claim", "work"}, claimed: 0 .. PostBatch]
NoHostedTick == [phase |-> "off", claimed |-> 0]

HostedSweep == [pc: {"idle", "first", "channels", "analysis"}, waits: SUBSET (Loops \X Starters)]

RuntimeInit ==
    /\ host \in {"worker", "api"}
    /\ ticks = [l \in Loops |-> [t \in Starters |-> NoHostedTick]]
    /\ inFlight = [l \in Loops |-> None]
    /\ sweep = [s \in Sweeps |-> [pc |-> "idle", waits |-> {}]]
    /\ stopping = FALSE
    /\ shutdown = [done |-> None, waits |-> {}]
    /\ database = "open"
    /\ post = [p \in Posts |-> "none"]
    /\ postedFor = [p \in Posts |-> {}]
    /\ excused = {}
    /\ overlapped = {}

PostKeeps == UNCHANGED <<post, postedFor>>
ProcessKeeps == UNCHANGED <<host, stopping, database>>

TickRuns(l, t) == ticks[l][t].phase # "off"
RunningTicks == {x \in Loops \X Starters : TickRuns(x[1], x[2])}

Alive == database # "gone"

-----------------------------------------------------------------------------
(* Ticks.                                                                  *)

\* Only a channel tick has anything to claim here.
StartedTick(l) == [phase |-> IF l = "channels" THEN "claim" ELSE "work", claimed |-> 0]

\* t starts a tick of each loop of L.
TicksStart(L, t) ==
    /\ ticks' = [l \in Loops |-> IF l \in L THEN [ticks[l] EXCEPT ![t] = StartedTick(l)] ELSE ticks[l]]
    /\ inFlight' = [l \in Loops |-> IF l \in L THEN t ELSE inFlight[l]]
    /\ overlapped' = overlapped \cup
           UNION {{<<l, u>> : u \in {u \in Starters : TickRuns(l, u)} \cup {t}} :
                  l \in {l \in L : \E u \in Starters : TickRuns(l, u)}}

\* A timer does not look at what is in flight.
TimerTick(l) ==
    /\ Alive /\ ~stopping
    /\ ~TickRuns(l, "timer")
    /\ TicksStart({l}, "timer")
    /\ UNCHANGED <<sweep, shutdown, excused>> /\ PostKeeps /\ ProcessKeeps

\* However it ends, whoever waits for it goes on, and inFlightTick is cleared whichever
\* tick it names.
TickEnds(l, t) ==
    /\ ticks' = [ticks EXCEPT ![l][t] = NoHostedTick]
    /\ inFlight' = [inFlight EXCEPT ![l] = None]
    /\ sweep' = [s \in Sweeps |-> [sweep[s] EXCEPT !.waits = @ \ {<<l, t>>}]]
    /\ shutdown' = [shutdown EXCEPT !.waits = @ \ {<<l, t>>}]
    /\ overlapped' = overlapped \ {<<l, t>>}
    /\ PostKeeps /\ ProcessKeeps

EndTick(l, t) ==
    /\ ticks[l][t].phase = "work"
    /\ TickEnds(l, t)
    /\ UNCHANGED excused

\* A job publishes an event to a channel.
QueuePost(l, t, p) ==
    /\ l \in Producers /\ TickRuns(l, t)
    /\ post[p] = "none" /\ database = "open"
    /\ post' = [post EXCEPT ![p] = "queued"]
    /\ postedFor' = [postedFor EXCEPT ![p] =
           {s \in Sweeps : sweep[s].pc = "first" /\ <<l, t>> \in sweep[s].waits}]
    /\ UNCHANGED <<ticks, inFlight, sweep, shutdown, excused, overlapped>> /\ ProcessKeeps

WaitingSweeps(t) == {s \in Sweeps : <<"channels", t>> \in sweep[s].waits}

ClaimPost(t, p) ==
    /\ ticks["channels"][t].phase = "claim"
    /\ post[p] = "queued" /\ database = "open"
    /\ post' = [post EXCEPT ![p] = "claimed"]
    /\ LET n == ticks["channels"][t].claimed + 1
       IN  /\ ticks' = [ticks EXCEPT !["channels"][t] =
                  [phase |-> IF n = PostBatch THEN "work" ELSE "claim", claimed |-> n]]
           /\ excused' = IF n = PostBatch THEN excused \cup WaitingSweeps(t) ELSE excused
    /\ UNCHANGED <<inFlight, sweep, shutdown, postedFor, overlapped>> /\ ProcessKeeps

NoPostDue(t) ==
    /\ ticks["channels"][t].phase = "claim"
    /\ \A p \in Posts : post[p] # "queued"
    /\ ticks' = [ticks EXCEPT !["channels"][t].phase = "work"]
    /\ UNCHANGED <<inFlight, sweep, shutdown, excused, overlapped>> /\ PostKeeps /\ ProcessKeeps

\* The tick logs the error and ends.
PostClaimFails(t) ==
    /\ ticks["channels"][t].phase = "claim"
    /\ TickEnds("channels", t)
    /\ excused' = excused \cup WaitingSweeps(t)

-----------------------------------------------------------------------------
(* runOnce.                                                                *)

\* Mutant: the channels run beside the producers.
LoopsAtOnce(pc) == IF pc = "first" THEN Producers \cup {"channels"} ELSE
                   IF pc = "analysis" THEN {"analysis"} ELSE {}

\* The three producers at once, then the channels, then the analyses.
LoopsOf(pc) ==
    CASE pc = "first" -> Producers [] pc = "channels" -> {"channels"} [] OTHER -> {"analysis"}

\* tickNow of each: joins the tick in flight, or starts one; nothing once stopping.
SweepEnters(s, pc) ==
    LET L == IF stopping THEN {} ELSE LoopsOf(pc)
        own == {l \in L : inFlight[l] = None}
        late == pc = "channels" /\ inFlight["channels"] # None
                /\ ticks["channels"][inFlight["channels"]].phase = "work"
    IN  /\ TicksStart(own, s)
        /\ sweep' = [sweep EXCEPT ![s] =
               [pc |-> pc, waits |-> {<<l, IF l \in own THEN s ELSE inFlight[l]>> : l \in L}]]
        /\ excused' = IF late THEN excused \cup {s} ELSE excused
        /\ UNCHANGED shutdown /\ PostKeeps /\ ProcessKeeps

\* A host that closes its server takes no more requests.
StartSweep(s) ==
    /\ host = "api" /\ shutdown.done = None
    /\ sweep[s].pc = "idle"
    /\ SweepEnters(s, "first")

SweepGoesOn(s, from, to) ==
    /\ Alive /\ sweep[s].pc = from /\ sweep[s].waits = {}
    /\ SweepEnters(s, to)

SweepReturns(s) ==
    /\ Alive /\ sweep[s].pc = "analysis" /\ sweep[s].waits = {}
    /\ sweep' = [sweep EXCEPT ![s].pc = "idle"]
    /\ postedFor' = [p \in Posts |-> postedFor[p] \ {s}]
    /\ excused' = excused \ {s}
    /\ UNCHANGED <<ticks, inFlight, shutdown, post, overlapped>> /\ ProcessKeeps

-----------------------------------------------------------------------------
(* Shutdown.                                                               *)

\* Steps of each host, one after another and each whatever became of the one before.
ShutdownSteps == [worker |-> <<"stop", "close", "disconnect">>,
                  api |-> <<"close", "stop", "disconnect">>]

AtStep(step) == Alive /\ shutdown.done \in 0 .. 2 /\ ShutdownSteps[host][shutdown.done + 1] = step

RuntimeHistory == <<postedFor, excused, overlapped>>

Signal ==
    /\ shutdown.done = None
    /\ shutdown' = [shutdown EXCEPT !.done = 0]
    /\ UNCHANGED <<host, ticks, inFlight, sweep, stopping, database, post, RuntimeHistory>>

\* Waits for the requests under way, which are sweeps only in the API.
CloseServer ==
    /\ AtStep("close")
    /\ \A s \in Sweeps : sweep[s].pc = "idle"
    /\ shutdown' = [shutdown EXCEPT !.done = @ + 1]
    /\ UNCHANGED <<host, ticks, inFlight, sweep, stopping, database, post, RuntimeHistory>>

\* Every loop clears its timer at once and waits for the tick it calls in flight.
StopLoops ==
    /\ AtStep("stop") /\ ~stopping
    /\ stopping' = TRUE
    /\ shutdown' = [shutdown EXCEPT !.waits =
           {<<l, inFlight[l]>> : l \in {l \in Loops : inFlight[l] # None}}]
    /\ UNCHANGED <<host, ticks, inFlight, sweep, database, post, RuntimeHistory>>

LoopsStopped ==
    /\ AtStep("stop") /\ stopping /\ shutdown.waits = {}
    /\ shutdown' = [shutdown EXCEPT !.done = @ + 1]
    /\ UNCHANGED <<host, ticks, inFlight, sweep, stopping, database, post, RuntimeHistory>>

Disconnect ==
    /\ AtStep("disconnect")
    /\ shutdown' = [shutdown EXCEPT !.done = @ + 1]
    /\ database' \in {"closed", "open"}
    /\ UNCHANGED <<host, ticks, inFlight, sweep, stopping, post, RuntimeHistory>>

\* The watchdog of a shutdown that takes too long.
Killed ==
    /\ Alive /\ shutdown.done \in 0 .. 2
    /\ database' = "gone"
    /\ ticks' = [l \in Loops |-> [t \in Starters |-> NoHostedTick]]
    /\ UNCHANGED <<host, inFlight, sweep, stopping, shutdown, post, RuntimeHistory>>

-----------------------------------------------------------------------------
RuntimeNext ==
    \/ \E l \in Loops : TimerTick(l)
    \/ \E l \in Loops, t \in Starters : EndTick(l, t) \/ \E p \in Posts : QueuePost(l, t, p)
    \/ \E t \in Starters :
           NoPostDue(t) \/ PostClaimFails(t) \/ \E p \in Posts : ClaimPost(t, p)
    \/ \E s \in Sweeps : StartSweep(s) \/ SweepReturns(s)
                         \/ SweepGoesOn(s, "first", "channels")
                         \/ SweepGoesOn(s, "channels", "analysis")
    \/ Signal \/ CloseServer \/ StopLoops \/ LoopsStopped \/ Disconnect \/ Killed

RuntimeSpec == RuntimeInit /\ [][RuntimeNext]_runtimeVars

-----------------------------------------------------------------------------
RuntimeTypeOK ==
    /\ host \in {"worker", "api"}
    /\ ticks \in [Loops -> [Starters -> HostedTick]]
    /\ inFlight \in [Loops -> Starters \cup {None}]
    /\ sweep \in [Sweeps -> HostedSweep]
    /\ stopping \in BOOLEAN
    /\ shutdown \in [done: (0 .. 3) \cup {None}, waits: SUBSET (Loops \X Starters)]
    /\ database \in {"open", "closed", "gone"}
    /\ post \in [Posts -> {"none", "queued", "claimed"}]
    /\ postedFor \in [Posts -> SUBSET Sweeps]
    /\ excused \subseteq Sweeps
    /\ overlapped \subseteq Loops \X Starters

\* "A message queued by this sweep would otherwise wait for the next one": what the ticks a sweep
\* waited for have queued is claimed before the sweep goes on to the analyses, unless the
\* channel tick it joined was past its claims, filled its batch, or could not claim.
SweepDelivers ==
    \A s \in Sweeps \ excused :
        sweep[s].pc = "analysis" => \A p \in Posts : s \in postedFor[p] => post[p] # "queued"

\* "A check still in flight needs the connection it is writing through": no tick runs once the
\* connection is closed but one that the loop lost sight of, because a timer and a sweep
\* had ticks of it at the same time; a worker never has one.
ConnectionOutlivesTicks ==
    database = "closed" => /\ RunningTicks \subseteq overlapped
                           /\ host = "worker" => RunningTicks = {}

\* runOnce, stop, shutdown: the order that a sweep and a shutdown promise is kept, whenever
\* timers fire, ticks fail, sweeps overlap and the signal comes.
RuntimeKeepsOrder == SweepDelivers /\ ConnectionOutlivesTicks
=============================================================================
