------------------------------ MODULE PollLoop ------------------------------
(***************************************************************************)
(* The loop that drives a queue: a timer that starts a tick and is set     *)
(* again when the tick ends, tickNow for the external trigger, wake for    *)
(* work queued in this process, and stop.  ChannelDeliveryLoop is modelled *)
(* here; IncidentAnalysisLoop is the same without wake, and the uptime,    *)
(* monitor and report loops are the same without wake and without going    *)
(* straight back after a full batch.                                       *)
(*                                                                         *)
(* One event loop runs it all: an action is what runs between two awaits.  *)
(***************************************************************************)
EXTENDS Shared

CONSTANTS
    Ticks,      \* ids for running ticks: one for the timer and one per caller
    Callers,    \* requests that may run tickNow at one time
    Messages,   \* documents of the queue
    BatchSize   \* options.queue.batchSize

ASSUME PollAssumption ==
    /\ BatchSize \in Nat \ {0}
    /\ None \notin Ticks

VARIABLES
    timer,    \* this.timer: the delay it was armed with, "none" if null
    orphans,  \* armed timers that this.timer does not name
    stopping, \* this.stopping
    inFlight, \* this.inFlightTick
    tick,     \* the ticks that run
    caller,   \* the tick each tickNow waits for
    stopper,  \* stop(): not called, waiting for a tick, or returned
    queue,    \* the documents
    owed,     \* messages queued by this process whose wake has not run yet
    late,     \* history: queued messages the poll interval is there for: retries,
              \* those of other processes, and what a failed claim left
    dropped   \* history: queued messages whose wake did nothing, during a tick that
              \* claims no more or that the timer did not start

pollVars == <<timer, orphans, stopping, inFlight, tick, caller, stopper, queue, owed, late,
              dropped>>

loop == <<timer, orphans, inFlight>>
requests == <<stopping, caller, stopper>>
messages == <<queue, owed, late, dropped>>

Tick == [phase: {"off", "claim", "work"}, timed: BOOLEAN, claimed: 0 .. BatchSize]

NoTick == [phase |-> "off", timed |-> FALSE, claimed |-> 0]

NewTick(timed) == [phase |-> "claim", timed |-> timed, claimed |-> 0]

Runs(t) == tick[t].phase # "off"

RunsTimed(t) == Runs(t) /\ tick[t].timed

Stopper == [called: BOOLEAN, waits: Ticks \cup {None}]

Returned == stopper.called /\ stopper.waits = None

PollTypeOK ==
    /\ timer \in {"none", "soon", "poll"}
    /\ orphans \in Nat
    /\ stopping \in BOOLEAN
    /\ inFlight \in Ticks \cup {None}
    /\ tick \in [Ticks -> Tick]
    /\ caller \in [Callers -> Ticks \cup {None}]
    /\ stopper \in Stopper
    /\ queue \in [Messages -> {"none", "queued", "claimed"}]
    /\ owed \subseteq Messages
    /\ late \subseteq Messages
    /\ dropped \subseteq Messages

\* start() has run.
PollInit ==
    /\ timer = "soon"
    /\ orphans = 0
    /\ stopping = FALSE
    /\ inFlight = None
    /\ tick = [t \in Ticks |-> NoTick]
    /\ caller = [c \in Callers |-> None]
    /\ stopper = [called |-> FALSE, waits |-> None]
    /\ queue = [m \in Messages |-> "none"]
    /\ owed = {}
    /\ late = {}
    /\ dropped = {}

-----------------------------------------------------------------------------
(* The timer and the tick.                                                 *)

\* Arming the timer over one that is still armed leaves the older one to fire.
Arm(delay) ==
    /\ timer' = delay
    /\ orphans' = IF timer = "none" THEN orphans ELSE orphans + 1

\* Mutant: a tick that ends while the loop is stopping arms the timer again.
ScheduleNextAlways(delay) == Arm(delay)

ScheduleNext(delay) ==
    IF stopping THEN UNCHANGED <<timer, orphans>> ELSE Arm(delay)

\* An armed timer fires sooner or later, whatever its delay, and whether or
\* not a tick is running.
TimerFires(t) ==
    /\ timer # "none"
    /\ ~Runs(t)
    /\ timer' = "none"
    /\ tick' = [tick EXCEPT ![t] = NewTick(TRUE)]
    /\ inFlight' = t
    /\ UNCHANGED <<orphans, requests, messages>>

\* Mutant: one claim more than the batch holds.
ClaimOneMore(t, m) ==
    /\ tick[t].phase = "claim"
    /\ queue[m] = "queued"
    /\ queue' = [queue EXCEPT ![m] = "claimed"]
    /\ late' = late \ {m}
    /\ dropped' = dropped \ {m}
    /\ tick' = [tick EXCEPT ![t].claimed = @ + 1,
                            ![t].phase = IF tick[t].claimed = BatchSize
                                         THEN "work" ELSE "claim"]
    /\ UNCHANGED <<loop, requests, owed>>

\* Claims follow one another until the batch is full or nothing is due.
ClaimOne(t, m) ==
    /\ tick[t].phase = "claim"
    /\ queue[m] = "queued"
    /\ queue' = [queue EXCEPT ![m] = "claimed"]
    /\ late' = late \ {m}
    /\ dropped' = dropped \ {m}
    /\ tick' = [tick EXCEPT ![t].claimed = @ + 1,
                            ![t].phase = IF tick[t].claimed + 1 = BatchSize
                                         THEN "work" ELSE "claim"]
    /\ UNCHANGED <<loop, requests, owed>>

NothingDue(t) ==
    /\ tick[t].phase = "claim"
    /\ \A m \in Messages : queue[m] # "queued"
    /\ tick' = [tick EXCEPT ![t].phase = "work"]
    /\ UNCHANGED <<loop, requests, messages>>

\* Mutant: what is waited for is whatever is in flight when the tick ends.
ReleasedInFlight(waits, t) == IF waits = t /\ inFlight = t THEN None ELSE waits

\* A wait for a promise that has been replaced in inFlightTick is still a wait
\* for that promise.
Released(waits, t) == IF waits = t THEN None ELSE waits

\* Mutant: a full batch waits for the poll interval like any other.
DelayAfterAlwaysPoll(claimed) == "poll"

DelayAfter(claimed) == IF claimed >= BatchSize THEN "soon" ELSE "poll"

\* What ends with a tick: inFlightTick is cleared by whichever ends first, and
\* the tick the timer started sets the timer again.
\*
\* Mutant: only the tick that is still in flight may set the timer again.
EndKeepingTimer(t, claimed) ==
    /\ tick' = [tick EXCEPT ![t] = NoTick]
    /\ inFlight' = None
    /\ caller' = [c \in Callers |-> Released(caller[c], t)]
    /\ stopper' = [stopper EXCEPT !.waits = Released(@, t)]
    /\ IF tick[t].timed /\ inFlight = t
       THEN ScheduleNext(DelayAfter(claimed))
       ELSE UNCHANGED <<timer, orphans>>
    /\ UNCHANGED stopping

End(t, claimed) ==
    /\ tick' = [tick EXCEPT ![t] = NoTick]
    /\ inFlight' = None
    /\ caller' = [c \in Callers |-> Released(caller[c], t)]
    /\ stopper' = [stopper EXCEPT !.waits = Released(@, t)]
    /\ IF tick[t].timed THEN ScheduleNext(DelayAfter(claimed))
                        ELSE UNCHANGED <<timer, orphans>>
    /\ UNCHANGED stopping

\* Every job of the batch has ended; jobs catch their own errors.
Finish(t) ==
    /\ tick[t].phase = "work"
    /\ End(t, tick[t].claimed)
    /\ UNCHANGED messages

\* A claim throws.  What was claimed before it is left to its lease, and what
\* is queued to the next tick.
ClaimFails(t) ==
    /\ tick[t].phase = "claim"
    /\ End(t, 0)
    /\ late' = late \cup {m \in Messages : queue[m] = "queued"}
    /\ UNCHANGED <<queue, owed, dropped>>

-----------------------------------------------------------------------------
(* The calls.                                                              *)

TickNow(c, t) ==
    /\ ~stopping
    /\ caller[c] = None
    /\ ~Runs(t)
    /\ IF inFlight # None
       THEN /\ caller' = [caller EXCEPT ![c] = inFlight]
            /\ UNCHANGED <<tick, inFlight>>
       ELSE /\ caller' = [caller EXCEPT ![c] = t]
            /\ tick' = [tick EXCEPT ![t] = NewTick(FALSE)]
            /\ inFlight' = t
    /\ UNCHANGED <<timer, orphans, stopping, stopper, messages>>

\* Clearing the timer is clearTimeout.
Stop ==
    /\ ~stopper.called
    /\ stopping' = TRUE
    /\ timer' = "none"
    /\ stopper' = [called |-> TRUE, waits |-> inFlight]
    /\ UNCHANGED <<orphans, inFlight, tick, caller, messages>>

\* A message inserted by this process, whose publisher goes on to wake the
\* loop, or by another one.
Enqueue(m, own) ==
    /\ queue[m] = "none"
    /\ queue' = [queue EXCEPT ![m] = "queued"]
    /\ owed' = IF own THEN owed \cup {m} ELSE owed
    /\ late' = IF own THEN late ELSE late \cup {m}
    /\ UNCHANGED <<loop, requests, tick, dropped>>

\* A retry is due, or the lease of a claim that came to nothing has expired.
Requeue(m) ==
    /\ queue[m] = "claimed"
    /\ queue' = [queue EXCEPT ![m] = "queued"]
    /\ late' = late \cup {m}
    /\ UNCHANGED <<loop, requests, tick, owed, dropped>>

\* Mutant: an idle loop without a timer is woken as well.
WakeableWithoutTimer == ~stopping /\ inFlight = None

Wakeable == ~stopping /\ inFlight = None /\ timer # "none"

\* A tick that will look at the queue again at once.
WillClaim(t) == /\ RunsTimed(t)
                /\ tick[t].phase = "claim" \/ tick[t].claimed = BatchSize

\* A wake that finds a tick in flight does nothing.  If that tick does not
\* claim again, the message is left to the poll interval.
Wake(m) ==
    /\ m \in owed
    /\ owed' = owed \ {m}
    /\ IF Wakeable
       THEN /\ timer' = "soon"
            /\ UNCHANGED <<orphans, dropped>>
       ELSE /\ dropped' = IF queue[m] = "queued" /\ ~\E t \in Ticks : WillClaim(t)
                          THEN dropped \cup {m} ELSE dropped
            /\ UNCHANGED <<timer, orphans>>
    /\ UNCHANGED <<inFlight, requests, tick, queue, late>>

-----------------------------------------------------------------------------
(* The specification.                                                      *)

TickStep(t) ==
    \/ \E m \in Messages : ClaimOne(t, m)
    \/ NothingDue(t)
    \/ Finish(t)

PollNext ==
    \/ \E t \in Ticks :
          \/ TimerFires(t)
          \/ TickStep(t)
          \/ ClaimFails(t)
          \/ \E c \in Callers : TickNow(c, t)
    \/ Stop
    \/ \E m \in Messages :
          \/ \E own \in BOOLEAN : Enqueue(m, own)
          \/ Requeue(m)
          \/ Wake(m)

PollSpec == PollInit /\ [][PollNext]_pollVars

\* Timers fire, ticks go on, and the claim takes the message that has been due
\* longest, when claims do not fail for ever.
PollFairness ==
    /\ WF_pollVars(\E t \in Ticks : TimerFires(t))
    /\ \A t \in Ticks : WF_pollVars(TickStep(t))
    /\ \A m \in Messages : SF_pollVars(\E t \in Ticks : ClaimOne(t, m))

PollFairSpec == PollSpec /\ PollFairness

-----------------------------------------------------------------------------
(* Properties.                                                             *)

\* "The next tick is only scheduled once the current one has fully finished",
\* and it always is: until the loop is stopped, there is exactly one armed
\* timer or one tick that will arm it, whatever is called meanwhile.
SoleDriver ==
    /\ orphans = 0
    /\ \A t, u \in Ticks : RunsTimed(t) /\ RunsTimed(u) => t = u
    /\ timer # "none" => \A t \in Ticks : ~RunsTimed(t)
    /\ ~stopping => timer # "none" \/ \E t \in Ticks : RunsTimed(t)

\* The poll interval is "the backstop for retries and for another process's
\* work", for what a failed claim left, and, which wake() does not admit, for a
\* message whose wake came during a tick that claims no more.  Any other message
\* is waited for, once its wake has run, by an immediate timer, or by a tick that
\* claims it or comes straight back.
Prompt ==
    \A m \in Messages :
        ~stopping /\ queue[m] = "queued" /\ m \notin owed \cup late \cup dropped =>
            timer = "soon" \/ \E t \in Ticks : WillClaim(t)

\* Once stop() was called, no tick starts.
StopIsFinal ==
    [][stopping => \A t \in Ticks : ~Runs(t) => tick'[t] = tick[t]]_pollVars

\* No message stays queued for ever, unless the loop is stopped.
EventuallyClaimed == \A m \in Messages : []<>(queue[m] # "queued" \/ stopping)

\* stop() returns, and so does every tickNow.
CallsReturn ==
    /\ []<>(stopper.called => Returned)
    /\ \A c \in Callers : []<>(caller[c] = None)

\* "Stops scheduling new ticks and waits for any in-progress one to finish":
\* when stop() has returned, no tick runs.
StopDrains == Returned => \A t \in Ticks : ~Runs(t)

=============================================================================
