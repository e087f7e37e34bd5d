--------------------------- MODULE PollLoopProofs ---------------------------
(***************************************************************************)
(* Proofs about PollLoop, for any number of ticks, callers and messages.   *)
(* The inductive invariant is the conjunction of the types, SoleDriver,    *)
(* Prompt and the fact that a stopped loop has no timer.                   *)
(***************************************************************************)
EXTENDS PollLoop, TLAPS

\* What stop() leaves, and nothing sets again.
StoppedHasNoTimer == stopping => timer = "none"

-----------------------------------------------------------------------------
(* Types.                                                                  *)

\* The end of a tick keeps the types.
LEMMA EndTyping ==
    ASSUME PollTypeOK, NEW t \in Ticks, NEW claimed \in 0 .. BatchSize, End(t, claimed)
    PROVE  /\ timer' \in {"none", "soon", "poll"}
           /\ orphans' \in Nat
           /\ stopping' \in BOOLEAN
           /\ inFlight' \in Ticks \cup {None}
           /\ tick' \in [Ticks -> Tick]
           /\ caller' \in [Callers -> Ticks \cup {None}]
           /\ stopper' \in Stopper
  <1>1. NoTick \in Tick
    BY PollAssumption DEF NoTick, Tick
  <1>2. timer' \in {"none", "soon", "poll"} /\ orphans' \in Nat
    BY DEF PollTypeOK, End, ScheduleNext, Arm, DelayAfter
  <1>3. tick' \in [Ticks -> Tick]
    BY <1>1 DEF PollTypeOK, End
  <1>4. stopper' \in Stopper
    BY DEF PollTypeOK, End, Stopper, Released
  <1>5. caller' \in [Callers -> Ticks \cup {None}]
    BY DEF PollTypeOK, End, Released
  <1> QED
    BY <1>2, <1>3, <1>4, <1>5 DEF PollTypeOK, End

\* A tick that goes on claiming has room in its batch.
HasRoom == \A t \in Ticks : tick[t].phase = "claim" => tick[t].claimed < BatchSize

\* Every step keeps that room: a tick starts with an empty batch, and stops
\* claiming when it is full.
LEMMA RoomStep == PollTypeOK /\ HasRoom /\ [PollNext]_pollVars => HasRoom'
  <1> SUFFICES ASSUME PollTypeOK, HasRoom, [PollNext]_pollVars PROVE HasRoom'
    OBVIOUS
  <1> USE PollAssumption
  <1>1. ASSUME NEW t \in Ticks, TimerFires(t) PROVE HasRoom'
    BY <1>1 DEF TimerFires, PollTypeOK, HasRoom, NewTick
  <1>2. ASSUME NEW t \in Ticks, NEW m \in Messages, ClaimOne(t, m) PROVE HasRoom'
    <2> SUFFICES ASSUME NEW u \in Ticks, tick'[u].phase = "claim"
                 PROVE  tick'[u].claimed < BatchSize
      BY DEF HasRoom
    <2>1. tick[u] \in Tick
      BY DEF PollTypeOK
    <2>2. CASE u = t
      BY <1>2, <2>1, <2>2 DEF ClaimOne, PollTypeOK, HasRoom, Tick
    <2>3. CASE u # t
      BY <1>2, <2>3 DEF ClaimOne, PollTypeOK, HasRoom
    <2> QED
      BY <2>2, <2>3
  <1>3. ASSUME NEW t \in Ticks, NothingDue(t) PROVE HasRoom'
    BY <1>3 DEF NothingDue, PollTypeOK, HasRoom
  <1>4. ASSUME NEW t \in Ticks, Finish(t) \/ ClaimFails(t) PROVE HasRoom'
    BY <1>4 DEF Finish, ClaimFails, End, PollTypeOK, HasRoom, NoTick
  <1>5. ASSUME NEW c \in Callers, NEW t \in Ticks, TickNow(c, t) PROVE HasRoom'
    BY <1>5 DEF TickNow, PollTypeOK, HasRoom, NewTick
  <1>6. CASE UNCHANGED tick
    BY <1>6 DEF HasRoom
  <1> QED
    BY <1>1, <1>2, <1>3, <1>4, <1>5, <1>6
       DEF PollNext, TickStep, Stop, Enqueue, Requeue, Wake, pollVars

\* Every step keeps the types: no batch claims more than BatchSize, and what
\* is waited for is a tick.
LEMMA TypeStep == PollTypeOK /\ HasRoom /\ [PollNext]_pollVars => PollTypeOK'
  <1> SUFFICES ASSUME PollTypeOK, HasRoom, [PollNext]_pollVars PROVE PollTypeOK'
    OBVIOUS
  <1> USE PollAssumption
  <1>1. \A timed \in BOOLEAN : NewTick(timed) \in Tick
    BY DEF NewTick, Tick
  <1>2. ASSUME NEW t \in Ticks, TimerFires(t) PROVE PollTypeOK'
    BY <1>1, <1>2 DEF TimerFires, PollTypeOK, requests, messages
  <1>3. ASSUME NEW t \in Ticks, NEW m \in Messages, ClaimOne(t, m) PROVE PollTypeOK'
    <2> DEFINE next == IF tick[t].claimed + 1 = BatchSize THEN "work" ELSE "claim"
               more == tick[t].claimed + 1
               new  == [tick[t] EXCEPT !.claimed = more, !.phase = next]
    <2>1. tick[t] \in Tick /\ tick[t].claimed < BatchSize
      BY <1>3 DEF PollTypeOK, HasRoom, ClaimOne
    <2>2. next \in {"claim", "work"} /\ more \in 0 .. BatchSize
      BY <2>1 DEF Tick
    <2>3. tick' = [tick EXCEPT ![t] = new]
      BY <1>3 DEF ClaimOne
    <2> HIDE DEF next, more
    <2>4. new \in Tick
      BY <2>1, <2>2 DEF Tick
    <2>5. queue' \in [Messages -> {"none", "queued", "claimed"}] /\ late' \cup dropped' \subseteq Messages
      BY <1>3 DEF PollTypeOK, ClaimOne
    <2> HIDE DEF new
    <2> QED
      BY <2>3, <2>5, <2>4, <1>3 DEF PollTypeOK, ClaimOne, loop, requests
  <1>4. ASSUME NEW t \in Ticks, NothingDue(t) PROVE PollTypeOK'
    <2>1. [tick[t] EXCEPT !.phase = "work"] \in Tick
      BY DEF PollTypeOK, Tick
    <2> QED
      BY <2>1, <1>4 DEF NothingDue, PollTypeOK, loop, requests, messages
  <1>5. ASSUME NEW t \in Ticks, Finish(t) PROVE PollTypeOK'
    <2>1. tick[t].claimed \in 0 .. BatchSize
      BY DEF PollTypeOK, Tick
    <2> QED
      BY <1>5, <2>1, EndTyping DEF Finish, PollTypeOK, messages
  <1>6. ASSUME NEW t \in Ticks, ClaimFails(t) PROVE PollTypeOK'
    <2>1. End(t, 0) /\ 0 \in 0 .. BatchSize
      BY <1>6 DEF ClaimFails
    <2>2. queue' = queue /\ owed' = owed /\ late' \cup dropped' \subseteq Messages
      BY <1>6 DEF ClaimFails, PollTypeOK
    <2> QED
      BY <2>1, <2>2, EndTyping DEF PollTypeOK
  <1>7. ASSUME NEW c \in Callers, NEW t \in Ticks, TickNow(c, t) PROVE PollTypeOK'
    BY <1>1, <1>7 DEF TickNow, PollTypeOK, messages
  <1>8. ASSUME Stop PROVE PollTypeOK'
    BY <1>8 DEF Stop, PollTypeOK, Stopper, messages
  <1>9. ASSUME NEW m \in Messages, NEW own \in BOOLEAN, Enqueue(m, own) PROVE PollTypeOK'
    BY <1>9 DEF Enqueue, PollTypeOK, loop, requests
  <1>10. ASSUME NEW m \in Messages, Requeue(m) PROVE PollTypeOK'
    BY <1>10 DEF Requeue, PollTypeOK, loop, requests
  <1>11. ASSUME NEW m \in Messages, Wake(m) PROVE PollTypeOK'
    BY <1>11 DEF Wake, PollTypeOK, requests
  <1>12. CASE UNCHANGED pollVars
    BY <1>12 DEF pollVars, PollTypeOK
  <1> QED
    BY <1>2, <1>3, <1>4, <1>5, <1>6, <1>7, <1>8, <1>9, <1>10, <1>11, <1>12
       DEF PollNext, TickStep

\* Every state is well typed, and no tick claims into a full batch.
THEOREM TypeCorrectness == PollSpec => [](PollTypeOK /\ HasRoom)
  <1>1. PollInit => PollTypeOK /\ HasRoom
    <2> SUFFICES ASSUME PollInit PROVE PollTypeOK /\ HasRoom
      OBVIOUS
    <2>1. NoTick \in Tick /\ NoTick.phase = "off"
      BY PollAssumption DEF NoTick, Tick
    <2>2. tick \in [Ticks -> Tick] /\ HasRoom
      BY <2>1 DEF PollInit, HasRoom
    <2>3. stopper \in Stopper
      BY DEF PollInit, Stopper
    <2> QED
      BY <2>2, <2>3 DEF PollInit, PollTypeOK
  <1>2. PollTypeOK /\ HasRoom /\ [PollNext]_pollVars => PollTypeOK' /\ HasRoom'
    BY TypeStep, RoomStep
  <1> QED
    BY <1>1, <1>2, PTL DEF PollSpec

-----------------------------------------------------------------------------
(* One driver, and nothing after stop().                                   *)

\* Between stop() and its return nothing arms the timer, and while the loop
\* lives its timer and its timed tick take turns.
LEMMA DriverStep ==
    PollTypeOK /\ SoleDriver /\ StoppedHasNoTimer /\ [PollNext]_pollVars
        => SoleDriver' /\ StoppedHasNoTimer'
  <1> SUFFICES ASSUME PollTypeOK, SoleDriver, StoppedHasNoTimer, [PollNext]_pollVars
               PROVE  SoleDriver' /\ StoppedHasNoTimer'
    OBVIOUS
  <1> USE DEF SoleDriver, StoppedHasNoTimer, RunsTimed, Runs, PollTypeOK
  <1>1. ASSUME NEW t \in Ticks, TimerFires(t)
        PROVE  SoleDriver' /\ StoppedHasNoTimer'
    BY <1>1 DEF TimerFires, NewTick, requests
  <1>2. ASSUME NEW t \in Ticks, \E m \in Messages : ClaimOne(t, m)
        PROVE  SoleDriver' /\ StoppedHasNoTimer'
    <2>1. \A u \in Ticks : RunsTimed(u)' <=> RunsTimed(u)
      BY <1>2 DEF ClaimOne, Tick
    <2> QED
      BY <1>2, <2>1 DEF ClaimOne, loop, requests
  <1>3. ASSUME NEW t \in Ticks, NothingDue(t)
        PROVE  SoleDriver' /\ StoppedHasNoTimer'
    <2>1. \A u \in Ticks : RunsTimed(u)' <=> RunsTimed(u)
      BY <1>3 DEF NothingDue, Tick
    <2> QED
      BY <1>3, <2>1 DEF NothingDue, loop, requests
  <1>4. ASSUME NEW t \in Ticks, NEW claimed \in 0 .. BatchSize, Runs(t), End(t, claimed)
        PROVE  SoleDriver' /\ StoppedHasNoTimer'
    <2>1. \A u \in Ticks : RunsTimed(u)' <=> RunsTimed(u) /\ u # t
      BY <1>4 DEF End, NoTick
    <2>2. CASE tick[t].timed /\ ~stopping
      BY <1>4, <2>1, <2>2 DEF End, ScheduleNext, Arm, DelayAfter
    <2>3. CASE ~tick[t].timed \/ stopping
      BY <1>4, <2>1, <2>3 DEF End, ScheduleNext
    <2> QED
      BY <2>2, <2>3
  <1>5. ASSUME NEW t \in Ticks, Finish(t) \/ ClaimFails(t)
        PROVE  SoleDriver' /\ StoppedHasNoTimer'
    <2>1. Runs(t) /\ tick[t].claimed \in 0 .. BatchSize /\ 0 \in 0 .. BatchSize
      BY <1>5, PollAssumption DEF Finish, ClaimFails, Tick
    <2> QED
      BY <1>4, <1>5, <2>1 DEF Finish, ClaimFails
  <1>6. ASSUME NEW c \in Callers, NEW t \in Ticks, TickNow(c, t)
        PROVE  SoleDriver' /\ StoppedHasNoTimer'
    <2>1. \A u \in Ticks : RunsTimed(u)' <=> RunsTimed(u)
      BY <1>6 DEF TickNow, NewTick
    <2> QED
      BY <1>6, <2>1 DEF TickNow
  <1>7. CASE Stop
    BY <1>7 DEF Stop
  <1>8. ASSUME NEW m \in Messages, Wake(m)
        PROVE  SoleDriver' /\ StoppedHasNoTimer'
    BY <1>8 DEF Wake, Wakeable, requests
  <1>9. CASE UNCHANGED <<loop, requests, tick>>
    BY <1>9 DEF loop, requests
  <1>10. CASE \E m \in Messages : (\E own \in BOOLEAN : Enqueue(m, own)) \/ Requeue(m)
    BY <1>9, <1>10 DEF Enqueue, Requeue
  <1>11. CASE UNCHANGED pollVars
    BY <1>9, <1>11 DEF pollVars, loop, requests
  <1> QED
    BY <1>1, <1>2, <1>3, <1>5, <1>6, <1>7, <1>8, <1>10, <1>11 DEF PollNext, TickStep

\* Until it is stopped the loop has exactly one armed timer or one tick that
\* will arm it, however tickNow, wake and failing claims interleave.
THEOREM SoleDriverAlways == PollSpec => []SoleDriver
  <1>1. PollInit => SoleDriver /\ StoppedHasNoTimer
    BY DEF PollInit, SoleDriver, StoppedHasNoTimer, RunsTimed, Runs, NoTick
  <1> QED
    BY <1>1, TypeCorrectness, DriverStep, PTL DEF PollSpec

\* Once stop() was called, no tick starts: not by the timer, which is gone,
\* and not by a request, which is refused.
THEOREM StopIsFinalAlways == PollSpec => StopIsFinal
  <1>1. PollInit => SoleDriver /\ StoppedHasNoTimer
    BY DEF PollInit, SoleDriver, StoppedHasNoTimer, RunsTimed, Runs, NoTick
  <1>2. ASSUME PollTypeOK, StoppedHasNoTimer, [PollNext]_pollVars
        PROVE  [stopping => \A t \in Ticks : ~Runs(t) => tick'[t] = tick[t]]_pollVars
    <2> SUFFICES ASSUME stopping, PollNext, NEW t \in Ticks, ~Runs(t)
                 PROVE  tick'[t] = tick[t]
      BY <1>2
    <2>1. timer = "none"
      BY <1>2 DEF StoppedHasNoTimer
    <2>2. ASSUME NEW u \in Ticks, TickStep(u) \/ ClaimFails(u) PROVE tick'[t] = tick[t]
      <3>1. Runs(u)
        BY <2>2 DEF TickStep, ClaimOne, NothingDue, Finish, ClaimFails, Runs
      <3> QED
        BY <1>2, <2>2, <3>1
           DEF TickStep, ClaimOne, NothingDue, Finish, ClaimFails, End, PollTypeOK
    <2> QED
      BY <2>1, <2>2 DEF PollNext, TimerFires, TickNow, Stop, Enqueue, Requeue, Wake
  <1> QED
    BY <1>1, <1>2, TypeCorrectness, DriverStep, PTL DEF PollSpec, StopIsFinal

-----------------------------------------------------------------------------
(* Promptness.                                                             *)

\* A message that the timer or a tick would take up at once.
Waited == timer = "soon" \/ \E t \in Ticks : WillClaim(t)

\* Every step keeps Prompt.  The ends of ticks are the crux: only the timed
\* tick could have been the one that comes back, and it does if it was full.
LEMMA PromptStep ==
    PollTypeOK /\ HasRoom /\ SoleDriver /\ Prompt /\ [PollNext]_pollVars => Prompt'
  <1> SUFFICES ASSUME PollTypeOK, HasRoom, SoleDriver, Prompt, [PollNext]_pollVars,
                      NEW n \in Messages,
                      ~stopping', queue'[n] = "queued", n \notin owed' \cup late' \cup dropped'
               PROVE  Waited'
    BY DEF Prompt, Waited
  <1> USE DEF WillClaim, RunsTimed, Runs
  <1>0. (~stopping /\ queue[n] = "queued" /\ n \notin owed \cup late \cup dropped) => Waited
    BY DEF Prompt, Waited
  <1>1. ASSUME NEW t \in Ticks, TimerFires(t) PROVE Waited'
    BY <1>1 DEF TimerFires, PollTypeOK, NewTick, Waited
  <1>2. ASSUME NEW t \in Ticks, NEW m \in Messages, ClaimOne(t, m) PROVE Waited'
    <2>1. Waited
      BY <1>0, <1>2 DEF ClaimOne, requests, PollTypeOK
    <2>2. \A u \in Ticks : WillClaim(u) => WillClaim(u)'
      BY <1>2, PollAssumption DEF ClaimOne, PollTypeOK, Tick
    <2> QED
      BY <1>2, <2>1, <2>2 DEF Waited, ClaimOne, loop
  <1>3. ASSUME NEW t \in Ticks, NothingDue(t) PROVE FALSE
    BY <1>3 DEF NothingDue, messages
  <1>4. ASSUME NEW t \in Ticks, Finish(t) PROVE Waited'
    <2>1. Waited /\ ~stopping
      BY <1>0, <1>4 DEF Finish, End, messages
    <2>2. CASE WillClaim(t)
      BY <1>4, <2>1, <2>2, PollAssumption
         DEF Finish, End, ScheduleNext, Arm, DelayAfter, Waited
    <2>3. CASE ~tick[t].timed
      <3>1. \A u \in Ticks : WillClaim(u) => WillClaim(u)'
        BY <1>4, <2>3 DEF Finish, End, PollTypeOK
      <3> QED
        BY <1>4, <2>1, <2>3, <3>1 DEF Finish, End, Waited
    <2>4. CASE tick[t].timed /\ ~WillClaim(t)
      BY <1>4, <2>1, <2>4 DEF Finish, SoleDriver, Waited
    <2> QED
      BY <2>2, <2>3, <2>4
  <1>5. ASSUME NEW t \in Ticks, ClaimFails(t) PROVE FALSE
    BY <1>5 DEF ClaimFails
  <1>6. ASSUME NEW c \in Callers, NEW t \in Ticks, TickNow(c, t) PROVE Waited'
    <2>1. Waited
      BY <1>0, <1>6 DEF TickNow, messages
    <2>2. \A u \in Ticks : WillClaim(u) => WillClaim(u)'
      BY <1>6 DEF TickNow, PollTypeOK
    <2> QED
      BY <1>6, <2>1, <2>2 DEF Waited, TickNow
  <1>7. ASSUME Stop PROVE FALSE
    BY <1>7 DEF Stop
  <1>8. ASSUME NEW m \in Messages, \E own \in BOOLEAN : Enqueue(m, own) PROVE Waited'
    <2>1. n # m
      BY <1>8 DEF Enqueue
    <2>2. Waited
      BY <1>0, <1>8, <2>1 DEF Enqueue, requests, PollTypeOK
    <2> QED
      BY <1>8, <2>2 DEF Waited, Enqueue, loop
  <1>9. ASSUME NEW m \in Messages, Requeue(m) PROVE Waited'
    <2>1. n # m
      BY <1>9 DEF Requeue
    <2>2. Waited
      BY <1>0, <1>9, <2>1 DEF Requeue, requests, PollTypeOK
    <2> QED
      BY <1>9, <2>2 DEF Waited, Requeue, loop
  <1>10. ASSUME NEW m \in Messages, Wake(m) PROVE Waited'
    <2>1. CASE Wakeable
      BY <1>10, <2>1 DEF Wake, Waited
    <2>2. CASE ~Wakeable /\ n = m
      BY <1>10, <2>2 DEF Wake, Waited
    <2>3. CASE ~Wakeable /\ n # m
      <3>1. Waited
        BY <1>0, <1>10, <2>3 DEF Wake, requests
      <3> QED
        BY <1>10, <2>3, <3>1 DEF Wake, Waited
    <2> QED
      BY <2>1, <2>2, <2>3
  <1>11. ASSUME UNCHANGED pollVars PROVE Waited'
    BY <1>0, <1>11 DEF pollVars, Waited
  <1> QED
    BY <1>1, <1>2, <1>3, <1>4, <1>5, <1>6, <1>7, <1>8, <1>9, <1>10, <1>11
       DEF PollNext, TickStep

\* A message queued by this process is left to the poll interval only after a
\* retry, a failed claim, or a wake that a tick in flight let pass.
THEOREM PromptAlways == PollSpec => []Prompt
  <1>1. PollInit => SoleDriver /\ StoppedHasNoTimer /\ Prompt
    BY DEF PollInit, SoleDriver, StoppedHasNoTimer, RunsTimed, Runs, NoTick, Prompt
  <1> QED
    BY <1>1, TypeCorrectness, DriverStep, PromptStep, PTL DEF PollSpec

=============================================================================
