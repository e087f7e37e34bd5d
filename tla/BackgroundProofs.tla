-------------------------- MODULE BackgroundProofs --------------------------
(***************************************************************************)
(* Proofs about work of the background processes: one check of a website,  *)
(* for any number of attempts, of redirects and of addresses, whichever of *)
(* them are refused; the mails of one alert, for any number of members, of *)
(* jobs that dispatch it and of attempts, with any number of crashes; the  *)
(* process that hosts the loops, for any number of sweeps and messages; an *)
(* auxiliary monitor, for any number of runs and incidents; a crawl, for   *)
(* every site; and what they promise together with the work queues.        *)
(***************************************************************************)
EXTENDS BackgroundWork, WorkQueueProofs

-----------------------------------------------------------------------------
(* One check of a website.                                                 *)

\* A check that is under way has attempts left, and every request took at most one timeout.
WithinBudget ==
    /\ Len(attempted) <= CheckAttempts
    /\ check.pc # "done" => Len(attempted) < CheckAttempts
    /\ elapsed <= (MaxRedirects + 1) * Len(attempted)
                  + (IF check.pc = "done" THEN 0 ELSE check.redirectCount)

Blip(outcome) == outcome # Up /\ Retryable(outcome)

\* An attempt that was followed by another, or is about to be, was a blip.
BlipsOnly ==
    /\ \A i \in 1 .. Len(attempted) : i < Len(attempted) => Blip(attempted[i])
    /\ check.pc # "done" /\ Len(attempted) > 0 => Blip(attempted[Len(attempted)])
    /\ check.pc = "done" =>
           /\ Len(attempted) > 0
           /\ \/ attempted[Len(attempted)] = Up
              \/ Len(attempted) = CheckAttempts
              \/ ~Retryable(attempted[Len(attempted)])

CheckInv == CheckTypeOK /\ WithinBudget /\ BlipsOnly

-----------------------------------------------------------------------------
\* The budget of one more attempt, and that of all of them.
LEMMA Budgets ==
    ASSUME NEW r \in Nat, NEW n \in Nat, NEW a \in Nat
    PROVE  /\ r * n \in Nat
           /\ r * (n + 1) = r * n + r
           /\ n <= a => r * n <= r * a
BY Z3

\* What ends an attempt is an outcome.
LEMMA FailedType ==
    ASSUME NEW type \in ErrorTypes PROVE Failed(type) \in CheckOutcomes
BY DEF Failed, CheckOutcomes

LEMMA UpType == Up \in CheckOutcomes
BY DEF Up, CheckOutcomes

LEMMA HopFields ==
    ASSUME CheckTypeOK
    PROVE  /\ check = [pc |-> check.pc, url |-> check.url, redirectCount |-> check.redirectCount]
           /\ check.pc \in {"validate", "request", "done"} /\ check.url \in Hops
           /\ check.redirectCount \in 0 .. MaxRedirects /\ check.redirectCount \in Nat
           /\ Len(attempted) \in Nat
BY SiteCheckAssumption DEF CheckTypeOK, Check

LEMMA FirstHopFields ==
    FirstHop \in Check /\ FirstHop.pc = "validate" /\ FirstHop.redirectCount = 0
BY SiteCheckAssumption DEF FirstHop, Check

\* However an attempt ends, and whether or not its last request took its whole timeout, the
\* invariant holds of what comes after it.
LEMMA AttemptEndsKeepsInv ==
    ASSUME CheckInv, check.pc # "done", NEW outcome \in CheckOutcomes, AttemptEnds(outcome),
           elapsed' \in {elapsed, elapsed + 1}
    PROVE  CheckInv'
<1> DEFINE n == Len(attempted)
<1>1. n \in Nat /\ n < CheckAttempts /\ check.redirectCount \in 0 .. MaxRedirects
      /\ CheckAttempts \in Nat /\ MaxRedirects \in Nat /\ elapsed \in Nat
  BY HopFields, SiteCheckAssumption DEF CheckInv, CheckTypeOK, WithinBudget
<1>2. attempted \in Seq(CheckOutcomes)
  BY DEF CheckInv, CheckTypeOK
<1>3. /\ attempted' \in Seq(CheckOutcomes) /\ Len(attempted') = n + 1
      /\ attempted'[n + 1] = outcome
      /\ \A i \in 1 .. n : attempted'[i] = attempted[i]
  BY <1>2 DEF AttemptEnds
<1>4. check' \in Check
      /\ (check'.pc = "done" \/ (check'.pc = "validate" /\ check'.redirectCount = 0))
  <2>1. [check EXCEPT !.pc = "done"] \in Check /\ [check EXCEPT !.pc = "done"].pc = "done"
    BY DEF CheckInv, CheckTypeOK, Check
  <2> QED BY <2>1, FirstHopFields DEF AttemptEnds
<1>5. /\ check'.pc = "done" => outcome = Up \/ ~Retryable(outcome) \/ n + 1 >= CheckAttempts
      /\ check'.pc # "done" => Blip(outcome) /\ n + 1 < CheckAttempts
  <2>1. CASE outcome = Up \/ ~Retryable(outcome) \/ n + 1 >= CheckAttempts
    <3>1. check' = [check EXCEPT !.pc = "done"]
      BY <2>1, <1>3 DEF AttemptEnds
    <3>2. check'.pc = "done"
      BY <3>1 DEF CheckInv, CheckTypeOK, Check
    <3> QED BY <2>1, <3>2
  <2>2. CASE ~(outcome = Up \/ ~Retryable(outcome) \/ n + 1 >= CheckAttempts)
    <3>1. check' = FirstHop
      BY <2>2, <1>3 DEF AttemptEnds
    <3> QED BY <2>2, <3>1, <1>1, FirstHopFields DEF Blip
  <2> QED BY <2>1, <2>2
<1>6. CheckTypeOK'
  BY <1>1, <1>3, <1>4 DEF CheckTypeOK
<1>7. WithinBudget'
  <2>1. elapsed' <= (MaxRedirects + 1) * n + (MaxRedirects + 1)
    <3>1. elapsed <= (MaxRedirects + 1) * n + check.redirectCount
      BY DEF CheckInv, WithinBudget
    <3>2. (MaxRedirects + 1) * n \in Nat
      BY <1>1, Budgets
    <3> HIDE DEF n
    <3> QED BY <3>1, <3>2, <1>1
  <2>2. elapsed' <= (MaxRedirects + 1) * (n + 1)
    BY <2>1, <1>1, Budgets
  <2>3. elapsed' <= (MaxRedirects + 1) * Len(attempted')
    BY <2>2, <1>3
  <2>4. (MaxRedirects + 1) * Len(attempted') \in Nat
    BY <1>1, <1>3, Budgets
  <2>5. (IF check'.pc = "done" THEN 0 ELSE check'.redirectCount) = 0
    BY <1>4
  <2>6. Len(attempted') <= CheckAttempts /\ (check'.pc # "done" => Len(attempted') < CheckAttempts)
    BY <1>1, <1>3, <1>5
  <2> QED BY <2>3, <2>4, <2>5, <2>6, <1>1 DEF WithinBudget
<1>8. BlipsOnly'
  <2>1. ASSUME NEW i \in 1 .. n PROVE Blip(attempted'[i])
    <3>1. Blip(attempted[i])
      <4>1. CASE i < n
        BY <4>1 DEF CheckInv, BlipsOnly
      <4>2. CASE i = n
        BY <4>2, <1>1 DEF CheckInv, BlipsOnly
      <4> QED BY <4>1, <4>2, <1>1
    <3> QED BY <3>1, <1>3
  <2>2. \A i \in 1 .. Len(attempted') : i < Len(attempted') => Blip(attempted'[i])
    BY <2>1, <1>1, <1>3
  <2>3. check'.pc # "done" => Blip(attempted'[Len(attempted')])
    BY <1>3, <1>5
  <2>4. check'.pc = "done" =>
            \/ attempted'[Len(attempted')] = Up
            \/ Len(attempted') = CheckAttempts
            \/ ~Retryable(attempted'[Len(attempted')])
    BY <1>1, <1>3, <1>5
  <2>5. Len(attempted') > 0
    BY <1>1, <1>3
  <2> QED BY <2>2, <2>3, <2>4, <2>5 DEF BlipsOnly, Blip, Retryable
<1> QED BY <1>6, <1>7, <1>8 DEF CheckInv

\* A hop that passes, and a redirect that is followed, go on within the same attempt.
LEMMA HopKeepsInv ==
    ASSUME CheckInv, check.pc # "done", check' \in Check, check'.pc # "done",
           UNCHANGED attempted, elapsed' \in Nat,
           elapsed' - elapsed <= check'.redirectCount - check.redirectCount
    PROVE  CheckInv'
<1>1. CheckTypeOK'
  BY DEF CheckInv, CheckTypeOK
<1>2. WithinBudget'
  <2> DEFINE b == (MaxRedirects + 1) * Len(attempted)
  <2>1. b \in Nat /\ elapsed \in Nat /\ check.redirectCount \in Nat /\ check'.redirectCount \in Nat
    <3>1. Len(attempted) \in Nat /\ check.redirectCount \in Nat
      BY HopFields DEF CheckInv
    <3>2. check'.redirectCount \in Nat
      BY SiteCheckAssumption DEF Check
    <3> QED BY <3>1, <3>2, Budgets, SiteCheckAssumption DEF CheckInv, CheckTypeOK
  <2>2. elapsed <= b + check.redirectCount
    BY DEF CheckInv, WithinBudget
  <2>3. (MaxRedirects + 1) * Len(attempted') = b
    OBVIOUS
  <2>4. Len(attempted') < CheckAttempts /\ Len(attempted') <= CheckAttempts
    BY HopFields, SiteCheckAssumption DEF CheckInv, WithinBudget
  <2> HIDE DEF b
  <2>5. elapsed' <= b + check'.redirectCount
    BY <2>1, <2>2
  <2> QED BY <2>3, <2>4, <2>5 DEF WithinBudget
<1>3. BlipsOnly'
  BY DEF CheckInv, BlipsOnly, Blip, Retryable
<1> QED BY <1>1, <1>2, <1>3 DEF CheckInv

LEMMA CheckInitInv == CheckInit => CheckInv
<1> SUFFICES ASSUME CheckInit PROVE CheckInv
  OBVIOUS
<1>1. check = FirstHop /\ attempted = <<>> /\ elapsed = 0 /\ Len(attempted) = 0
  BY DEF CheckInit
<1>2. CheckTypeOK
  BY <1>1, FirstHopFields DEF CheckTypeOK
<1>3. WithinBudget
  <2>1. (MaxRedirects + 1) * 0 = 0
    BY SiteCheckAssumption
  <2> QED BY <1>1, <2>1, FirstHopFields, SiteCheckAssumption DEF WithinBudget
<1>4. BlipsOnly
  BY <1>1, FirstHopFields DEF BlipsOnly
<1> QED BY <1>2, <1>3, <1>4 DEF CheckInv

LEMMA CheckStep == CheckInv /\ [CheckNext]_checkVars => CheckInv'
<1> SUFFICES ASSUME CheckInv, [CheckNext]_checkVars PROVE CheckInv'
  OBVIOUS
<1>e. elapsed \in Nat
  BY DEF CheckInv, CheckTypeOK
<1>1. CASE ValidateHop
  <2>1. check.pc # "done" /\ elapsed' = elapsed
    BY <1>1 DEF ValidateHop
  <2>2. CASE Refusal(check.url) # None
    <3>1. Refusal(check.url) \in ErrorTypes
      BY <2>2 DEF Refusal, ErrorTypes
    <3> QED BY <1>1, <2>1, <2>2, <3>1, FailedType, AttemptEndsKeepsInv DEF ValidateHop
  <2>3. CASE Refusal(check.url) = None
    <3>1. check' = [check EXCEPT !.pc = "request"] /\ UNCHANGED attempted
      BY <1>1, <2>3 DEF ValidateHop
    <3>2. check' \in Check /\ check'.pc = "request" /\ check'.redirectCount = check.redirectCount
      BY <3>1 DEF CheckInv, CheckTypeOK, Check
    <3>3. check.redirectCount \in Nat
      BY HopFields DEF CheckInv
    <3> QED BY <2>1, <3>1, <3>2, <3>3, <1>e, HopKeepsInv
  <2> QED BY <2>2, <2>3
<1>2. CASE Answered
  <2>1. check.pc # "done" /\ elapsed' \in {elapsed, elapsed + 1}
    BY <1>2 DEF Answered, Asks
  <2> QED BY <1>2, <2>1, UpType, FailedType, AttemptEndsKeepsInv DEF Answered, ErrorTypes
<1>3. CASE Unresolved
  <2>1. check.pc # "done" /\ elapsed' \in {elapsed, elapsed + 1}
    BY <1>3 DEF Unresolved, Asks
  <2> QED BY <1>3, <2>1, FailedType, AttemptEndsKeepsInv DEF Unresolved, ErrorTypes
<1>4. CASE RequestThrows
  <2>1. check.pc # "done" /\ elapsed' \in {elapsed, elapsed + 1}
    BY <1>4 DEF RequestThrows, Asks
  <2> QED BY <1>4, <2>1, FailedType, AttemptEndsKeepsInv DEF RequestThrows, ErrorTypes
<1>5. ASSUME NEW url \in Hops, Redirected(url) PROVE CheckInv'
  <2>1. check.pc # "done" /\ elapsed' \in {elapsed, elapsed + 1}
    BY <1>5 DEF Redirected, Asks
  <2>2. CASE RedirectsUsedUp
    BY <1>5, <2>1, <2>2, FailedType, AttemptEndsKeepsInv DEF Redirected, ErrorTypes
  <2>3. CASE ~RedirectsUsedUp
    <3> DEFINE c == check.redirectCount
    <3>1. check' = [pc |-> "validate", url |-> url, redirectCount |-> c + 1] /\ UNCHANGED attempted
      BY <1>5, <2>3 DEF Redirected
    <3>2. c \in Nat /\ c + 1 \in 0 .. MaxRedirects
      BY <2>3, HopFields, SiteCheckAssumption DEF CheckInv, RedirectsUsedUp
    <3>3. check' \in Check /\ check'.pc # "done" /\ check'.redirectCount = c + 1
      BY <3>1, <3>2 DEF Check
    <3>4. elapsed' \in Nat /\ elapsed' - elapsed <= 1
      <4>1. elapsed' = elapsed \/ elapsed' = elapsed + 1
        BY <2>1
      <4> QED BY <4>1, <1>e
    <3>5. elapsed' - elapsed <= check'.redirectCount - check.redirectCount
      BY <3>2, <3>3, <3>4
    <3> QED BY <2>1, <3>1, <3>3, <3>4, <3>5, HopKeepsInv
  <2> QED BY <2>2, <2>3
<1>6. CASE UNCHANGED checkVars
  BY <1>6 DEF checkVars, CheckInv, CheckTypeOK, WithinBudget, BlipsOnly, Blip, Retryable
<1> QED BY <1>1, <1>2, <1>3, <1>4, <1>5, <1>6 DEF CheckNext

-----------------------------------------------------------------------------
\* A check never takes longer than the lease that was computed for it, and retries blips and
\* nothing else, whatever the site answers.
THEOREM CheckKeepsItsWordAlways == CheckSpec => []CheckKeepsItsWord
<1>1. CheckInv => CheckKeepsItsWord
  <2> SUFFICES ASSUME CheckInv PROVE CheckKeepsItsWord
    OBVIOUS
  <2>1. CheckFitsItsLease
    <3> DEFINE m == MaxRedirects + 1
               n == Len(attempted)
    <3>1. /\ n \in Nat /\ check.redirectCount \in 0 .. MaxRedirects /\ elapsed \in Nat
          /\ MaxRedirects \in Nat /\ CheckAttempts \in Nat /\ m \in Nat
      BY HopFields, SiteCheckAssumption DEF CheckInv, CheckTypeOK
    <3>2. CASE check.pc = "done"
      <4>1. n <= CheckAttempts /\ elapsed <= m * n + 0
        BY <3>2 DEF CheckInv, WithinBudget
      <4>2. m * n <= m * CheckAttempts /\ m * n \in Nat /\ m * CheckAttempts \in Nat
        BY <3>1, <4>1, Budgets
      <4> HIDE DEF m, n
      <4>3. elapsed <= m * CheckAttempts
        BY <3>1, <4>1, <4>2
      <4> QED BY <4>3 DEF m, CheckFitsItsLease, LeaseInTimeouts
    <3>3. CASE check.pc # "done"
      <4>1. n < CheckAttempts /\ elapsed <= m * n + check.redirectCount
        BY <3>3 DEF CheckInv, WithinBudget
      <4>2. n + 1 <= CheckAttempts /\ n + 1 \in Nat
        BY <3>1, <4>1
      <4>3. /\ m * (n + 1) = m * n + m /\ m * (n + 1) <= m * CheckAttempts
            /\ m * n \in Nat /\ m * CheckAttempts \in Nat /\ m * (n + 1) \in Nat
        BY <3>1, <4>2, Budgets
      <4>4. check.redirectCount \in Nat /\ check.redirectCount <= m
        BY <3>1
      <4> HIDE DEF m, n
      <4>5. elapsed <= m * CheckAttempts
        BY <3>1, <4>1, <4>3, <4>4
      <4> QED BY <4>5 DEF m, CheckFitsItsLease, LeaseInTimeouts
    <3> QED BY <3>2, <3>3
  <2>2. BlipsAreAbsorbed
    <3>1. DOMAIN attempted = 1 .. Len(attempted)
      BY DEF CheckInv, CheckTypeOK
    <3> QED BY <3>1 DEF CheckInv, BlipsOnly, Blip, BlipsAreAbsorbed
  <2> QED BY <2>1, <2>2 DEF CheckKeepsItsWord
<1> QED BY <1>1, CheckInitInv, CheckStep, PTL DEF CheckSpec

-----------------------------------------------------------------------------
(* The mails of one alert.                                                 *)

Working == {"send", "sent", "failed"}

\* Dispatch d is about to mail member u, or to settle the record of it.
Holds(d, u) == dispatch[d].pc \in Working /\ dispatch[d].to = u

\* What is known of a dispatch that has a recipient at hand.
HeldWell ==
    \A d \in Dispatchers : dispatch[d].pc \in Working =>
        /\ dispatch[d].to \in Members
        /\ dispatch[d].attempt \in 1 .. MailAttempts
        /\ record[dispatch[d].to].status = "pending"

\* The count of the dispatch is that of the messages it has sent.
CountsAgree ==
    \A d \in Dispatchers, u \in Members : Holds(d, u) =>
        /\ dispatch[d].pc = "send" =>
               sends[u] < dispatch[d].attempt /\ accepted[u] = unheard[u]
        /\ dispatch[d].pc = "sent" => accepted[u] = unheard[u] + 1
        /\ dispatch[d].pc = "failed" => accepted[u] = unheard[u]

OneHolder ==
    \A d, e \in Dispatchers, u \in Members : Holds(d, u) /\ Holds(e, u) => d = e

\* Whoever a dispatch will mail, or has mailed, has a verified address.
Addressed ==
    /\ \A d \in Dispatchers, u \in Members :
           u \in dispatch[d].left \/ Holds(d, u) => member[u].verified
    /\ \A u \in Members : sends[u] > 0 => member[u].verified

\* The history of a member, by the status of the record.
HistoryFits ==
    \A u \in Members :
        /\ accepted[u] <= 1 + unheard[u] /\ sends[u] <= MailAttempts
        /\ record[u].status = "none" => sends[u] = 0 /\ accepted[u] = 0 /\ unheard[u] = 0
        /\ record[u].status = "sent" => accepted[u] = unheard[u] + 1
        /\ record[u].status = "failed" => accepted[u] = unheard[u]

MailInv == MailTypeOK /\ HeldWell /\ CountsAgree /\ OneHolder /\ Addressed /\ HistoryFits

-----------------------------------------------------------------------------
LEMMA IdleType == IdleDispatch \in Dispatch /\ IdleDispatch.pc \notin Working /\ IdleDispatch.left = {}
BY MailDispatchAssumption DEF IdleDispatch, Dispatch, Working

LEMMA MailInitInv == MailInit => MailInv
<1> SUFFICES ASSUME MailInit PROVE MailInv
  OBVIOUS
<1>1. 0 \in 0 .. MailAttempts /\ 0 \in 0 .. MaxMailFaults /\ MailAttempts \in Nat
  BY MailDispatchAssumption
<1>2. MailTypeOK
  <2>1. [status |-> "none", attempts |-> 0] \in Record
    BY <1>1 DEF Record
  <2> QED BY <1>1, <2>1, IdleType DEF MailInit, MailTypeOK
<1>3. \A d \in Dispatchers : dispatch[d] = IdleDispatch
  BY DEF MailInit
<1>4. HeldWell /\ CountsAgree /\ OneHolder
  BY <1>3, IdleType DEF HeldWell, CountsAgree, OneHolder, Holds
<1>5. \A u \in Members :
         sends[u] = 0 /\ accepted[u] = 0 /\ unheard[u] = 0 /\ record[u].status = "none"
  BY DEF MailInit
<1>6. Addressed /\ HistoryFits
  BY <1>1, <1>3, <1>5, IdleType DEF Addressed, HistoryFits, Holds
<1> QED BY <1>2, <1>4, <1>6 DEF MailInv

\* A dispatch that lets go of what it has, or starts, disturbs nothing.
LEMMA LetGo ==
    ASSUME MailInv, NEW d \in Dispatchers, NEW new \in Dispatch,
           new.pc \notin Working, \A u \in new.left : member[u].verified,
           dispatch' = [dispatch EXCEPT ![d] = new],
           UNCHANGED <<member, mailer, record, sends, accepted, unheard>>,
           mailFaults' \in 0 .. MaxMailFaults
    PROVE  MailInv'
<1>1. \A e \in Dispatchers : dispatch'[e] = IF e = d THEN new ELSE dispatch[e]
  BY DEF MailInv, MailTypeOK
<1>2. MailTypeOK'
  BY DEF MailInv, MailTypeOK
<1>3. \A e \in Dispatchers, u \in Members : Holds(e, u)' => e # d /\ Holds(e, u)
  BY <1>1 DEF Holds
<1>4. HeldWell' /\ CountsAgree' /\ OneHolder'
  BY <1>1, <1>3 DEF MailInv, HeldWell, CountsAgree, OneHolder
<1>5. Addressed'
  BY <1>1, <1>3 DEF MailInv, Addressed
<1>6. HistoryFits'
  BY DEF MailInv, HistoryFits
<1> QED BY <1>2, <1>4, <1>5, <1>6 DEF MailInv

\* A dispatch that goes on with the recipient it holds, whose history alone changes.
LEMMA GoesOn ==
    ASSUME MailInv, NEW d \in Dispatchers, NEW new \in Dispatch, NEW u \in Members,
           Holds(d, u), new.pc \in Working, new.to = u, new.left = dispatch[d].left,
           new.attempt \in 1 .. MailAttempts,
           dispatch' = [dispatch EXCEPT ![d] = new],
           sends' \in [Members -> Nat], accepted' \in [Members -> Nat], unheard' \in [Members -> Nat],
           \A v \in Members : v # u => /\ sends'[v] = sends[v] /\ accepted'[v] = accepted[v]
                                       /\ unheard'[v] = unheard[v],
           sends'[u] <= MailAttempts,
           new.pc = "send" => sends'[u] < new.attempt /\ accepted'[u] = unheard'[u],
           new.pc = "sent" => accepted'[u] = unheard'[u] + 1,
           new.pc = "failed" => accepted'[u] = unheard'[u],
           UNCHANGED <<member, mailer, record, mailFaults>>
    PROVE  MailInv'
<1>1. \A e \in Dispatchers : dispatch'[e] = IF e = d THEN new ELSE dispatch[e]
  BY DEF MailInv, MailTypeOK
<1>2. MailTypeOK'
  BY DEF MailInv, MailTypeOK
<1>3. \A e \in Dispatchers, v \in Members : Holds(e, v)' <=> Holds(e, v)
  BY <1>1 DEF Holds
<1>4. HeldWell'
  BY <1>1 DEF MailInv, HeldWell, Holds
<1>5. CountsAgree'
  <2> SUFFICES ASSUME NEW e \in Dispatchers, NEW v \in Members, Holds(e, v)'
               PROVE  /\ dispatch'[e].pc = "send" =>
                             sends'[v] < dispatch'[e].attempt /\ accepted'[v] = unheard'[v]
                      /\ dispatch'[e].pc = "sent" => accepted'[v] = unheard'[v] + 1
                      /\ dispatch'[e].pc = "failed" => accepted'[v] = unheard'[v]
    BY DEF CountsAgree
  <2>1. CASE e = d
    <3>1. v = u
      BY <2>1, <1>3 DEF Holds
    <3> QED BY <2>1, <3>1, <1>1
  <2>2. CASE e # d
    <3>1. v # u /\ Holds(e, v)
      BY <2>2, <1>3 DEF MailInv, OneHolder
    <3> QED BY <2>2, <3>1, <1>1 DEF MailInv, CountsAgree
  <2> QED BY <2>1, <2>2
<1>6. OneHolder'
  BY <1>3 DEF MailInv, OneHolder
<1>7. Addressed'
  <2>1. member[u].verified
    BY DEF MailInv, Addressed
  <2> QED BY <2>1, <1>1, <1>3 DEF MailInv, Addressed
<1>8. HistoryFits'
  <2>1. record[u].status = "pending"
    BY DEF MailInv, HeldWell, Holds
  <2>2. accepted'[u] <= 1 + unheard'[u]
    <3>1. accepted'[u] \in Nat /\ unheard'[u] \in Nat
      OBVIOUS
    <3> QED BY <3>1 DEF Working
  <2> QED BY <2>1, <2>2 DEF MailInv, HistoryFits
<1> QED BY <1>2, <1>4, <1>5, <1>6, <1>7, <1>8 DEF MailInv

\* The step of a dispatch whose attempt has failed, whatever the provider made of it.
LEMMA FailedAttempt ==
    ASSUME MailInv, NEW d \in Dispatchers, NEW u \in Members, dispatch[d].pc = "send",
           dispatch[d].to = u, AttemptFailed(d),
           sends' = [sends EXCEPT ![u] = @ + 1],
           \/ UNCHANGED <<accepted, unheard>>
           \/ /\ accepted' = [accepted EXCEPT ![u] = @ + 1]
              /\ unheard' = [unheard EXCEPT ![u] = @ + 1],
           UNCHANGED <<member, mailer, record, mailFaults>>
    PROVE  MailInv'
<1> DEFINE n == dispatch[d].attempt
           new == IF n < MailAttempts THEN [dispatch[d] EXCEPT !.attempt = n + 1]
                                      ELSE [dispatch[d] EXCEPT !.pc = "failed"]
<1>1. dispatch[d] \in Dispatch
  BY DEF MailInv, MailTypeOK
<1>2. Holds(d, u)
  BY DEF Holds, Working
<1>3. n \in 1 .. MailAttempts /\ MailAttempts \in Nat /\ n \in Nat
  BY <1>2, MailDispatchAssumption DEF Holds, MailInv, HeldWell
<1>4. dispatch' = [dispatch EXCEPT ![d] = new]
  <2>1. CASE n < MailAttempts
    BY <2>1 DEF AttemptFailed
  <2>2. CASE ~(n < MailAttempts)
    BY <2>2 DEF AttemptFailed
  <2> QED BY <2>1, <2>2
<1>5. /\ new \in Dispatch /\ new.pc \in {"send", "failed"} /\ new.to = u
      /\ new.left = dispatch[d].left /\ new.attempt \in 1 .. MailAttempts
      /\ new.pc = "send" => new.attempt = n + 1
  <2>1. CASE n < MailAttempts
    <3>1. n + 1 \in 1 .. MailAttempts /\ n + 1 \in 0 .. MailAttempts
      BY <2>1, <1>3
    <3> QED BY <2>1, <3>1, <1>1 DEF Dispatch
  <2>2. CASE ~(n < MailAttempts)
    BY <2>2, <1>1, <1>3 DEF Dispatch
  <2> QED BY <2>1, <2>2
<1> HIDE DEF new
<1>6. sends[u] \in Nat /\ accepted[u] \in Nat /\ unheard[u] \in Nat
  BY DEF MailInv, MailTypeOK
<1>7. sends[u] < n /\ accepted[u] = unheard[u]
  BY <1>2 DEF MailInv, CountsAgree
<1>8. sends'[u] = sends[u] + 1 /\ sends' \in [Members -> Nat]
      /\ \A v \in Members : v # u => sends'[v] = sends[v]
  BY <1>6 DEF MailInv, MailTypeOK
<1>9. /\ accepted' \in [Members -> Nat] /\ unheard' \in [Members -> Nat]
      /\ accepted'[u] = unheard'[u]
      /\ \A v \in Members : v # u => accepted'[v] = accepted[v] /\ unheard'[v] = unheard[v]
  BY <1>6, <1>7 DEF MailInv, MailTypeOK
<1>10. sends[u] + 1 <= n /\ sends[u] + 1 < n + 1 /\ n <= MailAttempts
  BY <1>3, <1>6, <1>7
<1>11. sends'[u] <= MailAttempts /\ (new.pc = "send" => sends'[u] < new.attempt)
  <2>1. sends[u] + 1 <= MailAttempts
    BY <1>3, <1>6, <1>10
  <2> QED BY <1>5, <1>8, <1>10, <2>1
<1>12. new.pc \in Working /\ new.pc # "sent"
  BY <1>5 DEF Working
<1> QED BY <1>2, <1>4, <1>5, <1>8, <1>9, <1>11, <1>12, GoesOn

LEMMA MailStep == MailInv /\ [MailNext]_mailVars => MailInv'
<1> SUFFICES ASSUME MailInv, [MailNext]_mailVars PROVE MailInv'
  OBVIOUS
<1>t. /\ \A d \in Dispatchers : dispatch[d] \in Dispatch
      /\ mailFaults \in 0 .. MaxMailFaults /\ MaxMailFaults \in Nat /\ MailAttempts \in Nat
      /\ MailAttempts >= 1
  BY MailDispatchAssumption DEF MailInv, MailTypeOK
<1>1. ASSUME NEW d \in Dispatchers, ResolveRecipients(d) PROVE MailInv'
  <2> DEFINE new == [IdleDispatch EXCEPT !.pc = "next", !.left = {u \in Members : Wants(u)}]
  <2>1. new \in Dispatch /\ new.pc \notin Working
    BY IdleType DEF Dispatch, Working, IdleDispatch
  <2>2. \A u \in new.left : member[u].verified
    BY DEF Wants, IdleDispatch
  <2>3. dispatch' = [dispatch EXCEPT ![d] = new]
    BY <1>1 DEF ResolveRecipients
  <2> HIDE DEF new
  <2> QED BY <1>1, <1>t, <2>1, <2>2, <2>3, LetGo DEF ResolveRecipients, MailHistory
<1>2. ASSUME NEW d \in Dispatchers, DispatchEnds(d) PROVE MailInv'
  BY <1>2, <1>t, IdleType, LetGo DEF DispatchEnds, MailHistory
<1>3. ASSUME NEW d \in Dispatchers, DispatchStops(d) PROVE MailInv'
  <2>1. mailFaults' \in 0 .. MaxMailFaults
    BY <1>3, <1>t DEF DispatchStops
  <2> QED BY <1>3, <2>1, IdleType, LetGo DEF DispatchStops
<1>4. ASSUME NEW d \in Dispatchers, SendMail(d) PROVE MailInv'
  <2> DEFINE u == dispatch[d].to
  <2>1. dispatch[d].pc = "send" /\ Holds(d, u) /\ u \in Members
    BY <1>4 DEF SendMail, Holds, Working, MailInv, HeldWell
  <2>2. /\ sends' = [sends EXCEPT ![u] = @ + 1]
        /\ UNCHANGED <<member, mailer, record, mailFaults>>
    BY <1>4 DEF SendMail
  <2>3. CASE AttemptFailed(d)
             /\ \/ UNCHANGED <<accepted, unheard>>
                \/ /\ accepted' = [accepted EXCEPT ![u] = @ + 1]
                   /\ unheard' = [unheard EXCEPT ![u] = @ + 1]
    BY <2>1, <2>2, <2>3, FailedAttempt
  <2>4. CASE /\ accepted' = [accepted EXCEPT ![u] = @ + 1]
             /\ dispatch' = [dispatch EXCEPT ![d].pc = "sent"]
             /\ UNCHANGED unheard
    <3> DEFINE new == [dispatch[d] EXCEPT !.pc = "sent"]
    <3>1. dispatch[d].attempt \in 1 .. MailAttempts
      BY <2>1 DEF MailInv, HeldWell, Holds
    <3>2. /\ new \in Dispatch /\ new.pc = "sent" /\ new.to = u /\ new.left = dispatch[d].left
          /\ new.attempt \in 1 .. MailAttempts
      BY <1>t, <3>1 DEF Dispatch
    <3>3. dispatch' = [dispatch EXCEPT ![d] = new]
      BY <2>4
    <3> HIDE DEF new
    <3>4. sends[u] \in Nat /\ accepted[u] \in Nat /\ unheard[u] \in Nat
      BY <2>1 DEF MailInv, MailTypeOK
    <3>5. sends[u] < dispatch[d].attempt /\ accepted[u] = unheard[u]
      BY <2>1 DEF MailInv, CountsAgree
    <3>6. sends[u] + 1 <= MailAttempts
      BY <3>1, <3>4, <3>5, <1>t
    <3>7. /\ sends' \in [Members -> Nat] /\ sends'[u] = sends[u] + 1
          /\ \A v \in Members : v # u => sends'[v] = sends[v]
      BY <2>1, <2>2, <3>4 DEF MailInv, MailTypeOK
    <3>8. /\ accepted' \in [Members -> Nat] /\ unheard' \in [Members -> Nat]
          /\ accepted'[u] = unheard'[u] + 1
          /\ \A v \in Members : v # u => accepted'[v] = accepted[v] /\ unheard'[v] = unheard[v]
      BY <2>1, <2>4, <3>4, <3>5 DEF MailInv, MailTypeOK
    <3>9. new.pc \in Working /\ new.pc # "send" /\ new.pc # "failed"
      BY <3>2 DEF Working
    <3> QED BY <2>1, <2>2, <3>2, <3>3, <3>6, <3>7, <3>8, <3>9, GoesOn
  <2> QED BY <1>4, <2>3, <2>4 DEF SendMail
<1>5. ASSUME NEW d \in Dispatchers, SendNowhere(d) PROVE MailInv'
  <2> DEFINE u == dispatch[d].to
             new == [dispatch[d] EXCEPT !.pc = "failed"]
  <2>1. dispatch[d].pc = "send" /\ Holds(d, u) /\ u \in Members
        /\ dispatch[d].attempt \in 1 .. MailAttempts
    BY <1>5 DEF SendNowhere, Holds, Working, MailInv, HeldWell
  <2>2. /\ new \in Dispatch /\ new.pc = "failed" /\ new.to = u /\ new.left = dispatch[d].left
        /\ new.attempt \in 1 .. MailAttempts
    BY <1>t, <2>1 DEF Dispatch
  <2>3. dispatch' = [dispatch EXCEPT ![d] = new]
        /\ UNCHANGED <<member, mailer, record, sends, accepted, unheard, mailFaults>>
    BY <1>5 DEF SendNowhere, MailHistory
  <2> HIDE DEF new
  <2>4. accepted[u] = unheard[u] /\ sends[u] <= MailAttempts
    BY <2>1 DEF MailInv, CountsAgree, HistoryFits
  <2>5. sends \in [Members -> Nat] /\ accepted \in [Members -> Nat] /\ unheard \in [Members -> Nat]
    BY DEF MailInv, MailTypeOK
  <2>6. new.pc \in Working /\ new.pc # "send" /\ new.pc # "sent"
    BY <2>2 DEF Working
  <2> QED BY <2>1, <2>2, <2>3, <2>4, <2>5, <2>6, GoesOn
<1>6. ASSUME NEW d \in Dispatchers, MarkRecord(d) PROVE MailInv'
  <2> DEFINE u == dispatch[d].to
             doc == [status |-> dispatch[d].pc, attempts |-> dispatch[d].attempt]
             new == [IdleDispatch EXCEPT !.pc = "next", !.left = dispatch[d].left]
  <2>1. dispatch[d].pc \in {"sent", "failed"} /\ Holds(d, u) /\ u \in Members
    BY <1>6 DEF MarkRecord, Holds, Working, MailInv, HeldWell
  <2>2. record' = [record EXCEPT ![u] = doc] /\ dispatch' = [dispatch EXCEPT ![d] = new]
        /\ UNCHANGED <<member, mailer, sends, accepted, unheard, mailFaults>>
    BY <1>6 DEF MarkRecord, MailHistory
  <2>3. doc \in Record /\ doc.status = dispatch[d].pc
    BY <1>t, <2>1 DEF Record, Dispatch
  <2>4. new \in Dispatch /\ new.pc \notin Working /\ new.left = dispatch[d].left
    BY <1>t, IdleType DEF Dispatch, Working, IdleDispatch
  <2> HIDE DEF doc, new
  <2>5. /\ \A e \in Dispatchers : dispatch'[e] = IF e = d THEN new ELSE dispatch[e]
        /\ \A v \in Members : record'[v] = IF v = u THEN doc ELSE record[v]
    BY <2>2 DEF MailInv, MailTypeOK
  <2>6. MailTypeOK'
    BY <2>2, <2>3, <2>4 DEF MailInv, MailTypeOK
  <2>7. \A e \in Dispatchers, v \in Members : Holds(e, v)' => e # d /\ Holds(e, v) /\ v # u
    BY <2>1, <2>4, <2>5 DEF Holds, MailInv, OneHolder
  <2>8. HeldWell'
    <3> SUFFICES ASSUME NEW e \in Dispatchers, dispatch'[e].pc \in Working
                 PROVE  /\ dispatch'[e].to \in Members
                        /\ dispatch'[e].attempt \in 1 .. MailAttempts
                        /\ record'[dispatch'[e].to].status = "pending"
      BY DEF HeldWell
    <3>1. e # d /\ dispatch'[e] = dispatch[e]
      BY <2>4, <2>5
    <3>2. dispatch[e].to \in Members /\ dispatch[e].attempt \in 1 .. MailAttempts
          /\ record[dispatch[e].to].status = "pending"
      BY <3>1 DEF MailInv, HeldWell
    <3>3. Holds(e, dispatch[e].to)
      BY <3>1 DEF Holds
    <3>4. dispatch[e].to # u
      BY <3>1, <3>2, <3>3, <2>1 DEF MailInv, OneHolder
    <3> QED BY <3>1, <3>2, <3>4, <2>5
  <2>9. CountsAgree'
    BY <2>2, <2>5, <2>7 DEF MailInv, CountsAgree
  <2>10. OneHolder'
    BY <2>7 DEF MailInv, OneHolder
  <2>11. Addressed'
    BY <2>2, <2>4, <2>5, <2>7 DEF MailInv, Addressed
  <2>12. HistoryFits'
    <3>1. /\ dispatch[d].pc = "sent" => accepted[u] = unheard[u] + 1
          /\ dispatch[d].pc = "failed" => accepted[u] = unheard[u]
      BY <2>1 DEF MailInv, CountsAgree
    <3> QED BY <2>1, <2>2, <2>3, <2>5, <3>1 DEF MailInv, HistoryFits
  <2> QED BY <2>6, <2>8, <2>9, <2>10, <2>11, <2>12 DEF MailInv
<1>7. ASSUME NEW d \in Dispatchers, NEW u \in Members, CreatePending(d, u) PROVE MailInv'
  <2>1. dispatch[d].pc = "next" /\ u \in dispatch[d].left
        /\ UNCHANGED <<member, mailer, sends, accepted, unheard, mailFaults>>
    BY <1>7 DEF CreatePending, MailHistory
  <2>2. member[u].verified
    BY <2>1 DEF MailInv, Addressed
  <2>3. CASE ~Unrecorded(u)
    <3> DEFINE new == [dispatch[d] EXCEPT !.left = @ \ {u}]
    <3>1. new \in Dispatch /\ new.pc \notin Working
      BY <1>t, <2>1 DEF Dispatch, Working
    <3>2. \A v \in new.left : member[v].verified
      <4>1. new.left \subseteq dispatch[d].left /\ dispatch[d].left \subseteq Members
        BY <1>t DEF Dispatch
      <4> QED BY <4>1 DEF MailInv, Addressed
    <3>3. dispatch' = [dispatch EXCEPT ![d] = new] /\ UNCHANGED record
      BY <1>7, <2>3 DEF CreatePending
    <3> HIDE DEF new
    <3> QED BY <1>t, <2>1, <3>1, <3>2, <3>3, LetGo
  <2>4. CASE Unrecorded(u)
    <3> DEFINE new == [dispatch[d] EXCEPT !.pc = "send", !.left = @ \ {u}, !.to = u, !.attempt = 1]
               doc == [record[u] EXCEPT !.status = "pending"]
    <3>1. record[u].status = "none" /\ record[u] \in Record
      BY <2>4 DEF Unrecorded, MailInv, MailTypeOK
    <3>2. record' = [record EXCEPT ![u] = doc] /\ dispatch' = [dispatch EXCEPT ![d] = new]
      <4>1. record' = [record EXCEPT ![u] = doc]
        BY <1>7, <2>4 DEF CreatePending
      <4>2. dispatch' = [dispatch EXCEPT ![d] = new]
        BY <1>7, <2>4 DEF CreatePending
      <4> QED BY <4>1, <4>2
    <3>3. /\ new \in Dispatch /\ new.pc = "send" /\ new.to = u /\ new.attempt = 1
          /\ new.left \subseteq dispatch[d].left
      <4>1. 1 \in 0 .. MailAttempts
        BY <1>t
      <4> QED BY <1>t, <4>1 DEF Dispatch
    <3>4. doc \in Record /\ doc.status = "pending"
      BY <3>1 DEF Record
    <3> HIDE DEF new, doc
    <3>5. /\ \A e \in Dispatchers : dispatch'[e] = IF e = d THEN new ELSE dispatch[e]
          /\ \A v \in Members : record'[v] = IF v = u THEN doc ELSE record[v]
      BY <3>2 DEF MailInv, MailTypeOK
    <3>6. \A e \in Dispatchers : ~Holds(e, u)
      BY <3>1 DEF Holds, MailInv, HeldWell
    <3>7. \A e \in Dispatchers, v \in Members :
              Holds(e, v)' => (e = d /\ v = u) \/ (e # d /\ Holds(e, v) /\ v # u)
      BY <3>3, <3>5, <3>6 DEF Holds
    <3>8. sends[u] = 0 /\ accepted[u] = 0 /\ unheard[u] = 0
      BY <3>1 DEF MailInv, HistoryFits
    <3>9. MailTypeOK'
      BY <2>1, <3>2, <3>3, <3>4 DEF MailInv, MailTypeOK
    <3>10. HeldWell'
      <4> SUFFICES ASSUME NEW e \in Dispatchers, dispatch'[e].pc \in Working
                   PROVE  /\ dispatch'[e].to \in Members
                          /\ dispatch'[e].attempt \in 1 .. MailAttempts
                          /\ record'[dispatch'[e].to].status = "pending"
        BY DEF HeldWell
      <4>1. CASE e = d
        <5>1. 1 \in 1 .. MailAttempts
          BY <1>t
        <5> QED BY <4>1, <5>1, <3>3, <3>4, <3>5
      <4>2. CASE e # d
        <5>1. dispatch'[e] = dispatch[e]
          BY <4>2, <3>5
        <5>2. dispatch[e].to \in Members /\ dispatch[e].attempt \in 1 .. MailAttempts
              /\ record[dispatch[e].to].status = "pending"
          BY <5>1 DEF MailInv, HeldWell
        <5> QED BY <5>1, <5>2, <3>1, <3>5
      <4> QED BY <4>1, <4>2
    <3>11. CountsAgree'
      <4> SUFFICES ASSUME NEW e \in Dispatchers, NEW v \in Members, Holds(e, v)'
                   PROVE  /\ dispatch'[e].pc = "send" =>
                                 sends[v] < dispatch'[e].attempt /\ accepted[v] = unheard[v]
                          /\ dispatch'[e].pc = "sent" => accepted[v] = unheard[v] + 1
                          /\ dispatch'[e].pc = "failed" => accepted[v] = unheard[v]
        BY <2>1 DEF CountsAgree
      <4>1. CASE e = d /\ v = u
        <5>1. dispatch'[e].pc = "send" /\ dispatch'[e].attempt = 1
          BY <4>1, <3>3, <3>5
        <5> QED BY <4>1, <5>1, <3>8
      <4>2. CASE e # d /\ Holds(e, v)
        BY <4>2, <3>5 DEF MailInv, CountsAgree
      <4> QED BY <4>1, <4>2, <3>7
    <3>12. OneHolder'
      BY <3>7 DEF MailInv, OneHolder
    <3>13. Addressed'
      BY <2>1, <2>2, <3>3, <3>5, <3>7 DEF MailInv, Addressed
    <3>14. HistoryFits'
      BY <2>1, <3>4, <3>5 DEF MailInv, HistoryFits
    <3> QED BY <3>9, <3>10, <3>11, <3>12, <3>13, <3>14 DEF MailInv
  <2> QED BY <2>3, <2>4
<1>8. ASSUME NEW u \in Members, ChangePreference(u) PROVE MailInv'
  <2> DEFINE new == [member[u] EXCEPT !.prefers = IF @ = "off" THEN "on" ELSE "off"]
  <2>1. /\ member' = [member EXCEPT ![u] = new]
        /\ UNCHANGED <<mailer, record, dispatch, sends, accepted, unheard, mailFaults>>
    BY <1>8 DEF ChangePreference, MailHistory
  <2>2. member[u] \in Member
    BY DEF MailInv, MailTypeOK
  <2>3. new \in Member /\ new.verified = member[u].verified
    BY <2>2 DEF Member
  <2> HIDE DEF new
  <2>4. MailTypeOK' /\ \A v \in Members : member'[v].verified = member[v].verified
    BY <2>1, <2>3 DEF MailInv, MailTypeOK
  <2>5. \A e \in Dispatchers, v \in Members : Holds(e, v)' <=> Holds(e, v)
    BY <2>1 DEF Holds
  <2>6. HeldWell' /\ CountsAgree' /\ OneHolder' /\ HistoryFits'
    BY <2>1, <2>5 DEF MailInv, HeldWell, CountsAgree, OneHolder, HistoryFits
  <2>7. Addressed'
    BY <2>1, <2>4, <2>5 DEF MailInv, Addressed
  <2> QED BY <2>4, <2>6, <2>7 DEF MailInv
<1>9. CASE UNCHANGED mailVars
  BY <1>9 DEF mailVars, MailInv, MailTypeOK, HeldWell, CountsAgree, OneHolder, Addressed,
              HistoryFits, Holds
<1> QED BY <1>1, <1>2, <1>3, <1>4, <1>5, <1>6, <1>7, <1>8, <1>9 DEF MailNext

-----------------------------------------------------------------------------
\* Nobody is mailed an alert twice but for an answer that was not heard, nor more often than the
\* attempts allow, nor at an unverified address, and the records are honest.
THEOREM AlertMailedOnceAlways == MailSpec => []AlertMailedOnce
<1>1. MailInv => AlertMailedOnce
  <2> SUFFICES ASSUME MailInv, NEW u \in Members
               PROVE  /\ accepted[u] <= 1 + unheard[u]
                      /\ sends[u] <= MailAttempts
                      /\ sends[u] > 0 => member[u].verified
                      /\ record[u].status = "sent" => accepted[u] > unheard[u]
                      /\ record[u].status = "failed" => accepted[u] = unheard[u]
    BY DEF AlertMailedOnce
  <2>1. accepted[u] \in Nat /\ unheard[u] \in Nat
    BY DEF MailInv, MailTypeOK
  <2> QED BY <2>1 DEF MailInv, HistoryFits, Addressed
<1> QED BY <1>1, MailInitInv, MailStep, PTL DEF MailSpec

-----------------------------------------------------------------------------
(* The process that hosts the loops.                                       *)

\* A tick that is still claiming has claimed fewer than a batch.
RoomInBatch ==
    \A l \in Loops, t \in Starters :
        ticks[l][t].phase = "claim" => ticks[l][t].claimed < PostBatch

\* What a loop calls in flight runs, and it loses sight of a tick only if another ran beside it.
TicksInSight ==
    /\ Alive => \A l \in Loops, t \in Starters : inFlight[l] = t => TickRuns(l, t)
    /\ \A l \in Loops, t \in Starters :
           TickRuns(l, t) /\ <<l, t>> \notin overlapped =>
               /\ inFlight[l] = t
               /\ \A u \in Starters : TickRuns(l, u) => u = t

NoSweeps == \A s \in Sweeps : sweep[s].pc = "idle"

\* Without sweeps only timers start ticks, and a timer's tick is over before the next.
WorkerOnlyTicks ==
    host = "worker" =>
        /\ NoSweeps /\ overlapped = {}
        /\ \A l \in Loops, s \in Sweeps : ~TickRuns(l, s)

HasStopped == shutdown.done \in (IF host = "worker" THEN 1 .. 3 ELSE 2 .. 3)

\* Once the loops are told to stop, no sweep is under way, and stop waits for every tick that
\* a loop still has in sight; it has waited before the connection is closed.
StopWaits ==
    /\ stopping => /\ shutdown.done \in 0 .. 3 /\ NoSweeps
                   /\ Alive => \A l \in Loops, t \in Starters :
                          TickRuns(l, t) => <<l, t>> \in overlapped \cup shutdown.waits
    /\ HasStopped => stopping /\ shutdown.waits = {}
    /\ host = "api" /\ shutdown.done \in 1 .. 3 => NoSweeps
    /\ database = "closed" => shutdown.done = 3
    /\ ~Alive => shutdown.done \in 0 .. 3

\* While a message of a sweep waits, a channel tick the sweep waits for is still claiming.
ClaimsAhead ==
    Alive => \A s \in Sweeps \ excused, p \in Posts :
        sweep[s].pc = "channels" /\ s \in postedFor[p] /\ post[p] = "queued" =>
            \E t \in Starters : /\ <<"channels", t>> \in sweep[s].waits
                                /\ ticks["channels"][t].phase = "claim"

RuntimeShape == RuntimeTypeOK /\ RoomInBatch
RuntimeInv == TicksInSight /\ WorkerOnlyTicks /\ StopWaits /\ ClaimsAhead /\ SweepDelivers

-----------------------------------------------------------------------------
\* What starting the ticks of some loops and ending one tick do.
LEMMA TicksStartEffect ==
    ASSUME RuntimeShape, NEW L \in SUBSET Loops, NEW t \in Starters, TicksStart(L, t)
    PROVE  /\ ticks' \in [Loops -> [Starters -> HostedTick]]
           /\ inFlight' \in [Loops -> Starters \cup {None}]
           /\ overlapped' \subseteq Loops \X Starters
           /\ \A l \in Loops : inFlight'[l] = IF l \in L THEN t ELSE inFlight[l]
           /\ overlapped \subseteq overlapped'
           /\ \A l \in L, u, v \in Starters :
                  TickRuns(l, u) /\ (TickRuns(l, v) \/ v = t) => <<l, v>> \in overlapped'
           /\ (\A l \in L, u \in Starters : ~TickRuns(l, u)) => overlapped' = overlapped
           /\ RoomInBatch'
<1>1. ticks \in [Loops -> [Starters -> HostedTick]] /\ overlapped \subseteq Loops \X Starters
      /\ inFlight \in [Loops -> Starters \cup {None}]
  BY DEF RuntimeShape, RuntimeTypeOK
<1>2. \A l \in Loops : /\ StartedTick(l) \in HostedTick /\ StartedTick(l).claimed = 0
                       /\ StartedTick(l).phase # "off"
  BY MonitoringRuntimeAssumption DEF StartedTick, HostedTick
<1>3. /\ ticks' \in [Loops -> [Starters -> HostedTick]]
      /\ \A l \in Loops, u \in Starters :
             ticks'[l][u] = IF l \in L /\ u = t THEN StartedTick(l) ELSE ticks[l][u]
  BY <1>1, <1>2 DEF TicksStart
<1>4. /\ inFlight' \in [Loops -> Starters \cup {None}]
      /\ \A l \in Loops : inFlight'[l] = IF l \in L THEN t ELSE inFlight[l]
  BY <1>1 DEF TicksStart
<1>5. \A x : x \in overlapped' <=>
          (x \in overlapped
           \/ \E l \in L : /\ \E u \in Starters : TickRuns(l, u)
                           /\ \E v \in Starters : x = <<l, v>> /\ (TickRuns(l, v) \/ v = t))
  BY DEF TicksStart
<1>6. overlapped' \subseteq Loops \X Starters
  BY <1>1, <1>5
<1>7. RoomInBatch'
  BY <1>2, <1>3, MonitoringRuntimeAssumption DEF RoomInBatch, RuntimeShape
<1> QED BY <1>3, <1>4, <1>5, <1>6, <1>7

LEMMA TickEndsEffect ==
    ASSUME RuntimeShape, NEW l \in Loops, NEW t \in Starters, TickEnds(l, t)
    PROVE  /\ ticks' \in [Loops -> [Starters -> HostedTick]]
           /\ inFlight' \in [Loops -> Starters \cup {None}]
           /\ sweep' \in [Sweeps -> HostedSweep]
           /\ shutdown' \in [done: (0 .. 3) \cup {None}, waits: SUBSET (Loops \X Starters)]
           /\ overlapped' = overlapped \ {<<l, t>>}
           /\ \A k \in Loops, u \in Starters :
                  ticks'[k][u] = IF k = l /\ u = t THEN NoHostedTick ELSE ticks[k][u]
           /\ \A k \in Loops : inFlight'[k] = IF k = l THEN None ELSE inFlight[k]
           /\ \A s \in Sweeps : /\ sweep'[s].pc = sweep[s].pc
                                /\ sweep'[s].waits = sweep[s].waits \ {<<l, t>>}
           /\ shutdown'.done = shutdown.done /\ shutdown'.waits = shutdown.waits \ {<<l, t>>}
           /\ host' = host /\ stopping' = stopping /\ database' = database
           /\ post' = post /\ postedFor' = postedFor
           /\ RoomInBatch'
<1>1. /\ ticks \in [Loops -> [Starters -> HostedTick]]
      /\ inFlight \in [Loops -> Starters \cup {None}]
      /\ sweep \in [Sweeps -> HostedSweep]
      /\ shutdown \in [done: (0 .. 3) \cup {None}, waits: SUBSET (Loops \X Starters)]
  BY DEF RuntimeShape, RuntimeTypeOK
<1>2. NoHostedTick \in HostedTick /\ NoHostedTick.phase = "off"
  BY MonitoringRuntimeAssumption DEF NoHostedTick, HostedTick
<1>3. /\ ticks' \in [Loops -> [Starters -> HostedTick]]
      /\ \A k \in Loops, u \in Starters :
             ticks'[k][u] = IF k = l /\ u = t THEN NoHostedTick ELSE ticks[k][u]
  BY <1>1, <1>2 DEF TickEnds
<1>4. /\ inFlight' \in [Loops -> Starters \cup {None}]
      /\ \A k \in Loops : inFlight'[k] = IF k = l THEN None ELSE inFlight[k]
  BY <1>1 DEF TickEnds
<1>5. ASSUME NEW s \in Sweeps
      PROVE  /\ sweep'[s] \in HostedSweep /\ sweep'[s].pc = sweep[s].pc
             /\ sweep'[s].waits = sweep[s].waits \ {<<l, t>>}
  BY <1>1 DEF TickEnds, HostedSweep
<1>6. sweep' \in [Sweeps -> HostedSweep]
  BY <1>5 DEF TickEnds
<1>7. /\ shutdown' \in [done: (0 .. 3) \cup {None}, waits: SUBSET (Loops \X Starters)]
      /\ shutdown'.done = shutdown.done /\ shutdown'.waits = shutdown.waits \ {<<l, t>>}
  BY <1>1 DEF TickEnds
<1>8. RoomInBatch'
  BY <1>2, <1>3 DEF RoomInBatch, RuntimeShape
<1> QED BY <1>3, <1>4, <1>5, <1>6, <1>7, <1>8 DEF TickEnds, PostKeeps, ProcessKeeps

\* The loops a sweep waits for next: those whose tick it starts and those whose tick it joins.
OwnTicks(pc) == {l \in (IF stopping THEN {} ELSE LoopsOf(pc)) : inFlight[l] = None}

LEMMA SweepEntersEffect ==
    ASSUME RuntimeShape, NEW s \in Sweeps, NEW pc \in {"first", "channels", "analysis"},
           SweepEnters(s, pc)
    PROVE  /\ OwnTicks(pc) \in SUBSET Loops /\ TicksStart(OwnTicks(pc), s)
           /\ sweep' \in [Sweeps -> HostedSweep]
           /\ \A r \in Sweeps : r # s => sweep'[r] = sweep[r]
           /\ sweep'[s].pc = pc
           /\ pc = "channels" /\ ~stopping /\ inFlight["channels"] = None =>
                  /\ <<"channels", s>> \in sweep'[s].waits
                  /\ "channels" \in OwnTicks(pc)
           /\ pc = "channels" /\ ~stopping /\ inFlight["channels"] # None =>
                  /\ <<"channels", inFlight["channels"]>> \in sweep'[s].waits
                  /\ \/ ticks["channels"][inFlight["channels"]].phase # "work"
                     \/ s \in excused'
           /\ excused \subseteq excused' /\ excused' \subseteq Sweeps
           /\ shutdown' = shutdown /\ post' = post /\ postedFor' = postedFor
           /\ host' = host /\ stopping' = stopping /\ database' = database
<1>1. /\ inFlight \in [Loops -> Starters \cup {None}] /\ sweep \in [Sweeps -> HostedSweep]
      /\ excused \subseteq Sweeps
  BY DEF RuntimeShape, RuntimeTypeOK
<1>2. LoopsOf(pc) \subseteq Loops /\ (pc = "channels" => LoopsOf(pc) = {"channels"})
  BY DEF LoopsOf, Loops
<1> DEFINE L == IF stopping THEN {} ELSE LoopsOf(pc)
           W == {<<l, IF l \in OwnTicks(pc) THEN s ELSE inFlight[l]>> : l \in L}
<1>3. OwnTicks(pc) = {l \in L : inFlight[l] = None} /\ OwnTicks(pc) \in SUBSET Loops
  BY <1>2 DEF OwnTicks
<1>4. /\ TicksStart(OwnTicks(pc), s)
      /\ sweep' = [sweep EXCEPT ![s] = [pc |-> pc, waits |-> W]]
      /\ excused' = IF /\ pc = "channels" /\ inFlight["channels"] # None
                       /\ ticks["channels"][inFlight["channels"]].phase = "work"
                    THEN excused \cup {s} ELSE excused
      /\ shutdown' = shutdown /\ post' = post /\ postedFor' = postedFor
      /\ host' = host /\ stopping' = stopping /\ database' = database
  BY DEF SweepEnters, OwnTicks, PostKeeps, ProcessKeeps
<1>5. W \subseteq Loops \X Starters
  <2>1. ASSUME NEW l \in L
        PROVE  <<l, IF l \in OwnTicks(pc) THEN s ELSE inFlight[l]>> \in Loops \X Starters
    BY <1>1, <1>2, <1>3 DEF Starters
  <2> QED BY <2>1
<1>6. pc = "channels" /\ ~stopping =>
          <<"channels", IF "channels" \in OwnTicks(pc) THEN s ELSE inFlight["channels"]>> \in W
  BY <1>2
<1> HIDE DEF W
<1>7. [pc |-> pc, waits |-> W] \in HostedSweep
  BY <1>5 DEF HostedSweep
<1>8. /\ sweep' \in [Sweeps -> HostedSweep] /\ sweep'[s].pc = pc /\ sweep'[s].waits = W
      /\ \A r \in Sweeps : r # s => sweep'[r] = sweep[r]
  BY <1>1, <1>4, <1>7
<1>9. ~stopping /\ pc = "channels" => ("channels" \in OwnTicks(pc) <=> inFlight["channels"] = None)
  BY <1>2, <1>3
<1> QED BY <1>1, <1>3, <1>4, <1>6, <1>8, <1>9

-----------------------------------------------------------------------------
\* Types.
LEMMA RuntimeShapeInit == RuntimeInit => RuntimeShape
<1> SUFFICES ASSUME RuntimeInit PROVE RuntimeShape
  OBVIOUS
<1>1. NoHostedTick \in HostedTick /\ NoHostedTick.phase = "off"
  BY MonitoringRuntimeAssumption DEF NoHostedTick, HostedTick
<1>2. [pc |-> "idle", waits |-> {}] \in HostedSweep
  BY DEF HostedSweep
<1> QED BY <1>1, <1>2 DEF RuntimeInit, RuntimeShape, RuntimeTypeOK, RoomInBatch

LEMMA NextClaimed ==
    ASSUME NEW n \in Nat, n < PostBatch
    PROVE  n + 1 \in 0 .. PostBatch /\ (n + 1 # PostBatch => n + 1 < PostBatch)
<1>1. PostBatch \in Nat
  BY MonitoringRuntimeAssumption
<1> QED BY <1>1

LEMMA RuntimeShapeStep ==
    ASSUME RuntimeShape, [RuntimeNext]_runtimeVars
    PROVE  RuntimeShape'
<1> USE DEF RuntimeShape, RuntimeTypeOK
<1>1. ASSUME NEW L \in SUBSET Loops, NEW t \in Starters, TicksStart(L, t)
      PROVE  /\ ticks' \in [Loops -> [Starters -> HostedTick]]
             /\ inFlight' \in [Loops -> Starters \cup {None}]
             /\ overlapped' \subseteq Loops \X Starters
             /\ RoomInBatch'
  BY <1>1, TicksStartEffect
<1>2. ASSUME NEW l \in Loops, TimerTick(l) PROVE RuntimeShape'
  <2>1. {l} \in SUBSET Loops /\ "timer" \in Starters
    BY DEF Starters
  <2>2. TicksStart({l}, "timer")
    BY <1>2 DEF TimerTick
  <2> QED BY <1>1, <1>2, <2>1, <2>2 DEF TimerTick, PostKeeps, ProcessKeeps
<1>3. ASSUME NEW l \in Loops, NEW t \in Starters, TickEnds(l, t), excused' \subseteq Sweeps
      PROVE  RuntimeShape'
  <2>1. overlapped' \subseteq Loops \X Starters
    BY <1>3, TickEndsEffect
  <2> QED BY <1>3, <2>1, TickEndsEffect
<1>4. ASSUME NEW l \in Loops, NEW t \in Starters, EndTick(l, t) PROVE RuntimeShape'
  BY <1>3, <1>4 DEF EndTick
<1>5. ASSUME NEW l \in Loops, NEW t \in Starters, NEW p \in Posts, QueuePost(l, t, p)
      PROVE  RuntimeShape'
  <2>1. /\ post' \in [Posts -> {"none", "queued", "claimed"}]
        /\ postedFor' \in [Posts -> SUBSET Sweeps]
    BY <1>5 DEF QueuePost
  <2>2. RoomInBatch'
    BY <1>5 DEF QueuePost, RoomInBatch
  <2> QED BY <1>5, <2>1, <2>2 DEF QueuePost, ProcessKeeps
<1>6. ASSUME NEW t \in Starters, NEW p \in Posts, ClaimPost(t, p) PROVE RuntimeShape'
  <2> DEFINE n == ticks["channels"][t].claimed + 1
             d == [phase |-> IF n = PostBatch THEN "work" ELSE "claim", claimed |-> n]
  <2>1. "channels" \in Loops
    BY DEF Loops
  <2>2. ticks["channels"][t].claimed \in Nat /\ ticks["channels"][t].claimed < PostBatch
    BY <1>6, <2>1 DEF ClaimPost, RoomInBatch, HostedTick
  <2>3. d \in HostedTick /\ (d.phase = "claim" => d.claimed < PostBatch)
    <3>1. n \in 0 .. PostBatch /\ (n # PostBatch => n < PostBatch)
      BY <2>2, NextClaimed
    <3> HIDE DEF n
    <3>2. d.claimed = n /\ (d.phase = "claim" => n # PostBatch)
      OBVIOUS
    <3>3. d \in HostedTick
      BY <3>1 DEF HostedTick
    <3> QED BY <3>1, <3>2, <3>3
  <2>4. ticks' = [ticks EXCEPT !["channels"][t] = d]
    BY <1>6 DEF ClaimPost
  <2> HIDE DEF d
  <2>5. /\ ticks' \in [Loops -> [Starters -> HostedTick]]
        /\ \A l \in Loops, u \in Starters :
               ticks'[l][u] = IF l = "channels" /\ u = t THEN d ELSE ticks[l][u]
    BY <2>1, <2>3, <2>4
  <2>6. RoomInBatch'
    BY <2>3, <2>5 DEF RoomInBatch
  <2>7. post' \in [Posts -> {"none", "queued", "claimed"}] /\ excused' \subseteq Sweeps
    BY <1>6 DEF ClaimPost, WaitingSweeps
  <2> QED BY <1>6, <2>5, <2>6, <2>7 DEF ClaimPost, ProcessKeeps
<1>7. ASSUME NEW t \in Starters, NoPostDue(t) PROVE RuntimeShape'
  <2>1. "channels" \in Loops
    BY DEF Loops
  <2>2. [ticks["channels"][t] EXCEPT !.phase = "work"] \in HostedTick
    BY <2>1 DEF HostedTick
  <2>3. ticks' = [ticks EXCEPT !["channels"] =
                    [@ EXCEPT ![t] = [ticks["channels"][t] EXCEPT !.phase = "work"]]]
    BY <1>7, <2>1 DEF NoPostDue
  <2>4. ticks' \in [Loops -> [Starters -> HostedTick]]
    BY <2>1, <2>2, <2>3
  <2>5. \A l \in Loops, u \in Starters :
            ticks'[l][u] = IF l = "channels" /\ u = t
                THEN [ticks["channels"][t] EXCEPT !.phase = "work"] ELSE ticks[l][u]
    BY <2>1, <2>2, <2>3
  <2>6. [ticks["channels"][t] EXCEPT !.phase = "work"].phase = "work"
    BY <2>1 DEF HostedTick
  <2>7. RoomInBatch'
    BY <2>5, <2>6 DEF RoomInBatch
  <2> QED BY <1>7, <2>4, <2>7 DEF NoPostDue, PostKeeps, ProcessKeeps
<1>8. ASSUME NEW t \in Starters, PostClaimFails(t) PROVE RuntimeShape'
  <2>1. "channels" \in Loops /\ excused' \subseteq Sweeps
    BY <1>8 DEF Loops, PostClaimFails, WaitingSweeps
  <2> QED BY <1>3, <1>8, <2>1 DEF PostClaimFails
<1>9. ASSUME NEW s \in Sweeps, NEW pc \in {"first", "channels", "analysis"}, SweepEnters(s, pc)
      PROVE  RuntimeShape'
  <2>1. s \in Starters
    BY DEF Starters
  <2>2. OwnTicks(pc) \in SUBSET Loops /\ TicksStart(OwnTicks(pc), s)
    BY <1>9, SweepEntersEffect
  <2> QED BY <1>1, <1>9, <2>1, <2>2, SweepEntersEffect
<1>10. ASSUME NEW s \in Sweeps,
              StartSweep(s) \/ SweepGoesOn(s, "first", "channels")
              \/ SweepGoesOn(s, "channels", "analysis")
       PROVE  RuntimeShape'
  BY <1>9, <1>10 DEF StartSweep, SweepGoesOn
<1>11. ASSUME NEW s \in Sweeps, SweepReturns(s) PROVE RuntimeShape'
  <2>1. [sweep[s] EXCEPT !.pc = "idle"] \in HostedSweep
    BY DEF HostedSweep
  <2>2. sweep' \in [Sweeps -> HostedSweep] /\ postedFor' \in [Posts -> SUBSET Sweeps]
    BY <1>11, <2>1 DEF SweepReturns
  <2>3. RoomInBatch'
    BY <1>11 DEF SweepReturns, RoomInBatch
  <2> QED BY <1>11, <2>2, <2>3 DEF SweepReturns, ProcessKeeps
<1>12. ASSUME Signal \/ CloseServer \/ StopLoops \/ LoopsStopped \/ Disconnect
       PROVE  RuntimeShape'
  <2>1. UNCHANGED <<host, ticks, inFlight, sweep, post, postedFor, excused, overlapped>>
        /\ stopping' \in BOOLEAN
    BY <1>12 DEF Signal, CloseServer, StopLoops, LoopsStopped, Disconnect, RuntimeHistory
  <2>2. shutdown' \in [done: (0 .. 3) \cup {None}, waits: SUBSET (Loops \X Starters)]
    <3>1. CASE Signal
      BY <3>1 DEF Signal
    <3>2. CASE CloseServer \/ LoopsStopped \/ Disconnect
      <4>1. shutdown.done \in 0 .. 2 /\ shutdown' = [shutdown EXCEPT !.done = @ + 1]
        BY <3>2 DEF CloseServer, LoopsStopped, Disconnect, AtStep
      <4> QED BY <4>1
    <3>3. CASE StopLoops
      <4>1. {<<l, inFlight[l]>> : l \in {l \in Loops : inFlight[l] # None}} \subseteq Loops \X Starters
        OBVIOUS
      <4> QED BY <3>3, <4>1 DEF StopLoops
    <3> QED BY <1>12, <3>1, <3>2, <3>3
  <2>3. database' \in {"open", "closed", "gone"}
    BY <1>12 DEF Signal, CloseServer, StopLoops, LoopsStopped, Disconnect
  <2>4. RoomInBatch'
    BY <2>1 DEF RoomInBatch
  <2> QED BY <2>1, <2>2, <2>3, <2>4
<1>13. ASSUME Killed PROVE RuntimeShape'
  <2>1. NoHostedTick \in HostedTick /\ NoHostedTick.phase = "off"
    BY MonitoringRuntimeAssumption DEF NoHostedTick, HostedTick
  <2> QED BY <1>13, <2>1 DEF Killed, RuntimeHistory, RoomInBatch
<1>14. CASE UNCHANGED runtimeVars
  BY <1>14 DEF runtimeVars, RoomInBatch
<1> QED BY <1>2, <1>4, <1>5, <1>6, <1>7, <1>8, <1>10, <1>11, <1>12, <1>13, <1>14
        DEF RuntimeNext

-----------------------------------------------------------------------------
(* The kinds of steps: some loops start ticks, one tick ends, the ticks    *)
(* that run go on, or the process is killed.                               *)

TicksGoOn ==
    /\ \A l \in Loops, t \in Starters : TickRuns(l, t)' <=> TickRuns(l, t)
    /\ UNCHANGED <<inFlight, overlapped, host>>
    /\ \A s \in Sweeps : sweep[s].pc = "idle" => sweep'[s].pc = "idle"
    /\ Alive' <=> Alive

LEMMA QuietSteps ==
    ASSUME RuntimeShape,
           \/ \E l \in Loops, t \in Starters, p \in Posts : QueuePost(l, t, p)
           \/ \E t \in Starters, p \in Posts : ClaimPost(t, p)
           \/ \E t \in Starters : NoPostDue(t)
           \/ \E s \in Sweeps : SweepReturns(s)
           \/ Signal \/ CloseServer \/ StopLoops \/ LoopsStopped \/ Disconnect
           \/ UNCHANGED runtimeVars
    PROVE  TicksGoOn
<1>1. /\ ticks \in [Loops -> [Starters -> HostedTick]]
      /\ sweep \in [Sweeps -> HostedSweep]
      /\ database \in {"open", "closed", "gone"}
  BY DEF RuntimeShape, RuntimeTypeOK
<1>2. "channels" \in Loops
  BY DEF Loops
<1>3. ASSUME NEW l \in Loops, NEW t \in Starters, NEW p \in Posts, QueuePost(l, t, p)
      PROVE  TicksGoOn
  BY <1>3 DEF QueuePost, TicksGoOn, TickRuns, ProcessKeeps, Alive
<1>4. ASSUME NEW t \in Starters, NEW d, ticks["channels"][t].phase = "claim", d.phase # "off",
             ticks' = [ticks EXCEPT !["channels"][t] = d],
             UNCHANGED <<inFlight, overlapped, host, sweep, database>>
      PROVE  TicksGoOn
  <2>1. \A l \in Loops, u \in Starters :
            ticks'[l][u] = IF l = "channels" /\ u = t THEN d ELSE ticks[l][u]
    BY <1>1, <1>2, <1>4
  <2> QED BY <1>4, <2>1 DEF TicksGoOn, TickRuns, Alive
<1>5. ASSUME NEW t \in Starters, NEW p \in Posts, ClaimPost(t, p) PROVE TicksGoOn
  <2> DEFINE n == ticks["channels"][t].claimed + 1
             d == [phase |-> IF n = PostBatch THEN "work" ELSE "claim", claimed |-> n]
  <2>1. d.phase # "off"
    OBVIOUS
  <2>2. ticks' = [ticks EXCEPT !["channels"][t] = d]
    BY <1>5 DEF ClaimPost
  <2> HIDE DEF d
  <2> QED BY <1>4, <1>5, <2>1, <2>2 DEF ClaimPost, ProcessKeeps
<1>6. ASSUME NEW t \in Starters, NoPostDue(t) PROVE TicksGoOn
  <2> DEFINE d == [ticks["channels"][t] EXCEPT !.phase = "work"]
  <2>1. d.phase # "off"
    BY <1>1, <1>2 DEF HostedTick
  <2>2. ticks' = [ticks EXCEPT !["channels"][t] = d]
    BY <1>6, <1>1, <1>2 DEF NoPostDue
  <2> HIDE DEF d
  <2> QED BY <1>4, <1>6, <2>1, <2>2 DEF NoPostDue, ProcessKeeps
<1>7. ASSUME NEW s \in Sweeps, SweepReturns(s) PROVE TicksGoOn
  BY <1>1, <1>7 DEF SweepReturns, HostedSweep, TicksGoOn, TickRuns, ProcessKeeps, Alive
<1>8. ASSUME Signal \/ CloseServer \/ StopLoops \/ LoopsStopped \/ Disconnect PROVE TicksGoOn
  <2>1. UNCHANGED <<host, ticks, inFlight, sweep, overlapped>>
    BY <1>8 DEF Signal, CloseServer, StopLoops, LoopsStopped, Disconnect, RuntimeHistory
  <2>2. Alive' <=> Alive
    BY <1>8 DEF Signal, CloseServer, StopLoops, LoopsStopped, Disconnect, AtStep, Alive
  <2> QED BY <2>1, <2>2 DEF TicksGoOn, TickRuns
<1>9. CASE UNCHANGED runtimeVars
  BY <1>9 DEF runtimeVars, TicksGoOn, TickRuns, Alive
<1> QED BY <1>3, <1>5, <1>6, <1>7, <1>8, <1>9

-----------------------------------------------------------------------------
\* What the loops have in sight.
LEMMA SightInit == RuntimeInit => TicksInSight
<1>1. \A t \in Starters : t # None
  BY MonitoringRuntimeAssumption DEF Starters
<1> QED BY <1>1 DEF RuntimeInit, TicksInSight, TickRuns, NoHostedTick

LEMMA RunsStarts ==
    ASSUME RuntimeShape, NEW L \in SUBSET Loops, NEW t \in Starters, TicksStart(L, t),
           NEW l \in Loops, NEW u \in Starters
    PROVE  /\ TickRuns(l, u)' <=> (TickRuns(l, u) \/ (l \in L /\ u = t))
           /\ ticks'[l][u] # ticks[l][u] => ticks'[l][u] = StartedTick(l) /\ l \in L /\ u = t
           /\ l \in L /\ u = t => ticks'[l][u] = StartedTick(l)
<1>1. StartedTick(l).phase # "off"
  BY DEF StartedTick
<1>2. ticks \in [Loops -> [Starters -> HostedTick]]
  BY DEF RuntimeShape, RuntimeTypeOK
<1>3. /\ l \in L /\ u = t => ticks'[l][u] = StartedTick(l)
      /\ ~(l \in L /\ u = t) => ticks'[l][u] = ticks[l][u]
  BY <1>2 DEF TicksStart
<1> QED BY <1>1, <1>3 DEF TickRuns

LEMMA RunsEnds ==
    ASSUME RuntimeShape, NEW l \in Loops, NEW t \in Starters, TickEnds(l, t),
           NEW k \in Loops, NEW u \in Starters
    PROVE  TickRuns(k, u)' <=> (TickRuns(k, u) /\ ~(k = l /\ u = t))
<1>1. ticks'[k][u] = IF k = l /\ u = t THEN NoHostedTick ELSE ticks[k][u]
  BY TickEndsEffect
<1> QED BY <1>1 DEF TickRuns, NoHostedTick

LEMMA SightStarts ==
    ASSUME RuntimeShape, TicksInSight, NEW L \in SUBSET Loops, NEW t \in Starters,
           TicksStart(L, t), database' = database
    PROVE  TicksInSight'
<1>1. \A l \in Loops, u \in Starters :
          TickRuns(l, u)' <=> (TickRuns(l, u) \/ (l \in L /\ u = t))
  BY RunsStarts
<1>2. \A l \in Loops : inFlight'[l] = IF l \in L THEN t ELSE inFlight[l]
  BY TicksStartEffect
<1>3. /\ \A l \in L, u, v \in Starters :
             TickRuns(l, u) /\ (TickRuns(l, v) \/ v = t) => <<l, v>> \in overlapped'
      /\ overlapped \subseteq overlapped'
  BY TicksStartEffect
<1>4. ASSUME Alive', NEW l \in Loops, NEW u \in Starters, inFlight'[l] = u PROVE TickRuns(l, u)'
  <2>1. Alive
    BY <1>4 DEF Alive
  <2> QED BY <1>1, <1>2, <1>4, <2>1 DEF TicksInSight
<1>5. ASSUME NEW l \in Loops, NEW u \in Starters, TickRuns(l, u)', <<l, u>> \notin overlapped'
      PROVE  /\ inFlight'[l] = u
             /\ \A v \in Starters : TickRuns(l, v)' => v = u
  <2>1. CASE l \in L
    BY <1>1, <1>2, <1>3, <1>5, <2>1
  <2>2. CASE l \notin L
    BY <1>1, <1>2, <1>3, <1>5, <2>2 DEF TicksInSight
  <2> QED BY <2>1, <2>2
<1> QED BY <1>4, <1>5 DEF TicksInSight

LEMMA SightEnds ==
    ASSUME RuntimeShape, TicksInSight, NEW l \in Loops, NEW t \in Starters, TickRuns(l, t),
           TickEnds(l, t)
    PROVE  TicksInSight'
<1>1. \A k \in Loops, u \in Starters :
          TickRuns(k, u)' <=> (TickRuns(k, u) /\ ~(k = l /\ u = t))
  BY RunsEnds
<1>2. /\ \A k \in Loops : inFlight'[k] = IF k = l THEN None ELSE inFlight[k]
      /\ overlapped' = overlapped \ {<<l, t>>} /\ database' = database
  BY TickEndsEffect
<1>3. \A u \in Starters : u # None
  BY MonitoringRuntimeAssumption DEF Starters
<1>4. ASSUME Alive', NEW k \in Loops, NEW u \in Starters, inFlight'[k] = u PROVE TickRuns(k, u)'
  <2>1. Alive /\ inFlight[k] = u /\ k # l
    BY <1>2, <1>3, <1>4 DEF Alive
  <2> QED BY <1>1, <2>1 DEF TicksInSight
<1>5. ASSUME NEW k \in Loops, NEW u \in Starters, TickRuns(k, u)', <<k, u>> \notin overlapped'
      PROVE  /\ inFlight'[k] = u
             /\ \A v \in Starters : TickRuns(k, v)' => v = u
  <2>1. TickRuns(k, u) /\ ~(k = l /\ u = t)
    BY <1>1, <1>5
  <2>2. <<k, u>> \notin overlapped
    BY <1>2, <1>5, <2>1
  <2>3. inFlight[k] = u /\ \A v \in Starters : TickRuns(k, v) => v = u
    BY <2>1, <2>2 DEF TicksInSight
  <2>4. CASE k # l
    BY <1>1, <1>2, <2>3, <2>4
  <2>5. CASE k = l
    BY <2>1, <2>3, <2>5
  <2> QED BY <2>4, <2>5
<1> QED BY <1>4, <1>5 DEF TicksInSight

LEMMA SightStep ==
    ASSUME RuntimeShape, TicksInSight, [RuntimeNext]_runtimeVars
    PROVE  TicksInSight'
<1>1. ASSUME TicksGoOn PROVE TicksInSight'
  BY <1>1 DEF TicksGoOn, TicksInSight, TickRuns
<1>2. ASSUME NEW l \in Loops, TimerTick(l) PROVE TicksInSight'
  <2>1. {l} \in SUBSET Loops /\ "timer" \in Starters
    BY DEF Starters
  <2>2. TicksStart({l}, "timer") /\ database' = database
    BY <1>2 DEF TimerTick, ProcessKeeps
  <2> QED BY <2>1, <2>2, SightStarts
<1>3. ASSUME NEW l \in Loops, NEW t \in Starters, EndTick(l, t) PROVE TicksInSight'
  BY <1>3, SightEnds DEF EndTick, TickRuns
<1>4. ASSUME NEW t \in Starters, PostClaimFails(t) PROVE TicksInSight'
  BY <1>4, SightEnds DEF PostClaimFails, Loops, TickRuns
<1>5. ASSUME NEW s \in Sweeps, NEW pc \in {"first", "channels", "analysis"}, SweepEnters(s, pc)
      PROVE  TicksInSight'
  <2>1. s \in Starters
    BY DEF Starters
  <2> QED BY <1>5, <2>1, SweepEntersEffect, SightStarts
<1>6. ASSUME NEW s \in Sweeps,
             StartSweep(s) \/ SweepGoesOn(s, "first", "channels")
             \/ SweepGoesOn(s, "channels", "analysis")
      PROVE  TicksInSight'
  BY <1>5, <1>6 DEF StartSweep, SweepGoesOn
<1>7. ASSUME Killed PROVE TicksInSight'
  BY <1>7 DEF Killed, TicksInSight, TickRuns, NoHostedTick, Alive
<1> QED BY <1>1, <1>2, <1>3, <1>4, <1>6, <1>7, QuietSteps DEF RuntimeNext

-----------------------------------------------------------------------------
\* A worker runs the ticks of its timers and nothing else.
LEMMA WorkerInit == RuntimeInit => WorkerOnlyTicks
BY DEF RuntimeInit, WorkerOnlyTicks, NoSweeps, TickRuns, NoHostedTick, Starters

LEMMA WorkerStep ==
    ASSUME RuntimeShape, WorkerOnlyTicks, [RuntimeNext]_runtimeVars
    PROVE  WorkerOnlyTicks'
<1>1. \A s \in Sweeps : s \in Starters /\ s # "timer"
  BY MonitoringRuntimeAssumption DEF Starters
<1>2. ASSUME TicksGoOn PROVE WorkerOnlyTicks'
  BY <1>1, <1>2 DEF TicksGoOn, WorkerOnlyTicks, NoSweeps
<1>3. ASSUME NEW l \in Loops, TimerTick(l) PROVE WorkerOnlyTicks'
  <2>1. {l} \in SUBSET Loops /\ "timer" \in Starters
    BY DEF Starters
  <2>2. TicksStart({l}, "timer") /\ UNCHANGED <<host, sweep>> /\ ~TickRuns(l, "timer")
    BY <1>3 DEF TimerTick, ProcessKeeps
  <2>3. host = "worker" => \A u \in Starters : ~TickRuns(l, u)
    BY <2>2 DEF WorkerOnlyTicks, Starters
  <2>4. host = "worker" => overlapped' = overlapped
    BY <2>1, <2>2, <2>3, TicksStartEffect
  <2>5. ASSUME NEW k \in Loops, NEW s \in Sweeps PROVE TickRuns(k, s)' <=> TickRuns(k, s)
    BY <1>1, <2>1, <2>2, RunsStarts
  <2> QED BY <2>2, <2>4, <2>5 DEF WorkerOnlyTicks, NoSweeps
<1>4. ASSUME NEW l \in Loops, NEW t \in Starters, TickEnds(l, t) PROVE WorkerOnlyTicks'
  <2>1. \A k \in Loops, s \in Sweeps : TickRuns(k, s)' => TickRuns(k, s)
    BY <1>1, <1>4, RunsEnds
  <2>2. /\ host' = host /\ overlapped' = overlapped \ {<<l, t>>}
        /\ \A s \in Sweeps : sweep'[s].pc = sweep[s].pc
    BY <1>4, TickEndsEffect
  <2> QED BY <2>1, <2>2 DEF WorkerOnlyTicks, NoSweeps
<1>5. ASSUME NEW l \in Loops, NEW t \in Starters, EndTick(l, t) PROVE WorkerOnlyTicks'
  BY <1>4, <1>5 DEF EndTick
<1>6. ASSUME NEW t \in Starters, PostClaimFails(t) PROVE WorkerOnlyTicks'
  BY <1>4, <1>6 DEF PostClaimFails, Loops
<1>7. ASSUME NEW s \in Sweeps,
             StartSweep(s) \/ SweepGoesOn(s, "first", "channels")
             \/ SweepGoesOn(s, "channels", "analysis")
      PROVE  WorkerOnlyTicks'
  <2>1. host' = host
    BY <1>7 DEF StartSweep, SweepGoesOn, SweepEnters, ProcessKeeps
  <2>2. host # "worker"
    BY <1>7 DEF StartSweep, SweepGoesOn, WorkerOnlyTicks, NoSweeps
  <2> QED BY <2>1, <2>2 DEF WorkerOnlyTicks
<1>8. ASSUME Killed PROVE WorkerOnlyTicks'
  BY <1>1, <1>8 DEF Killed, RuntimeHistory, WorkerOnlyTicks, NoSweeps, TickRuns, NoHostedTick
<1> QED BY <1>2, <1>3, <1>5, <1>6, <1>7, <1>8, QuietSteps DEF RuntimeNext

-----------------------------------------------------------------------------
\* What stop has waited for.
LEMMA StopInit == RuntimeInit => StopWaits
BY MonitoringRuntimeAssumption DEF RuntimeInit, StopWaits, HasStopped, Alive

\* Where a step stands in the shutdown of each host.
LEMMA StepPositions ==
    ASSUME RuntimeShape
    PROVE  /\ AtStep("stop") => Alive /\ shutdown.done = IF host = "worker" THEN 0 ELSE 1
           /\ AtStep("close") => Alive /\ shutdown.done = IF host = "worker" THEN 1 ELSE 0
           /\ AtStep("disconnect") => Alive /\ shutdown.done = 2
<1>1. host \in {"worker", "api"}
  BY DEF RuntimeShape, RuntimeTypeOK
<1>2. ASSUME NEW step, AtStep(step)
      PROVE  /\ Alive /\ shutdown.done \in {0, 1, 2}
             /\ ShutdownSteps[host][shutdown.done + 1] = step
  BY <1>2 DEF AtStep
<1>3. /\ ShutdownSteps["worker"] = <<"stop", "close", "disconnect">>
      /\ ShutdownSteps["api"] = <<"close", "stop", "disconnect">>
  BY DEF ShutdownSteps
<1> QED BY <1>1, <1>2, <1>3

LEMMA StopStep ==
    ASSUME RuntimeShape, TicksInSight, WorkerOnlyTicks, StopWaits, [RuntimeNext]_runtimeVars
    PROVE  StopWaits'
<1>1. /\ shutdown \in [done: (0 .. 3) \cup {None}, waits: SUBSET (Loops \X Starters)]
      /\ host \in {"worker", "api"} /\ database \in {"open", "closed", "gone"}
  BY DEF RuntimeShape, RuntimeTypeOK
<1>2. None \notin 0 .. 3
  BY MonitoringRuntimeAssumption
<1>3. ASSUME TicksGoOn, UNCHANGED <<shutdown, stopping, database>> PROVE StopWaits'
  BY <1>3 DEF TicksGoOn, StopWaits, NoSweeps, HasStopped
<1>4. ASSUME NEW l \in Loops, NEW t \in Starters, NEW p \in Posts, QueuePost(l, t, p)
      PROVE  StopWaits'
  BY <1>3, <1>4, QuietSteps DEF QueuePost, ProcessKeeps
<1>5. ASSUME NEW t \in Starters, NEW p \in Posts, ClaimPost(t, p) PROVE StopWaits'
  BY <1>3, <1>5, QuietSteps DEF ClaimPost, ProcessKeeps
<1>6. ASSUME NEW t \in Starters, NoPostDue(t) PROVE StopWaits'
  BY <1>3, <1>6, QuietSteps DEF NoPostDue, ProcessKeeps
<1>7. ASSUME NEW s \in Sweeps, SweepReturns(s) PROVE StopWaits'
  BY <1>3, <1>7, QuietSteps DEF SweepReturns, ProcessKeeps
<1>8. CASE UNCHANGED runtimeVars
  BY <1>3, <1>8, QuietSteps DEF runtimeVars
<1>9. ASSUME NEW l \in Loops, TimerTick(l) PROVE StopWaits'
  BY <1>9 DEF TimerTick, ProcessKeeps, StopWaits, NoSweeps, HasStopped, Alive
<1>10. ASSUME NEW l \in Loops, NEW t \in Starters, TickEnds(l, t) PROVE StopWaits'
  <2>1. /\ \A s \in Sweeps : sweep'[s].pc = sweep[s].pc
        /\ shutdown'.done = shutdown.done /\ shutdown'.waits = shutdown.waits \ {<<l, t>>}
        /\ host' = host /\ stopping' = stopping /\ database' = database
        /\ overlapped' = overlapped \ {<<l, t>>}
    BY <1>10, TickEndsEffect
  <2>2. \A k \in Loops, u \in Starters : TickRuns(k, u)' <=> (TickRuns(k, u) /\ ~(k = l /\ u = t))
    BY <1>10, RunsEnds
  <2>3. NoSweeps' <=> NoSweeps
    BY <2>1 DEF NoSweeps
  <2>4. (HasStopped' <=> HasStopped) /\ (Alive' <=> Alive)
    BY <2>1 DEF HasStopped, Alive
  <2>5. ASSUME NEW k \in Loops, NEW u \in Starters, TickRuns(k, u)',
               <<k, u>> \in overlapped \cup shutdown.waits
        PROVE  <<k, u>> \in overlapped' \cup shutdown'.waits
    BY <2>1, <2>2, <2>5
  <2> QED BY <2>1, <2>2, <2>3, <2>4, <2>5 DEF StopWaits
<1>11. ASSUME NEW l \in Loops, NEW t \in Starters, EndTick(l, t) PROVE StopWaits'
  BY <1>10, <1>11 DEF EndTick
<1>12. ASSUME NEW t \in Starters, PostClaimFails(t) PROVE StopWaits'
  BY <1>10, <1>12 DEF PostClaimFails, Loops
<1>13. ASSUME NEW s \in Sweeps,
              StartSweep(s) \/ SweepGoesOn(s, "first", "channels")
              \/ SweepGoesOn(s, "channels", "analysis")
       PROVE  StopWaits'
  <2>1. UNCHANGED <<host, shutdown, stopping, database>>
    BY <1>13 DEF StartSweep, SweepGoesOn, SweepEnters, ProcessKeeps
  <2>2. ~stopping /\ ~(host = "api" /\ shutdown.done \in 1 .. 3)
    BY <1>1, <1>2, <1>13 DEF StartSweep, SweepGoesOn, StopWaits, NoSweeps
  <2> QED BY <2>1, <2>2 DEF StopWaits, HasStopped, Alive
<1>14. ASSUME Signal PROVE StopWaits'
  <2>1. /\ UNCHANGED <<host, sweep, stopping, database>>
        /\ shutdown.done = None /\ shutdown'.done = 0
    BY <1>1, <1>14 DEF Signal
  <2>2. ~stopping /\ database # "closed"
    BY <1>2, <2>1 DEF StopWaits
  <2> QED BY <2>1, <2>2 DEF StopWaits, HasStopped
<1>15. ASSUME CloseServer PROVE StopWaits'
  <2>1. /\ UNCHANGED <<host, ticks, sweep, stopping, database, overlapped>> /\ NoSweeps
        /\ shutdown'.done = shutdown.done + 1 /\ shutdown'.waits = shutdown.waits
    BY <1>1, <1>15 DEF CloseServer, RuntimeHistory, NoSweeps
  <2>2. Alive /\ shutdown.done = IF host = "worker" THEN 1 ELSE 0
    BY <1>15, StepPositions DEF CloseServer
  <2>3. HasStopped' => HasStopped
    BY <2>1, <2>2 DEF HasStopped
  <2>4. database # "closed" /\ shutdown'.done \in 0 .. 3
    BY <2>1, <2>2 DEF StopWaits
  <2> QED BY <2>1, <2>3, <2>4 DEF StopWaits, NoSweeps, TickRuns, Alive
<1>16. ASSUME StopLoops PROVE StopWaits'
  <2>1. /\ UNCHANGED <<host, ticks, sweep, database, overlapped>>
        /\ shutdown'.done = shutdown.done
        /\ shutdown'.waits = {<<l, inFlight[l]>> : l \in {l \in Loops : inFlight[l] # None}}
    BY <1>1, <1>16 DEF StopLoops, RuntimeHistory
  <2>2. shutdown.done = IF host = "worker" THEN 0 ELSE 1
    BY <1>16, StepPositions DEF StopLoops
  <2>3. NoSweeps
    BY <1>1, <2>2 DEF StopWaits, WorkerOnlyTicks
  <2>4. ASSUME NEW l \in Loops, NEW t \in Starters, TickRuns(l, t), <<l, t>> \notin overlapped
        PROVE  <<l, t>> \in shutdown'.waits
    <3>1. inFlight[l] = t /\ t # None
      BY <2>4, MonitoringRuntimeAssumption DEF TicksInSight, Starters
    <3> QED BY <2>1, <3>1
  <2>5. ~HasStopped' /\ database # "closed"
    BY <1>1, <2>1, <2>2 DEF HasStopped, StopWaits
  <2> QED BY <2>1, <2>2, <2>3, <2>4, <2>5 DEF StopWaits, NoSweeps, TickRuns
<1>17. ASSUME LoopsStopped \/ Disconnect PROVE StopWaits'
  <2>1. /\ UNCHANGED <<host, ticks, sweep, stopping, overlapped>>
        /\ shutdown'.done = shutdown.done + 1 /\ shutdown'.waits = shutdown.waits
    BY <1>1, <1>17 DEF LoopsStopped, Disconnect, RuntimeHistory
  <2>2. /\ LoopsStopped => shutdown.done = IF host = "worker" THEN 0 ELSE 1
        /\ Disconnect => shutdown.done = 2
        /\ Alive
    BY <1>17, StepPositions DEF LoopsStopped, Disconnect
  <2>3. /\ stopping /\ shutdown.waits = {}
        /\ database' = "closed" => shutdown'.done = 3
    <3>1. CASE LoopsStopped
      BY <1>1, <2>2, <3>1 DEF LoopsStopped, StopWaits
    <3>2. CASE Disconnect
      BY <1>1, <2>1, <2>2, <3>2 DEF HasStopped, StopWaits
    <3> QED BY <1>17, <3>1, <3>2
  <2>4. NoSweeps /\ shutdown'.done \in 0 .. 3
    BY <1>1, <1>17, <2>1, <2>2, <2>3 DEF StopWaits
  <2>5. \A l \in Loops, t \in Starters : TickRuns(l, t) => <<l, t>> \in overlapped
    BY <2>2, <2>3 DEF StopWaits
  <2> QED BY <2>1, <2>3, <2>4, <2>5 DEF StopWaits, NoSweeps, TickRuns
<1>18. ASSUME Killed PROVE StopWaits'
  BY <1>18 DEF Killed, StopWaits, NoSweeps, HasStopped, Alive
<1> QED BY <1>4, <1>5, <1>6, <1>7, <1>8, <1>9, <1>11, <1>12, <1>13, <1>14, <1>15, <1>16,
           <1>17, <1>18 DEF RuntimeNext

-----------------------------------------------------------------------------
\* What a sweep leaves behind.
LEMMA MessagesInit == RuntimeInit => ClaimsAhead /\ SweepDelivers
BY DEF RuntimeInit, ClaimsAhead, SweepDelivers

\* Ticks that start leave a channel tick that claims as it is, or make it claim.
LEMMA StillClaims ==
    ASSUME RuntimeShape, NEW L \in SUBSET Loops, NEW t \in Starters, TicksStart(L, t),
           NEW u \in Starters, ticks["channels"][u].phase = "claim"
    PROVE  ticks'["channels"][u].phase = "claim"
<1>1. "channels" \in Loops /\ StartedTick("channels").phase = "claim"
  BY DEF Loops, StartedTick
<1>2. PICK l \in Loops : l = "channels"
  BY <1>1
<1>3. ticks'[l][u] # ticks[l][u] => ticks'[l][u] = StartedTick(l)
  BY RunsStarts
<1> QED BY <1>1, <1>2, <1>3

LEMMA MessagesStep ==
    ASSUME RuntimeShape, TicksInSight, StopWaits, ClaimsAhead, SweepDelivers,
           [RuntimeNext]_runtimeVars
    PROVE  ClaimsAhead' /\ SweepDelivers'
<1>1. /\ ticks \in [Loops -> [Starters -> HostedTick]] /\ sweep \in [Sweeps -> HostedSweep]
      /\ inFlight \in [Loops -> Starters \cup {None}]
      /\ post \in [Posts -> {"none", "queued", "claimed"}]
      /\ postedFor \in [Posts -> SUBSET Sweeps]
  BY DEF RuntimeShape, RuntimeTypeOK
<1>2. "channels" \in Loops
  BY DEF Loops
<1>3. ASSUME NEW t \in Starters, ticks["channels"][t].phase = "claim", NEW d,
             ticks' = [ticks EXCEPT !["channels"][t] = d], NEW u \in Starters
      PROVE  ticks'["channels"][u] = IF u = t THEN d ELSE ticks["channels"][u]
  BY <1>1, <1>2, <1>3
<1>4. ASSUME UNCHANGED <<ticks, sweep, excused, post, postedFor>>, Alive' => Alive
      PROVE  ClaimsAhead' /\ SweepDelivers'
  BY <1>4 DEF ClaimsAhead, SweepDelivers
<1>5. ASSUME Signal \/ CloseServer \/ StopLoops \/ LoopsStopped \/ Disconnect
      PROVE  ClaimsAhead' /\ SweepDelivers'
  <2>1. UNCHANGED <<ticks, sweep, excused, post, postedFor>>
    BY <1>5 DEF Signal, CloseServer, StopLoops, LoopsStopped, Disconnect, RuntimeHistory
  <2>2. Alive' => Alive
    BY <1>5, QuietSteps DEF TicksGoOn
  <2> QED BY <1>4, <2>1, <2>2
<1>6. CASE UNCHANGED runtimeVars
  BY <1>4, <1>6 DEF runtimeVars, Alive
<1>7. ASSUME Killed PROVE ClaimsAhead' /\ SweepDelivers'
  BY <1>7 DEF Killed, RuntimeHistory, ClaimsAhead, SweepDelivers, Alive
<1>8. ASSUME NEW l \in Loops, NEW t \in Starters, NEW p \in Posts, QueuePost(l, t, p)
      PROVE  ClaimsAhead' /\ SweepDelivers'
  <2>1. /\ UNCHANGED <<ticks, sweep, excused>> /\ (Alive' <=> Alive)
        /\ \A s \in Sweeps : s \in postedFor'[p] => sweep[s].pc = "first"
        /\ \A q \in Posts \ {p} : post'[q] = post[q] /\ postedFor'[q] = postedFor[q]
    BY <1>1, <1>8 DEF QueuePost, ProcessKeeps, Alive
  <2> QED BY <2>1 DEF ClaimsAhead, SweepDelivers
<1>9. ASSUME NEW t \in Starters, NEW p \in Posts, ClaimPost(t, p)
      PROVE  ClaimsAhead' /\ SweepDelivers'
  <2> DEFINE n == ticks["channels"][t].claimed + 1
             d == [phase |-> IF n = PostBatch THEN "work" ELSE "claim", claimed |-> n]
  <2>1. /\ ticks' = [ticks EXCEPT !["channels"][t] = d] /\ ticks["channels"][t].phase = "claim"
        /\ UNCHANGED <<sweep, postedFor, database>> /\ post' = [post EXCEPT ![p] = "claimed"]
        /\ excused' = IF n = PostBatch THEN excused \cup WaitingSweeps(t) ELSE excused
    BY <1>9 DEF ClaimPost, ProcessKeeps
  <2>2. d.phase = IF n = PostBatch THEN "work" ELSE "claim"
    OBVIOUS
  <2> HIDE DEF d, n
  <2>3. \A u \in Starters : ticks'["channels"][u] = IF u = t THEN d ELSE ticks["channels"][u]
    BY <1>3, <2>1
  <2>4. /\ excused \subseteq excused' /\ (Alive' <=> Alive)
        /\ \A q \in Posts : post'[q] = "queued" => post[q] = "queued"
    BY <1>1, <2>1 DEF Alive
  <2>5. ASSUME NEW s \in Sweeps \ excused', NEW u \in Starters,
               <<"channels", u>> \in sweep[s].waits, ticks["channels"][u].phase = "claim"
        PROVE  ticks'["channels"][u].phase = "claim"
    <3>1. CASE u # t
      BY <2>3, <2>5, <3>1
    <3>2. CASE u = t
      BY <2>1, <2>2, <2>3, <2>5, <3>2 DEF WaitingSweeps
    <3> QED BY <3>1, <3>2
  <2> QED BY <2>1, <2>4, <2>5 DEF ClaimsAhead, SweepDelivers
<1>10. ASSUME NEW t \in Starters, NoPostDue(t) PROVE ClaimsAhead' /\ SweepDelivers'
  BY <1>10 DEF NoPostDue, PostKeeps, ClaimsAhead, SweepDelivers
<1>11. ASSUME NEW l \in Loops, NEW t \in Starters, TickEnds(l, t), excused \subseteq excused',
              \A s \in Sweeps \ excused', u \in Starters :
                  /\ <<"channels", u>> \in sweep[s].waits
                  /\ ticks["channels"][u].phase = "claim"
                  => <<"channels", u>> # <<l, t>>
       PROVE  ClaimsAhead' /\ SweepDelivers'
  <2>1. /\ \A s \in Sweeps : /\ sweep'[s].pc = sweep[s].pc
                             /\ sweep'[s].waits = sweep[s].waits \ {<<l, t>>}
        /\ post' = post /\ postedFor' = postedFor /\ database' = database
        /\ \A k \in Loops, u \in Starters :
               ticks'[k][u] = IF k = l /\ u = t THEN NoHostedTick ELSE ticks[k][u]
    BY <1>11, TickEndsEffect
  <2>2. ASSUME NEW s \in Sweeps \ excused', NEW u \in Starters,
               <<"channels", u>> \in sweep[s].waits, ticks["channels"][u].phase = "claim"
        PROVE  <<"channels", u>> \in sweep'[s].waits /\ ticks'["channels"][u].phase = "claim"
    BY <1>2, <1>11, <2>1, <2>2
  <2> QED BY <1>11, <2>1, <2>2 DEF ClaimsAhead, SweepDelivers, Alive
<1>12. ASSUME NEW l \in Loops, NEW t \in Starters, EndTick(l, t)
       PROVE  ClaimsAhead' /\ SweepDelivers'
  BY <1>11, <1>12 DEF EndTick
<1>13. ASSUME NEW t \in Starters, PostClaimFails(t) PROVE ClaimsAhead' /\ SweepDelivers'
  <2>1. TickEnds("channels", t) /\ excused' = excused \cup WaitingSweeps(t)
    BY <1>13 DEF PostClaimFails
  <2>2. \A s \in Sweeps \ excused', u \in Starters :
            <<"channels", u>> \in sweep[s].waits => u # t
    BY <2>1 DEF WaitingSweeps
  <2> QED BY <1>2, <1>11, <2>1, <2>2
<1>14. ASSUME NEW l \in Loops, TimerTick(l) PROVE ClaimsAhead' /\ SweepDelivers'
  <2>1. {l} \in SUBSET Loops /\ "timer" \in Starters
    BY DEF Starters
  <2>2. TicksStart({l}, "timer") /\ UNCHANGED <<sweep, excused, post, postedFor, database>>
    BY <1>14 DEF TimerTick, PostKeeps, ProcessKeeps
  <2>3. \A u \in Starters : ticks["channels"][u].phase = "claim"
                                => ticks'["channels"][u].phase = "claim"
    BY <2>1, <2>2, StillClaims
  <2> QED BY <2>2, <2>3 DEF ClaimsAhead, SweepDelivers, Alive
<1>15. ASSUME NEW s \in Sweeps, NEW pc \in {"first", "channels", "analysis"}, SweepEnters(s, pc),
              Alive, ~stopping,
              pc = "analysis" => sweep[s].pc = "channels" /\ sweep[s].waits = {}
       PROVE  ClaimsAhead' /\ SweepDelivers'
  <2>1. OwnTicks(pc) \in SUBSET Loops /\ TicksStart(OwnTicks(pc), s) /\ s \in Starters
    BY <1>15, SweepEntersEffect DEF Starters
  <2>2. \A u \in Starters : ticks["channels"][u].phase = "claim"
                                => ticks'["channels"][u].phase = "claim"
    BY <2>1, StillClaims
  <2>3. /\ \A r \in Sweeps : r # s => sweep'[r] = sweep[r]
        /\ sweep'[s].pc = pc /\ excused \subseteq excused'
        /\ post' = post /\ postedFor' = postedFor
    BY <1>15, SweepEntersEffect
  <2>4. ASSUME pc = "analysis", s \notin excused', NEW p \in Posts, s \in postedFor[p]
        PROVE  post[p] # "queued"
    BY <1>15, <2>3, <2>4 DEF ClaimsAhead
  <2>5. ASSUME pc = "channels", s \notin excused'
        PROVE  \E t \in Starters : /\ <<"channels", t>> \in sweep'[s].waits
                                   /\ ticks'["channels"][t].phase = "claim"
    <3>1. CASE inFlight["channels"] = None
      <4>1. <<"channels", s>> \in sweep'[s].waits /\ "channels" \in OwnTicks(pc)
        BY <1>15, <2>5, <3>1, SweepEntersEffect
      <4>2. StartedTick("channels").phase = "claim"
        BY DEF StartedTick
      <4>3. PICK l \in Loops : l = "channels"
        BY <1>2
      <4>4. ticks'[l][s] = StartedTick(l)
        BY <2>1, <4>1, <4>3, RunsStarts
      <4> QED BY <2>1, <4>1, <4>2, <4>3, <4>4
    <3>2. CASE inFlight["channels"] # None
      <4>1. PICK t \in Starters : t = inFlight["channels"]
        BY <1>1, <1>2, <3>2
      <4>2. <<"channels", t>> \in sweep'[s].waits /\ ticks["channels"][t].phase # "work"
        BY <1>15, <2>5, <3>2, <4>1, SweepEntersEffect
      <4>3. TickRuns("channels", t)
        BY <1>2, <1>15, <4>1 DEF TicksInSight
      <4>4. ticks["channels"][t].phase = "claim"
        BY <1>1, <1>2, <4>2, <4>3 DEF TickRuns, HostedTick
      <4> QED BY <2>2, <4>2, <4>4
    <3> QED BY <3>1, <3>2
  <2>6. SweepDelivers'
    <3>1. ASSUME NEW r \in Sweeps \ excused', sweep'[r].pc = "analysis",
                 NEW p \in Posts, r \in postedFor[p]
          PROVE  post[p] # "queued"
      <4>1. CASE r = s
        BY <2>3, <2>4, <3>1, <4>1
      <4>2. CASE r # s
        BY <2>3, <3>1, <4>2 DEF SweepDelivers
      <4> QED BY <4>1, <4>2
    <3> QED BY <2>3, <3>1 DEF SweepDelivers
  <2>7. ASSUME NEW r \in Sweeps \ excused', NEW p \in Posts, sweep'[r].pc = "channels",
               r \in postedFor[p], post[p] = "queued"
        PROVE  \E t \in Starters : /\ <<"channels", t>> \in sweep'[r].waits
                                   /\ ticks'["channels"][t].phase = "claim"
    <3>1. CASE r = s
      BY <2>3, <2>5, <2>7, <3>1
    <3>2. CASE r # s
      BY <1>15, <2>2, <2>3, <2>7, <3>2 DEF ClaimsAhead
    <3> QED BY <3>1, <3>2
  <2> QED BY <2>3, <2>6, <2>7 DEF ClaimsAhead
<1>16. ASSUME NEW s \in Sweeps,
              StartSweep(s) \/ SweepGoesOn(s, "first", "channels")
              \/ SweepGoesOn(s, "channels", "analysis")
       PROVE  ClaimsAhead' /\ SweepDelivers'
  <2>1. ~stopping
    BY <1>16, MonitoringRuntimeAssumption DEF StartSweep, SweepGoesOn, StopWaits, NoSweeps
  <2>2. CASE StartSweep(s)
    <3>1. Alive
      BY <2>2, MonitoringRuntimeAssumption DEF StartSweep, StopWaits
    <3> QED BY <1>15, <2>1, <2>2, <3>1 DEF StartSweep
  <2>3. CASE SweepGoesOn(s, "first", "channels") \/ SweepGoesOn(s, "channels", "analysis")
    BY <1>15, <2>1, <2>3 DEF SweepGoesOn
  <2> QED BY <1>16, <2>2, <2>3
<1>17. ASSUME NEW s \in Sweeps, SweepReturns(s) PROVE ClaimsAhead' /\ SweepDelivers'
  <2>1. /\ UNCHANGED <<ticks, post, database>> /\ excused' = excused \ {s}
        /\ sweep'[s].pc = "idle" /\ \A r \in Sweeps : r # s => sweep'[r] = sweep[r]
        /\ \A p \in Posts : postedFor'[p] \subseteq postedFor[p]
    BY <1>1, <1>17 DEF SweepReturns, HostedSweep, ProcessKeeps
  <2> QED BY <2>1 DEF ClaimsAhead, SweepDelivers, Alive
<1> QED BY <1>5, <1>6, <1>7, <1>8, <1>9, <1>10, <1>12, <1>13, <1>14, <1>16, <1>17
        DEF RuntimeNext

-----------------------------------------------------------------------------
LEMMA RuntimeInvariant == RuntimeSpec => [](RuntimeShape /\ RuntimeInv)
<1>1. RuntimeInit => RuntimeShape /\ RuntimeInv
  BY RuntimeShapeInit, SightInit, WorkerInit, StopInit, MessagesInit DEF RuntimeInv
<1>2. RuntimeShape /\ RuntimeInv /\ [RuntimeNext]_runtimeVars => (RuntimeShape /\ RuntimeInv)'
  BY RuntimeShapeStep, SightStep, WorkerStep, StopStep, MessagesStep DEF RuntimeInv
<1> QED BY <1>1, <1>2, PTL DEF RuntimeSpec

\* The loops, the sweeps and the shutdown of a process are well typed, and no channel tick
\* claims more than a batch.
THEOREM RuntimeTypesAlways == RuntimeSpec => []RuntimeTypeOK
BY RuntimeInvariant, PTL DEF RuntimeShape

\* The order that a sweep and a shutdown promise: what a sweep has queued is claimed before it
\* goes on, and the connection outlives every tick that its loop has in sight.
THEOREM RuntimeKeepsOrderAlways == RuntimeSpec => []RuntimeKeepsOrder
<1>1. RuntimeShape /\ RuntimeInv => RuntimeKeepsOrder
  <2> SUFFICES ASSUME RuntimeShape, RuntimeInv, database = "closed"
               PROVE  RunningTicks \subseteq overlapped /\ (host = "worker" => RunningTicks = {})
    BY DEF RuntimeKeepsOrder, ConnectionOutlivesTicks, RuntimeInv
  <2>1. stopping /\ shutdown.waits = {} /\ Alive
    BY DEF RuntimeInv, StopWaits, HasStopped, Alive
  <2>2. \A l \in Loops, t \in Starters : TickRuns(l, t) => <<l, t>> \in overlapped
    BY <2>1 DEF RuntimeInv, StopWaits
  <2>3. RunningTicks \subseteq overlapped
    BY <2>2 DEF RunningTicks
  <2> QED BY <2>3 DEF RuntimeInv, WorkerOnlyTicks
<1> QED BY <1>1, RuntimeInvariant, PTL

-----------------------------------------------------------------------------
(* An auxiliary monitor.                                                   *)

\* The stages at which a run has not yet decided anything.
Undecided == {"claimed", "run", "record", "apply", "create", "adopt"}

\* What the unique index and the handlers keep true of every incident, whatever runs overlap.
ProblemsInOrder ==
    /\ \A c, d \in MonitorIncidents : Open(c) /\ Open(d) => c = d
    /\ \A c \in MonitorIncidents : problem[c].status \in {"none", "open"} =>
           ~problem[c].byHand /\ ~problem[c].recoveryTold

\* What a run has opened or resolved is announced once it is past the announcement.
RunsAnnounce ==
    /\ Running # {} => ~runWanted
    /\ \A j \in MonitorJobs :
           /\ runner[j].opened # None \/ runner[j].resolved # None =>
                  runner[j].pc \in {"save", "notify", "finally"}
           /\ runner[j].pc \in Undecided => runner[j].open = None
           /\ runner[j].opened = None \/ runner[j].resolved = None
           /\ runner[j].pc = "notify" => runner[j].opened # None \/ runner[j].resolved # None
           /\ runner[j].opened # None /\ runner[j].pc = "finally" =>
                  problem[runner[j].opened].problemTold \/ runner[j].opened \in muted
           /\ runner[j].resolved # None =>
                  /\ problem[runner[j].resolved].status \in {"resolved", "gone"}
                  /\ ~problem[runner[j].resolved].byHand
                  /\ runner[j].pc = "finally" =>
                         problem[runner[j].resolved].recoveryTold \/ runner[j].resolved \in muted

Undisturbed == monitor.exists /\ ~Gone /\ ~outran

\* Runs exclude each other, and a run knows the monitor as it is until it has saved.
OneRun ==
    /\ \A j, k \in MonitorJobs : runner[j].pc # "idle" /\ runner[k].pc # "idle" => j = k
    /\ Running # {} => monitor.lease = "held"
    /\ runWanted => monitor.due
    /\ \A j \in MonitorJobs : runner[j].pc \in Undecided \cup {"save"} =>
           /\ runner[j].current = monitor.current
           /\ runner[j].consecutiveErrors = monitor.consecutiveErrors

JustOpened(c) == \E j \in MonitorJobs : Saving(j) /\ runner[j].opened = c

\* An open incident that the monitor does not refer to was cut off, and from its announcement too.
OthersAdrift ==
    \A c \in MonitorIncidents :
        Open(c) /\ c # monitor.current /\ ~JustOpened(c) => c \in adrift \cap muted

TruthShown ==
    /\ monitor.status = "passing" => \A c \in MonitorIncidents : ~Open(c)
    /\ monitor.status \in {"warning", "failing"} =>
           /\ monitor.current # None
           /\ \/ monitor.current \in muted
              \/ /\ problem[monitor.current].severity = SeverityFor(monitor.status)
                 /\ Open(monitor.current) \/ problem[monitor.current].byHand
    /\ monitor.status = "error" => monitor.consecutiveErrors = ErrorStatusThreshold

\* What a run that is about to save has found, and how it bears on the incidents.
FoundOut(j) ==
    LET r == runner[j]
    IN  /\ r.pc \in {"record", "apply", "save"} => r.verdict \in Verdicts
        /\ r.pc \in {"create", "adopt"} =>
               /\ r.verdict \in {"warning", "failing"}
               /\ monitor.current # None => ~Open(monitor.current)
        /\ r.pc = "adopt" => adrift # {}
        /\ r.pc = "save" =>
               /\ r.opened # None => r.open = r.opened
               /\ \A c \in MonitorIncidents : Open(c) => r.open = c \/ (c # monitor.current /\ c \in adrift)
               /\ r.verdict = "error" =>
                      r.open = monitor.current /\ r.opened = None /\ r.resolved = None
               /\ r.verdict = "passing" => r.open = None
               /\ r.verdict \in {"warning", "failing"} =>
                      IF r.open = None THEN adrift # {}
                      ELSE \/ r.open \in muted
                           \/ /\ problem[r.open].severity = SeverityFor(r.verdict)
                              /\ Open(r.open) \/ problem[r.open].byHand
               /\ /\ adrift = {} /\ r.opened = None /\ r.resolved = None
                  /\ r.open = None \/ r.verdict = "error"
                  => TruthShown

TruthInv ==
    /\ OneRun /\ OthersAdrift
    /\ \A j \in MonitorJobs : FoundOut(j)
    /\ (\E j \in MonitorJobs : Saving(j)) \/ adrift # {} \/ TruthShown

Announced == ProblemsInOrder /\ RunsAnnounce /\ TransitionsAreTold

MonitorInv == Announced /\ (Undisturbed => TruthInv)

-----------------------------------------------------------------------------
LEMMA ExpiryVerdicts ==
    ASSUME NEW d \in Days PROVE ExpiryStatus(d) \in {"passing", "warning", "failing"}
BY DEF ExpiryStatus

\* The worst of some verdicts is one of them, or "passing"; nothing outranks "failing".
LEMMA WorstOfTwo ==
    ASSUME NEW v \in Verdicts
    PROVE  /\ WorstStatus({v} \cup {}) \in Verdicts
           /\ WorstStatus({v} \cup {"failing"}) = "failing"
<1>1. /\ Rank["passing"] = 1 /\ Rank["warning"] = 2 /\ Rank["error"] = 3 /\ Rank["failing"] = 4
  BY DEF Rank
<1>2. WorstStatus({v} \cup {}) \in Verdicts
  <2>1. \E s \in ({v} \cup {}) \cup {"passing"} :
            \A t \in ({v} \cup {}) \cup {"passing"} : Rank[t] <= Rank[s]
    BY <1>1 DEF Verdicts
  <2> QED BY <2>1 DEF WorstStatus, Verdicts
<1>3. WorstStatus({v} \cup {"failing"}) = "failing"
  <2> DEFINE S == ({v} \cup {"failing"}) \cup {"passing"}
  <2>1. \A t \in S : Rank[t] <= Rank["failing"]
    BY <1>1 DEF Verdicts
  <2>2. \A s \in S : (\A t \in S : Rank[t] <= Rank[s]) => s = "failing"
    BY <1>1 DEF Verdicts
  <2> QED BY <2>1, <2>2 DEF WorstStatus
<1> QED BY <1>2, <1>3

LEMMA VerdictTypes ==
    ASSUME NEW type \in MonitorTypes, NEW baseline \in BOOLEAN
    PROVE  RunVerdicts(type, baseline) \subseteq Verdicts
<1>1. ASSUME NEW o \in SslOutcomes PROVE SslVerdict(o) \in Verdicts
  <2>1. o.days \in Days BY DEF SslOutcomes
  <2>2. ExpiryStatus(o.days) \in Verdicts BY <2>1, ExpiryVerdicts DEF Verdicts
  <2> QED BY <2>2, WorstOfTwo DEF SslVerdict, Verdicts
<1>2. \A o \in DomainOutcomes : DomainVerdict(o) \in Verdicts
  BY DEF DomainVerdict, ExpiryStatus, Verdicts
<1>3. \A o : PerformanceVerdict(o) \in Verdicts /\ SeoVerdict(o) \in Verdicts
             /\ LinksVerdict(o) \in Verdicts
             /\ \A b : ContentVerdict(o, b) \in Verdicts
  BY DEF PerformanceVerdict, SeoVerdict, LinksVerdict, ContentVerdict, Verdicts
<1>4. ContentVerdicts[baseline] \subseteq Verdicts
  BY <1>3 DEF ContentVerdicts
<1> QED BY <1>1, <1>2, <1>3, <1>4
        DEF RunVerdicts, MonitorTypes, SslVerdicts, DomainVerdicts, PerformanceVerdicts,
            SeoVerdicts, LinksVerdicts

-----------------------------------------------------------------------------
\* Run j is as it was but for what these say.
Becomes(j, pc, verdict, open, opened, resolved) ==
    /\ runner' \in [MonitorJobs -> Runner]
    /\ \A k \in MonitorJobs \ {j} : runner'[k] = runner[k]
    /\ runner'[j].pc = pc
    /\ runner'[j].current = runner[j].current
    /\ runner'[j].consecutiveErrors = runner[j].consecutiveErrors
    /\ runner'[j].verdict = verdict
    /\ runner'[j].open = open
    /\ runner'[j].opened = opened
    /\ runner'[j].resolved = resolved

Idles(j) ==
    /\ runner' \in [MonitorJobs -> Runner]
    /\ \A k \in MonitorJobs \ {j} : runner'[k] = runner[k]
    /\ runner'[j].pc = "idle" /\ runner'[j].opened = None /\ runner'[j].resolved = None

LEMMA GoesEffect ==
    ASSUME MonitorTypeOK, NEW j \in MonitorJobs,
           NEW pc \in {"run", "apply", "create", "adopt", "save", "notify", "finally"},
           RunnerGoes(j, pc)
    PROVE  Becomes(j, pc, runner[j].verdict, runner[j].open, runner[j].opened, runner[j].resolved)
BY DEF MonitorTypeOK, RunnerGoes, Becomes, Runner

LEMMA IdlesEffect ==
    ASSUME MonitorTypeOK, NEW j \in MonitorJobs, runner' = [runner EXCEPT ![j] = IdleRunner]
    PROVE  Idles(j)
BY AuxMonitorAssumption DEF MonitorTypeOK, Idles, IdleRunner, Runner, Shown

MonitorKeeps == monitor' = monitor /\ site' = site
HistoryKeeps == runWanted' = runWanted /\ outran' = outran /\ adrift' = adrift /\ muted' = muted

\* What applying a verdict comes to, by what was found and whether the incident is still open.
LEMMA ApplyEffect ==
    ASSUME MonitorTypeOK, NEW j \in MonitorJobs, ApplyVerdict(j),
           runner[j].open = None, runner[j].opened = None, runner[j].resolved = None
    PROVE  LET v == runner[j].verdict
               c == runner[j].current
           IN  /\ MonitorKeeps /\ HistoryKeeps
               /\ \/ /\ v = "error" /\ problem' = problem
                     /\ Becomes(j, "save", v, c, None, None)
                  \/ /\ v = "passing" /\ c \in MonitorIncidents /\ Open(c)
                     /\ problem' = [problem EXCEPT ![c].status = "resolved"]
                     /\ Becomes(j, "save", v, None, None, c)
                  \/ /\ v = "passing" /\ (c = None \/ ~Open(c)) /\ problem' = problem
                     /\ Becomes(j, "save", v, None, None, None)
                  \/ /\ v \notin {"error", "passing"} /\ c \in MonitorIncidents /\ Open(c)
                     /\ problem' = [problem EXCEPT ![c].severity = SeverityFor(v)]
                     /\ Becomes(j, "save", v, c, None, None)
                  \/ /\ v \notin {"error", "passing"} /\ (c = None \/ ~Open(c)) /\ problem' = problem
                     /\ Becomes(j, "create", v, None, None, None)
<1> DEFINE v == runner[j].verdict
           c == runner[j].current
<1>1. v \in Shown /\ c \in MonitorIncidents \cup {None} /\ None \in MonitorIncidents \cup {None}
  BY DEF MonitorTypeOK, Runner
<1>2. MonitorKeeps /\ HistoryKeeps
  BY DEF ApplyVerdict, MonitorHistory, MonitorKeeps, HistoryKeeps
<1>3. CASE v = "error"
  <2>1. problem' = problem /\ runner' = [runner EXCEPT ![j].pc = "save", ![j].open = c]
    BY <1>3 DEF ApplyVerdict, KeptOnError
  <2>2. Becomes(j, "save", v, c, None, None)
    BY <1>1, <2>1 DEF MonitorTypeOK, Becomes, Runner
  <2> QED BY <1>2, <1>3, <2>1, <2>2
<1>4. CASE v = "passing" /\ c # None /\ Open(c)
  <2>1. /\ problem' = [problem EXCEPT ![c].status = "resolved"]
        /\ runner' = [runner EXCEPT ![j].pc = "save", ![j].resolved = c]
    BY <1>4 DEF ApplyVerdict
  <2>2. Becomes(j, "save", v, None, None, c)
    BY <1>1, <2>1 DEF MonitorTypeOK, Becomes, Runner
  <2> QED BY <1>1, <1>2, <1>4, <2>1, <2>2
<1>5. CASE v = "passing" /\ ~(c # None /\ Open(c))
  <2>1. problem' = problem /\ RunnerGoes(j, "save")
    BY <1>5 DEF ApplyVerdict
  <2> QED BY <1>1, <1>2, <1>5, <2>1, GoesEffect
<1>6. CASE v \notin {"error", "passing"} /\ c # None /\ Open(c)
  <2>1. /\ problem' = [problem EXCEPT ![c].severity = SeverityFor(v)]
        /\ runner' = [runner EXCEPT ![j].pc = "save", ![j].open = c]
    BY <1>6 DEF ApplyVerdict
  <2>2. Becomes(j, "save", v, c, None, None)
    BY <1>1, <2>1 DEF MonitorTypeOK, Becomes, Runner
  <2> QED BY <1>1, <1>2, <1>6, <2>1, <2>2
<1>7. CASE v \notin {"error", "passing"} /\ ~(c # None /\ Open(c))
  <2>1. problem' = problem /\ RunnerGoes(j, "create")
    BY <1>7 DEF ApplyVerdict
  <2> QED BY <1>1, <1>2, <1>7, <2>1, GoesEffect
<1> QED BY <1>3, <1>4, <1>5, <1>6, <1>7

\* An incident that is opened, and one whose severity or status changes.
LEMMA OpensEffect ==
    ASSUME MonitorTypeOK, NEW c \in MonitorIncidents, NEW v,
           problem' = [problem EXCEPT ![c].status = "open", ![c].severity = SeverityFor(v)]
    PROVE  /\ problem' \in [MonitorIncidents -> Problem]
           /\ problem'[c].status = "open" /\ problem'[c].severity = SeverityFor(v)
           /\ problem'[c].byHand = problem[c].byHand
           /\ problem'[c].recoveryTold = problem[c].recoveryTold
           /\ \A d \in MonitorIncidents \ {c} : problem'[d] = problem[d]
<1>1. SeverityFor(v) \in {"critical", "warning"}
  BY DEF SeverityFor
<1> DEFINE p == [problem[c] EXCEPT !.status = "open", !.severity = SeverityFor(v)]
<1>2. problem' = [problem EXCEPT ![c] = p]
  BY DEF MonitorTypeOK
<1>3. /\ p \in Problem /\ p.status = "open" /\ p.severity = SeverityFor(v)
      /\ p.byHand = problem[c].byHand /\ p.recoveryTold = problem[c].recoveryTold
  BY <1>1 DEF MonitorTypeOK, Problem
<1> HIDE DEF p
<1> QED BY <1>2, <1>3 DEF MonitorTypeOK

LEMMA ResolvesEffect ==
    ASSUME MonitorTypeOK, NEW c \in MonitorIncidents,
           problem' = [problem EXCEPT ![c].status = "resolved"]
    PROVE  /\ problem' \in [MonitorIncidents -> Problem]
           /\ problem'[c].status = "resolved" /\ problem'[c].byHand = problem[c].byHand
           /\ problem'[c].recoveryTold = problem[c].recoveryTold
           /\ \A d \in MonitorIncidents \ {c} : problem'[d] = problem[d]
BY DEF MonitorTypeOK, Problem

LEMMA WeighsEffect ==
    ASSUME MonitorTypeOK, NEW c \in MonitorIncidents, NEW v,
           problem' = [problem EXCEPT ![c].severity = SeverityFor(v)]
    PROVE  /\ problem' \in [MonitorIncidents -> Problem]
           /\ problem'[c].severity = SeverityFor(v)
           /\ \A d \in MonitorIncidents : /\ problem'[d].status = problem[d].status
                                         /\ problem'[d].byHand = problem[d].byHand
                                         /\ problem'[d].problemTold = problem[d].problemTold
                                         /\ problem'[d].recoveryTold = problem[d].recoveryTold
<1>1. SeverityFor(v) \in {"critical", "warning"}
  BY DEF SeverityFor
<1> QED BY <1>1 DEF MonitorTypeOK, Problem

LEMMA CreateEffect ==
    ASSUME MonitorTypeOK, NEW j \in MonitorJobs, CreateProblem(j),
           runner[j].open = None, runner[j].opened = None, runner[j].resolved = None
    PROVE  /\ MonitorKeeps /\ HistoryKeeps
           /\ \/ /\ \E c \in MonitorIncidents : Open(c)
                 /\ problem' = problem
                 /\ Becomes(j, "adopt", runner[j].verdict, None, None, None)
              \/ /\ \A c \in MonitorIncidents : ~Open(c)
                 /\ \E c \in MonitorIncidents :
                        /\ problem[c].status = "none"
                        /\ problem' = [problem EXCEPT
                               ![c].status = "open", ![c].severity = SeverityFor(runner[j].verdict)]
                        /\ Becomes(j, "save", runner[j].verdict, c, c, None)
<1>1. MonitorKeeps /\ HistoryKeeps
  BY DEF CreateProblem, MonitorHistory, MonitorKeeps, HistoryKeeps
<1>2. CASE \E c \in MonitorIncidents : Open(c)
  <2>1. RunnerGoes(j, "adopt") /\ problem' = problem
    BY <1>2 DEF CreateProblem
  <2> QED BY <1>1, <1>2, <2>1, GoesEffect
<1>3. CASE \A c \in MonitorIncidents : ~Open(c)
  <2>1. PICK c \in MonitorIncidents :
            /\ problem[c].status = "none"
            /\ problem' = [problem EXCEPT ![c].status = "open",
                                          ![c].severity = SeverityFor(runner[j].verdict)]
            /\ runner' = [runner EXCEPT ![j].pc = "save", ![j].open = c, ![j].opened = c]
    BY <1>3 DEF CreateProblem
  <2>2. Becomes(j, "save", runner[j].verdict, c, c, None)
    BY <2>1 DEF MonitorTypeOK, Becomes, Runner
  <2> QED BY <1>1, <1>3, <2>1, <2>2
<1> QED BY <1>2, <1>3

LEMMA AdoptEffect ==
    ASSUME MonitorTypeOK, NEW j \in MonitorJobs, AdoptProblem(j)
    PROVE  /\ MonitorKeeps /\ HistoryKeeps /\ problem' = problem
           /\ \E open \in MonitorIncidents \cup {None} :
                  /\ Becomes(j, "save", runner[j].verdict, open, runner[j].opened, runner[j].resolved)
                  /\ open # None => open \in MonitorIncidents /\ Open(open)
                  /\ open = None => \A c \in MonitorIncidents : ~Open(c)
<1> DEFINE open == IF \E c \in MonitorIncidents : Open(c)
                   THEN CHOOSE c \in MonitorIncidents : Open(c) ELSE None
<1>1. /\ open \in MonitorIncidents \cup {None}
      /\ open # None => open \in MonitorIncidents /\ Open(open)
      /\ open = None => \A c \in MonitorIncidents : ~Open(c)
  BY AuxMonitorAssumption
<1>2. runner' = [runner EXCEPT ![j].pc = "save", ![j].open = open] /\ problem' = problem
      /\ MonitorKeeps /\ HistoryKeeps
  BY DEF AdoptProblem, MonitorHistory, MonitorKeeps, HistoryKeeps
<1> HIDE DEF open
<1>3. Becomes(j, "save", runner[j].verdict, open, runner[j].opened, runner[j].resolved)
  BY <1>1, <1>2 DEF MonitorTypeOK, Becomes, Runner
<1> QED BY <1>1, <1>2, <1>3

\* What saving does: the monitor refers to what the run found, and shows it unless it is an
\* error that is not yet one of many.
LEMMA SaveEffect ==
    ASSUME MonitorTypeOK, NEW j \in MonitorJobs, SaveMonitor(j)
    PROVE  /\ site' = site /\ problem' = problem
           /\ runWanted' = runWanted /\ outran' = outran /\ muted' = muted
           /\ \E pc \in {"notify", "finally"} :
                  /\ (pc = "notify") <=> (runner[j].opened # None \/ runner[j].resolved # None)
                  /\ Becomes(j, pc, runner[j].verdict, runner[j].open, runner[j].opened,
                             runner[j].resolved)
           /\ ~monitor.exists => monitor' = monitor
           /\ monitor' \in Monitor /\ monitor'.exists = monitor.exists
           /\ monitor'.lease = monitor.lease /\ monitor'.due = monitor.due
           /\ monitor.exists =>
                  /\ monitor'.current = runner[j].open
                  /\ runner[j].verdict = "error" =>
                         /\ adrift' = adrift
                         /\ \/ /\ monitor'.status = monitor.status
                               /\ runner[j].consecutiveErrors # ErrorStatusThreshold
                            \/ /\ monitor'.status = "error"
                               /\ monitor'.consecutiveErrors = ErrorStatusThreshold
                  /\ runner[j].verdict # "error" =>
                         /\ adrift' = adrift \ {runner[j].open}
                         /\ monitor'.status = runner[j].verdict
           /\ adrift' \subseteq MonitorIncidents
<1> DEFINE r == runner[j]
           hidden == r.verdict = "error" /\ ErrorsAfter(j) < ErrorStatusThreshold
           pc == IF r.opened # None \/ r.resolved # None THEN "notify" ELSE "finally"
<1>1. /\ r.open \in MonitorIncidents \cup {None} /\ r.verdict \in Shown
      /\ r.consecutiveErrors \in 0 .. ErrorStatusThreshold
  BY DEF MonitorTypeOK, Runner
<1>2. /\ ErrorsAfter(j) \in 0 .. ErrorStatusThreshold
      /\ r.consecutiveErrors = ErrorStatusThreshold /\ r.verdict = "error" =>
             ErrorsAfter(j) = ErrorStatusThreshold
      /\ r.verdict = "error" /\ ~(ErrorsAfter(j) < ErrorStatusThreshold) =>
             ErrorsAfter(j) = ErrorStatusThreshold
  BY <1>1, AuxMonitorAssumption DEF ErrorsAfter
<1>3. Becomes(j, pc, r.verdict, r.open, r.opened, r.resolved) /\ pc \in {"notify", "finally"}
  BY GoesEffect DEF SaveMonitor
<1>4. CASE ~monitor.exists
  <2>1. monitor' = monitor /\ adrift' = adrift
    BY <1>4 DEF SaveMonitor
  <2> QED BY <1>3, <1>4, <2>1 DEF SaveMonitor, MonitorTypeOK
<1>5. CASE monitor.exists
  <2>1. monitor' = [monitor EXCEPT !.current = r.open, !.consecutiveErrors = ErrorsAfter(j),
                                   !.status = IF hidden THEN @ ELSE r.verdict]
    BY <1>5 DEF SaveMonitor
  <2>2. /\ monitor' \in Monitor /\ monitor'.exists = monitor.exists
        /\ monitor'.lease = monitor.lease /\ monitor'.due = monitor.due
        /\ monitor'.current = r.open /\ monitor'.consecutiveErrors = ErrorsAfter(j)
        /\ monitor'.status = (IF hidden THEN monitor.status ELSE r.verdict)
    BY <1>1, <1>2, <2>1 DEF MonitorTypeOK, Monitor
  <2>3. adrift' = IF r.verdict # "error" THEN adrift \ {r.open} ELSE adrift
    BY <1>5 DEF SaveMonitor
  <2>4. ASSUME r.verdict = "error"
        PROVE  \/ monitor'.status = monitor.status /\ r.consecutiveErrors # ErrorStatusThreshold
               \/ /\ monitor'.status = "error"
                  /\ monitor'.consecutiveErrors = ErrorStatusThreshold
    BY <1>2, <2>2, <2>4, AuxMonitorAssumption
  <2>5. adrift' \subseteq MonitorIncidents
    BY <2>3 DEF MonitorTypeOK
  <2> HIDE DEF hidden
  <2>6. r.verdict # "error" => monitor'.status = r.verdict
    BY <2>2 DEF hidden
  <2> QED BY <1>3, <1>5, <2>2, <2>3, <2>4, <2>5, <2>6 DEF SaveMonitor
<1> QED BY <1>4, <1>5

LEMMA NotifyEffect ==
    ASSUME MonitorTypeOK, NEW j \in MonitorJobs, NotifyTransition(j),
           runner[j].opened # None \/ runner[j].resolved # None
    PROVE  /\ MonitorKeeps /\ HistoryKeeps
           /\ Becomes(j, "finally", runner[j].verdict, runner[j].open, runner[j].opened,
                      runner[j].resolved)
           /\ problem' \in [MonitorIncidents -> Problem]
           /\ \A c \in MonitorIncidents :
                  /\ problem'[c].status = problem[c].status /\ problem'[c].byHand = problem[c].byHand
                  /\ problem'[c].severity = problem[c].severity
                  /\ problem[c].problemTold => problem'[c].problemTold
                  /\ problem[c].recoveryTold => problem'[c].recoveryTold
                  /\ problem'[c].recoveryTold =>
                         problem[c].recoveryTold \/ c = runner[j].resolved
           /\ runner[j].opened # None => problem'[runner[j].opened].problemTold
           /\ runner[j].opened = None => problem'[runner[j].resolved].recoveryTold
<1> DEFINE r == runner[j]
<1>1. r.opened \in MonitorIncidents \cup {None} /\ r.resolved \in MonitorIncidents \cup {None}
  BY DEF MonitorTypeOK, Runner
<1>2. MonitorKeeps /\ HistoryKeeps /\ RunnerGoes(j, "finally")
  BY DEF NotifyTransition, MonitorHistory, MonitorKeeps, HistoryKeeps
<1>3. Becomes(j, "finally", r.verdict, r.open, r.opened, r.resolved)
  BY <1>2, GoesEffect
<1>4. problem \in [MonitorIncidents -> Problem]
  BY DEF MonitorTypeOK
<1>5. CASE r.opened # None
  <2>1. problem' = [problem EXCEPT ![r.opened].problemTold = TRUE]
    BY <1>5 DEF NotifyTransition
  <2>2. problem' \in [MonitorIncidents -> Problem]
    BY <1>1, <1>4, <1>5, <2>1 DEF Problem
  <2>3. \A c \in MonitorIncidents :
            /\ problem'[c].status = problem[c].status /\ problem'[c].byHand = problem[c].byHand
            /\ problem'[c].severity = problem[c].severity
            /\ problem[c].problemTold => problem'[c].problemTold
            /\ problem'[c].recoveryTold = problem[c].recoveryTold
    BY <1>1, <1>4, <1>5, <2>1 DEF Problem
  <2>4. problem'[r.opened].problemTold
    BY <1>1, <1>4, <1>5, <2>1 DEF Problem
  <2> QED BY <1>2, <1>3, <1>5, <2>2, <2>3, <2>4
<1>6. CASE r.opened = None
  <2>1. problem' = [problem EXCEPT ![r.resolved].recoveryTold = TRUE]
    BY <1>6 DEF NotifyTransition
  <2>2. problem' \in [MonitorIncidents -> Problem]
    BY <1>1, <1>4, <1>6, <2>1 DEF Problem
  <2>3. \A c \in MonitorIncidents :
            /\ problem'[c].status = problem[c].status /\ problem'[c].byHand = problem[c].byHand
            /\ problem'[c].severity = problem[c].severity
            /\ problem'[c].problemTold = problem[c].problemTold
            /\ problem[c].recoveryTold => problem'[c].recoveryTold
            /\ c # r.resolved => problem'[c].recoveryTold = problem[c].recoveryTold
    BY <1>1, <1>4, <1>6, <2>1 DEF Problem
  <2>4. problem'[r.resolved].recoveryTold
    BY <1>1, <1>4, <1>6, <2>1 DEF Problem
  <2> QED BY <1>1, <1>2, <1>3, <1>6, <2>2, <2>3, <2>4
<1> QED BY <1>5, <1>6

\* What claiming, joining, and running come to.
LEMMA ClaimEffect ==
    ASSUME MonitorTypeOK, NEW j \in MonitorJobs, ClaimMonitor(j)
    PROVE  /\ runner[j].pc = "idle" /\ monitor.exists /\ monitor.lease # "held"
           /\ monitor' \in Monitor /\ monitor' = [monitor EXCEPT !.lease = "held"]
           /\ runner' \in [MonitorJobs -> Runner]
           /\ \A k \in MonitorJobs \ {j} : runner'[k] = runner[k]
           /\ runner'[j].pc = "claimed" /\ runner'[j].current = monitor.current
           /\ runner'[j].consecutiveErrors = monitor.consecutiveErrors
           /\ runner'[j].open = None /\ runner'[j].opened = None /\ runner'[j].resolved = None
           /\ runWanted' = FALSE /\ site' = site /\ problem' = problem /\ outran' = outran
           /\ adrift' = adrift /\ muted' = muted
<1>1. /\ monitor \in Monitor /\ runner \in [MonitorJobs -> Runner]
  BY DEF MonitorTypeOK
<1> DEFINE r == [IdleRunner EXCEPT !.pc = "claimed", !.current = monitor.current,
                                  !.consecutiveErrors = monitor.consecutiveErrors]
<1>2. /\ r \in Runner /\ r.pc = "claimed" /\ r.current = monitor.current
      /\ r.consecutiveErrors = monitor.consecutiveErrors
      /\ r.open = None /\ r.opened = None /\ r.resolved = None
  BY <1>1 DEF IdleRunner, Runner, Monitor, Shown
<1>3. runner' = [runner EXCEPT ![j] = r]
  BY DEF ClaimMonitor
<1> HIDE DEF r
<1>4. /\ runner' \in [MonitorJobs -> Runner] /\ runner'[j] = r
      /\ \A k \in MonitorJobs \ {j} : runner'[k] = runner[k]
  BY <1>1, <1>2, <1>3
<1>5. monitor' = [monitor EXCEPT !.lease = "held"] /\ monitor' \in Monitor
  BY <1>1 DEF ClaimMonitor, Monitor
<1> QED BY <1>2, <1>4, <1>5 DEF ClaimMonitor, Runnable

LEMMA JoinEffect ==
    ASSUME MonitorTypeOK, NEW j \in MonitorJobs, JoinWebsite(j)
    PROVE  /\ runner[j].pc = "claimed" /\ MonitorKeeps /\ HistoryKeeps /\ problem' = problem
           /\ \/ Gone /\ Idles(j)
              \/ /\ ~Gone
                 /\ \E pc \in {"run", "finally"} :
                        Becomes(j, pc, runner[j].verdict, runner[j].open, runner[j].opened,
                                runner[j].resolved)
<1>1. MonitorKeeps /\ HistoryKeeps /\ problem' = problem /\ runner[j].pc = "claimed"
  BY DEF JoinWebsite, MonitorHistory, MonitorKeeps, HistoryKeeps
<1>2. \/ Gone /\ runner' = [runner EXCEPT ![j] = IdleRunner]
      \/ site = "paused" /\ RunnerGoes(j, "finally")
      \/ site = "running" /\ RunnerGoes(j, "run")
  BY DEF JoinWebsite, MonitorTypeOK, Gone
<1>3. CASE Gone /\ runner' = [runner EXCEPT ![j] = IdleRunner]
  BY <1>1, <1>3, IdlesEffect
<1>4. CASE site = "paused" /\ RunnerGoes(j, "finally")
  BY <1>1, <1>4, GoesEffect DEF Gone
<1>5. CASE site = "running" /\ RunnerGoes(j, "run")
  BY <1>1, <1>5, GoesEffect DEF Gone
<1> QED BY <1>2, <1>3, <1>4, <1>5

LEMMA RunEffect ==
    ASSUME MonitorTypeOK, NEW j \in MonitorJobs, RunMonitor(j)
    PROVE  /\ runner[j].pc = "run" /\ MonitorKeeps /\ HistoryKeeps /\ problem' = problem
           /\ \E v \in Verdicts :
                  Becomes(j, "record", v, runner[j].open, runner[j].opened, runner[j].resolved)
<1>1. PICK v \in RunVerdicts(monitor.type, lastResult \in {"passing", "warning"}) :
          runner' = [runner EXCEPT ![j].pc = "record", ![j].verdict = v]
  BY DEF RunMonitor
<1>2. v \in Verdicts
  <2>1. monitor.type \in MonitorTypes BY DEF MonitorTypeOK, Monitor
  <2>2. (lastResult \in {"passing", "warning"}) \in BOOLEAN OBVIOUS
  <2> QED BY <1>1, <2>1, <2>2, VerdictTypes
<1>3. Becomes(j, "record", v, runner[j].open, runner[j].opened, runner[j].resolved)
  BY <1>1, <1>2 DEF MonitorTypeOK, Becomes, Runner, Shown
<1> QED BY <1>2, <1>3 DEF RunMonitor, MonitorHistory, MonitorKeeps, HistoryKeeps

LEMMA CutEffect ==
    ASSUME MonitorTypeOK, NEW j \in MonitorJobs, CutShort(j)
    PROVE  /\ adrift \subseteq adrift' /\ adrift' \subseteq MonitorIncidents
           /\ muted \subseteq muted' /\ muted' \subseteq MonitorIncidents
           /\ runner[j].pc \in {"save", "notify"} =>
                  /\ runner[j].opened # None => runner[j].opened \in muted'
                  /\ runner[j].resolved # None => runner[j].resolved \in muted'
           /\ runner[j].pc = "save" =>
                  /\ runner[j].opened # None => runner[j].opened \in adrift'
                  /\ runner[j].resolved # None => runner[j].resolved \in adrift'
                  /\ runner[j].open # None => runner[j].open \in adrift'
           /\ runner[j].pc # "save" => adrift' = adrift
BY DEF MonitorTypeOK, Runner, CutShort, Transition

LEMMA ThrowEffect ==
    ASSUME MonitorTypeOK, NEW j \in MonitorJobs, RunThrows(j)
    PROVE  /\ runner[j].pc \in {"run", "record", "apply", "create", "adopt", "save", "notify"}
           /\ MonitorKeeps /\ problem' = problem /\ runWanted' = runWanted /\ outran' = outran
           /\ Becomes(j, "finally", runner[j].verdict, runner[j].open, runner[j].opened,
                      runner[j].resolved)
           /\ CutShort(j)
<1>1. RunnerGoes(j, "finally") BY DEF RunThrows
<1> QED BY <1>1, GoesEffect DEF RunThrows, MonitorKeeps

LEMMA StopEffect ==
    ASSUME MonitorTypeOK, NEW j \in MonitorJobs, RunnerStops(j)
    PROVE  /\ runner[j].pc # "idle" /\ Idles(j) /\ CutShort(j)
           /\ MonitorKeeps /\ problem' = problem /\ runWanted' = runWanted /\ outran' = outran
<1>1. runner' = [runner EXCEPT ![j] = IdleRunner] BY DEF RunnerStops
<1> QED BY <1>1, IdlesEffect DEF RunnerStops, MonitorKeeps

LEMMA ReleaseEffect ==
    ASSUME MonitorTypeOK, NEW j \in MonitorJobs, ReleaseMonitor(j)
    PROVE  /\ runner[j].pc = "finally" /\ Idles(j) /\ HistoryKeeps /\ site' = site
           /\ problem' = problem /\ monitor' \in Monitor
           /\ \/ ~monitor.exists /\ monitor' = monitor
              \/ monitor.exists /\ monitor' = [monitor EXCEPT !.lease = "none", !.due = FALSE]
<1>1. runner' = [runner EXCEPT ![j] = IdleRunner] BY DEF ReleaseMonitor
<1> QED BY <1>1, IdlesEffect DEF ReleaseMonitor, MonitorHistory, HistoryKeeps, MonitorTypeOK, Monitor

LEMMA CloseEffect ==
    ASSUME MonitorTypeOK, NEW c \in MonitorIncidents, CloseByHand(c)
    PROVE  /\ Open(c) /\ MonitorKeeps /\ HistoryKeeps /\ runner' = runner
           /\ problem' \in [MonitorIncidents -> Problem]
           /\ problem'[c].status = "resolved" /\ problem'[c].byHand
           /\ problem'[c].recoveryTold = problem[c].recoveryTold
           /\ problem'[c].severity = problem[c].severity
           /\ problem'[c].problemTold = problem[c].problemTold
           /\ \A d \in MonitorIncidents \ {c} : problem'[d] = problem[d]
BY DEF CloseByHand, MonitorTypeOK, Problem, MonitorHistory, MonitorKeeps, HistoryKeeps

-----------------------------------------------------------------------------
\* What people and time do to the monitor alone.
Request == SwitchMonitor \/ RunNow \/ PauseSite \/ DeleteSite \/ MonitorFallsDue \/ MonitorLeaseLapses

LEMMA RequestEffect ==
    ASSUME MonitorTypeOK, Request
    PROVE  /\ MonitorTypeOK'
           /\ problem' = problem /\ runner' = runner /\ adrift' = adrift /\ muted' = muted
           /\ monitor'.exists = monitor.exists /\ monitor'.current = monitor.current
           /\ monitor'.consecutiveErrors = monitor.consecutiveErrors
           /\ monitor'.status = monitor.status
           /\ monitor.due => monitor'.due
           /\ runWanted' => runWanted \/ (Running = {} /\ monitor'.due)
           /\ Running # {} /\ ~outran' => monitor'.lease = monitor.lease
           /\ outran => outran'
           /\ Gone => Gone'
<1>1. monitor \in Monitor
  BY DEF MonitorTypeOK
<1>2. CASE SwitchMonitor
  BY <1>1, <1>2 DEF SwitchMonitor, Gone, MonitorHistory, MonitorTypeOK, Monitor
<1>3. CASE RunNow
  BY <1>1, <1>3 DEF RunNow, Gone, MonitorTypeOK, Monitor
<1>4. CASE PauseSite
  BY <1>1, <1>4 DEF PauseSite, Gone, MonitorHistory, MonitorTypeOK
<1>5. CASE DeleteSite
  BY <1>1, <1>5 DEF DeleteSite, Gone, MonitorHistory, MonitorTypeOK
<1>6. CASE MonitorFallsDue
  BY <1>1, <1>6 DEF MonitorFallsDue, Gone, MonitorHistory, MonitorTypeOK, Monitor
<1>7. CASE MonitorLeaseLapses
  <2>1. monitor' \in Monitor /\ monitor' = [monitor EXCEPT !.lease = "lapsed"]
    BY <1>1, <1>7 DEF MonitorLeaseLapses, Gone, Monitor
  <2>2. \/ Running # {} /\ outran' = TRUE
        \/ Running = {} /\ outran' = outran
    BY <1>7 DEF MonitorLeaseLapses
  <2>3. monitorFaults' \in 0 .. MaxMonitorFaults
    BY <1>7, AuxMonitorAssumption DEF MonitorLeaseLapses, Gone, MonitorFault, MonitorTypeOK
  <2> QED BY <1>1, <1>7, <2>1, <2>2, <2>3 DEF MonitorLeaseLapses, Gone, MonitorTypeOK, Monitor
<1> QED BY <1>2, <1>3, <1>4, <1>5, <1>6, <1>7 DEF Request

LEMMA MonitorStepTypes ==
    ASSUME MonitorTypeOK, RunsAnnounce, MonitorNext
    PROVE  MonitorTypeOK'
<1>0. /\ monitor \in Monitor /\ problem \in [MonitorIncidents -> Problem]
      /\ MonitorHistory' = MonitorHistory =>
             /\ runWanted' \in BOOLEAN /\ outran' \in BOOLEAN
             /\ adrift' \subseteq MonitorIncidents /\ muted' \subseteq MonitorIncidents
             /\ monitorFaults' \in 0 .. MaxMonitorFaults
      /\ MonitorFault => monitorFaults' \in 0 .. MaxMonitorFaults
  BY AuxMonitorAssumption DEF MonitorTypeOK, MonitorHistory, MonitorFault
<1>1. ASSUME NEW j \in MonitorJobs, ClaimMonitor(j) PROVE MonitorTypeOK'
  BY <1>1, ClaimEffect DEF ClaimMonitor, MonitorTypeOK
<1>2. ASSUME NEW j \in MonitorJobs, JoinWebsite(j) PROVE MonitorTypeOK'
  BY <1>0, <1>2, JoinEffect DEF JoinWebsite, MonitorTypeOK, Becomes, Idles
<1>3. ASSUME NEW j \in MonitorJobs, RunMonitor(j) PROVE MonitorTypeOK'
  BY <1>0, <1>3, RunEffect DEF RunMonitor, MonitorTypeOK, Becomes
<1>4. ASSUME NEW j \in MonitorJobs, RecordResult(j) PROVE MonitorTypeOK'
  <2>1. runner[j].verdict \in Shown BY DEF MonitorTypeOK, Runner
  <2> QED BY <1>0, <1>4, <2>1, GoesEffect DEF RecordResult, MonitorTypeOK, Becomes
<1>5. ASSUME NEW j \in MonitorJobs, ApplyVerdict(j) PROVE MonitorTypeOK'
  <2>1. runner[j].open = None /\ runner[j].opened = None /\ runner[j].resolved = None
    BY <1>5 DEF ApplyVerdict, RunsAnnounce, Undecided
  <2>2. runner' \in [MonitorJobs -> Runner]
    BY <1>5, <2>1, ApplyEffect DEF Becomes
  <2>3. problem' \in [MonitorIncidents -> Problem]
    <3> DEFINE c == runner[j].current
    <3>1. \/ problem' = problem
          \/ c \in MonitorIncidents /\ problem' = [problem EXCEPT ![c].status = "resolved"]
          \/ /\ c \in MonitorIncidents
             /\ problem' = [problem EXCEPT ![c].severity = SeverityFor(runner[j].verdict)]
      BY <1>5, <2>1, ApplyEffect
    <3> QED BY <1>0, <3>1, ResolvesEffect, WeighsEffect
  <2> QED BY <1>0, <1>5, <2>2, <2>3 DEF ApplyVerdict, MonitorTypeOK
<1>6. ASSUME NEW j \in MonitorJobs, CreateProblem(j) PROVE MonitorTypeOK'
  <2>1. runner[j].open = None /\ runner[j].opened = None /\ runner[j].resolved = None
    BY <1>6 DEF CreateProblem, RunsAnnounce, Undecided
  <2>2. runner' \in [MonitorJobs -> Runner]
    BY <1>6, <2>1, CreateEffect DEF Becomes
  <2>3. problem' \in [MonitorIncidents -> Problem]
    <3>1. \/ problem' = problem
          \/ \E c \in MonitorIncidents :
                 problem' = [problem EXCEPT ![c].status = "open",
                                            ![c].severity = SeverityFor(runner[j].verdict)]
      BY <1>6, <2>1, CreateEffect
    <3> QED BY <1>0, <3>1, OpensEffect
  <2> QED BY <1>0, <1>6, <2>2, <2>3 DEF CreateProblem, MonitorTypeOK
<1>7. ASSUME NEW j \in MonitorJobs, AdoptProblem(j) PROVE MonitorTypeOK'
  BY <1>0, <1>7, AdoptEffect DEF AdoptProblem, MonitorTypeOK, Becomes
<1>8. ASSUME NEW j \in MonitorJobs, SaveMonitor(j) PROVE MonitorTypeOK'
  <2>1. /\ runner' \in [MonitorJobs -> Runner] /\ monitor' \in Monitor
        /\ adrift' \subseteq MonitorIncidents
    BY <1>8, SaveEffect DEF Becomes
  <2> QED BY <1>8, <2>1 DEF SaveMonitor, MonitorTypeOK
<1>9. ASSUME NEW j \in MonitorJobs, NotifyTransition(j) PROVE MonitorTypeOK'
  <2>1. runner[j].opened # None \/ runner[j].resolved # None
    BY <1>9 DEF NotifyTransition, RunsAnnounce
  <2> QED BY <1>0, <1>9, <2>1, NotifyEffect DEF NotifyTransition, MonitorTypeOK, Becomes
<1>10. ASSUME NEW j \in MonitorJobs, ReleaseMonitor(j) PROVE MonitorTypeOK'
  BY <1>0, <1>10, ReleaseEffect DEF ReleaseMonitor, MonitorTypeOK, Idles
<1>11. ASSUME NEW j \in MonitorJobs, RunThrows(j) PROVE MonitorTypeOK'
  BY <1>0, <1>11, ThrowEffect, CutEffect DEF RunThrows, MonitorTypeOK, Becomes
<1>12. ASSUME NEW j \in MonitorJobs, RunnerStops(j) PROVE MonitorTypeOK'
  BY <1>0, <1>12, StopEffect, CutEffect DEF RunnerStops, MonitorTypeOK, Idles
<1>13. ASSUME NEW c \in MonitorIncidents, CloseByHand(c) PROVE MonitorTypeOK'
  BY <1>0, <1>13, CloseEffect DEF CloseByHand, MonitorTypeOK
<1>14. CASE DeleteProblems
  BY <1>0, <1>14 DEF DeleteProblems, MonitorHistory, MonitorTypeOK, Problem
<1>16. CASE DeleteMonitor
  BY <1>0, <1>16 DEF DeleteMonitor, MonitorHistory, MonitorTypeOK, Monitor
<1>15. CASE Request
  BY <1>15, RequestEffect
<1> QED BY <1>1, <1>2, <1>3, <1>4, <1>5, <1>6, <1>7, <1>8, <1>9, <1>10, <1>11, <1>12, <1>13, <1>14,
           <1>15, <1>16 DEF MonitorNext, RunnerWorks, Request

-----------------------------------------------------------------------------
(* What holds whatever runs overlap.                                       *)

\* A run whose move leaves the incidents alone: what it has opened or resolved it still announces,
\* or it was announced, or a fault cut it off.
LEMMA MoveAnnounces ==
    ASSUME MonitorTypeOK, Announced, NEW j \in MonitorJobs, runner[j].pc # "idle",
           problem' = problem, muted \subseteq muted', runWanted' = runWanted,
           NEW pc, NEW v, NEW open,
           Becomes(j, pc, v, open, runner[j].opened, runner[j].resolved),
           pc \in Undecided => /\ runner[j].opened = None /\ runner[j].resolved = None
                               /\ open = None,
           runner[j].opened # None \/ runner[j].resolved # None => pc \in {"save", "notify", "finally"},
           pc = "notify" => runner[j].opened # None \/ runner[j].resolved # None,
           pc = "finally" =>
               /\ runner[j].opened # None =>
                      \/ problem[runner[j].opened].problemTold
                      \/ runner[j].opened \in muted'
               /\ runner[j].resolved # None =>
                      \/ problem[runner[j].resolved].recoveryTold
                      \/ runner[j].resolved \in muted'
    PROVE  Announced'
<1>1. /\ \A k \in MonitorJobs : /\ runner'[k].opened = runner[k].opened
                                /\ runner'[k].resolved = runner[k].resolved
      /\ \A k \in MonitorJobs \ {j} : runner'[k] = runner[k]
      /\ runner'[j].pc = pc /\ runner'[j].open = open
  BY DEF Becomes
<1>2. ProblemsInOrder'
  BY DEF Announced, ProblemsInOrder, Open
<1>3. RunsAnnounce'
  <2>1. Running # {} => ~runWanted
    BY DEF Announced, RunsAnnounce
  <2>2. ~runWanted'
    BY <2>1 DEF Running
  <2>3. ASSUME NEW k \in MonitorJobs \ {j}
        PROVE  /\ runner'[k] = runner[k] /\ problem' = problem /\ muted \subseteq muted'
    BY <1>1
  <2> QED BY <1>1, <2>2, <2>3 DEF Announced, RunsAnnounce
<1>4. TransitionsAreTold'
  BY <1>1 DEF Announced, TransitionsAreTold, Open
<1> QED BY <1>2, <1>3, <1>4 DEF Announced

LEMMA IdleAnnounces ==
    ASSUME MonitorTypeOK, Announced, NEW j \in MonitorJobs, runner[j].pc # "idle",
           problem' = problem, muted \subseteq muted', runWanted' = runWanted, Idles(j),
           runner[j].opened # None => \/ problem[runner[j].opened].problemTold
                                      \/ runner[j].opened \in muted',
           runner[j].resolved # None => \/ problem[runner[j].resolved].recoveryTold
                                        \/ runner[j].resolved \in muted'
    PROVE  Announced'
<1>1. /\ \A k \in MonitorJobs \ {j} : runner'[k] = runner[k]
      /\ runner'[j].pc = "idle" /\ runner'[j].opened = None /\ runner'[j].resolved = None
  BY DEF Idles
<1>2. ProblemsInOrder'
  BY DEF Announced, ProblemsInOrder, Open
<1>3. RunsAnnounce'
  <2>1. ~runWanted'
    BY DEF Announced, RunsAnnounce, Running
  <2> QED BY <1>1, <2>1 DEF Announced, RunsAnnounce, Undecided
<1>4. TransitionsAreTold'
  <2>1. ASSUME NEW c \in MonitorIncidents \ muted', NEW k \in MonitorJobs, runner[k].opened = c
        PROVE  problem[c].problemTold \/ \E i \in MonitorJobs : runner'[i].opened = c
    BY <1>1, <2>1, AuxMonitorAssumption
  <2>2. ASSUME NEW c \in MonitorIncidents \ muted', NEW k \in MonitorJobs, runner[k].resolved = c
        PROVE  problem[c].recoveryTold \/ \E i \in MonitorJobs : runner'[i].resolved = c
    BY <1>1, <2>2, AuxMonitorAssumption
  <2> QED BY <2>1, <2>2 DEF Announced, TransitionsAreTold, Open
<1> QED BY <1>2, <1>3, <1>4 DEF Announced

LEMMA MonitorStepAnnounces ==
    ASSUME MonitorTypeOK, Announced, MonitorNext PROVE Announced'
<1>0. ASSUME NEW j \in MonitorJobs, runner[j].pc \in Undecided
      PROVE  runner[j].open = None /\ runner[j].opened = None /\ runner[j].resolved = None
  BY <1>0 DEF Announced, RunsAnnounce, Undecided
<1>1. ASSUME NEW j \in MonitorJobs, ClaimMonitor(j) PROVE Announced'
  <2>1. /\ problem' = problem /\ runWanted' = FALSE /\ muted' = muted
        /\ \A k \in MonitorJobs \ {j} : runner'[k] = runner[k]
        /\ runner'[j].pc = "claimed" /\ runner'[j].open = None
        /\ runner'[j].opened = None /\ runner'[j].resolved = None
        /\ runner[j].opened = None /\ runner[j].resolved = None
    BY <1>1, ClaimEffect DEF Announced, RunsAnnounce
  <2>2. ProblemsInOrder' /\ RunsAnnounce'
    BY <2>1 DEF Announced, ProblemsInOrder, RunsAnnounce, Undecided, Open
  <2>3. TransitionsAreTold'
    <3>1. \A k \in MonitorJobs : /\ runner'[k].opened = runner[k].opened
                                 /\ runner'[k].resolved = runner[k].resolved
      BY <2>1
    <3> QED BY <2>1, <3>1 DEF Announced, TransitionsAreTold, Open
  <2> QED BY <2>2, <2>3 DEF Announced
<1>2. ASSUME NEW j \in MonitorJobs, JoinWebsite(j) PROVE Announced'
  <2>1. CASE Idles(j)
    BY <1>0, <1>2, <2>1, JoinEffect, IdleAnnounces DEF HistoryKeeps, Undecided
  <2>2. CASE \E pc \in {"run", "finally"} :
                 Becomes(j, pc, runner[j].verdict, runner[j].open, runner[j].opened, runner[j].resolved)
    BY <1>0, <1>2, <2>2, JoinEffect, MoveAnnounces DEF HistoryKeeps, Undecided
  <2> QED BY <1>2, <2>1, <2>2, JoinEffect
<1>3. ASSUME NEW j \in MonitorJobs, RunMonitor(j) PROVE Announced'
  BY <1>0, <1>3, RunEffect, MoveAnnounces DEF HistoryKeeps, Undecided
<1>4. ASSUME NEW j \in MonitorJobs, RecordResult(j) PROVE Announced'
  BY <1>0, <1>4, GoesEffect, MoveAnnounces DEF RecordResult, MonitorHistory, Undecided
<1>5. ASSUME NEW j \in MonitorJobs, ApplyVerdict(j) PROVE Announced'
  <2> DEFINE v == runner[j].verdict
             c == runner[j].current
  <2>1. /\ runner[j].pc = "apply"
        /\ runner[j].open = None /\ runner[j].opened = None /\ runner[j].resolved = None
    BY <1>0, <1>5 DEF ApplyVerdict, Undecided
  <2>2. HistoryKeeps /\ ~runWanted'
    BY <1>5, <2>1, ApplyEffect DEF HistoryKeeps, Announced, RunsAnnounce, Running
  <2>3. CASE problem' = problem /\ Becomes(j, "save", v, c, None, None)
    BY <2>1, <2>2, <2>3, MoveAnnounces DEF HistoryKeeps, Undecided
  <2>4. CASE problem' = problem /\ \E pc \in {"save", "create"} : Becomes(j, pc, v, None, None, None)
    BY <2>1, <2>2, <2>4, MoveAnnounces DEF HistoryKeeps, Undecided
  <2>5. CASE /\ c \in MonitorIncidents /\ Open(c)
             /\ problem' = [problem EXCEPT ![c].status = "resolved"]
             /\ Becomes(j, "save", v, None, None, c)
    <3>1. /\ problem'[c].status = "resolved" /\ problem'[c].byHand = problem[c].byHand
          /\ problem'[c].recoveryTold = problem[c].recoveryTold
          /\ \A d \in MonitorIncidents \ {c} : problem'[d] = problem[d]
      BY <2>5, ResolvesEffect
    <3>2. ~problem[c].byHand
      BY <2>5 DEF Announced, ProblemsInOrder, Open
    <3>3. ProblemsInOrder'
      BY <3>1 DEF Announced, ProblemsInOrder, Open
    <3>4. \A k \in MonitorJobs \ {j} : runner[k].resolved # c /\ runner[k].opened = runner'[k].opened
                                       /\ runner[k].resolved = runner'[k].resolved
      BY <2>5, AuxMonitorAssumption DEF Announced, RunsAnnounce, Open, Becomes
    <3>5. problem'[c].problemTold = problem[c].problemTold
      BY <2>5 DEF MonitorTypeOK, Problem
    <3>6. RunsAnnounce'
      <4>1. ASSUME NEW k \in MonitorJobs \ {j}
            PROVE  /\ runner'[k] = runner[k]
                   /\ runner[k].opened # None => runner[k].opened \in MonitorIncidents
                   /\ runner[k].resolved # None => runner[k].resolved \in MonitorIncidents
        BY <2>5 DEF MonitorTypeOK, Runner, Becomes
      <4>2. /\ runner'[j].pc = "save" /\ runner'[j].open = None
            /\ runner'[j].opened = None /\ runner'[j].resolved = c
        BY <2>5 DEF Becomes
      <4> QED BY <2>2, <2>5, <3>1, <3>2, <3>4, <3>5, <4>1, <4>2
              DEF Announced, RunsAnnounce, HistoryKeeps, Undecided
    <3>7. TransitionsAreTold'
      <4>1. runner'[j].resolved = c
        BY <2>5 DEF Becomes
      <4> QED BY <2>1, <2>2, <2>5, <3>1, <3>2, <3>4, <3>5, <4>1, AuxMonitorAssumption
              DEF Announced, TransitionsAreTold, Open, HistoryKeeps
    <3> QED BY <3>3, <3>6, <3>7 DEF Announced
  <2>6. CASE /\ c \in MonitorIncidents /\ Open(c)
             /\ problem' = [problem EXCEPT ![c].severity = SeverityFor(v)]
             /\ Becomes(j, "save", v, c, None, None)
    <3>1. \A d \in MonitorIncidents : /\ problem'[d].status = problem[d].status
                                      /\ problem'[d].byHand = problem[d].byHand
                                      /\ problem'[d].problemTold = problem[d].problemTold
                                      /\ problem'[d].recoveryTold = problem[d].recoveryTold
      BY <2>6, WeighsEffect
    <3>2. ProblemsInOrder'
      BY <3>1 DEF Announced, ProblemsInOrder, Open
    <3>3. /\ \A k \in MonitorJobs : /\ runner'[k].opened = runner[k].opened
                                    /\ runner'[k].resolved = runner[k].resolved
                                    /\ k # j => runner'[k] = runner[k]
                                    /\ runner[k].opened \in MonitorIncidents \cup {None}
                                    /\ runner[k].resolved \in MonitorIncidents \cup {None}
          /\ runner'[j].pc = "save" 
      BY <2>1, <2>6 DEF Becomes, MonitorTypeOK, Runner
    <3>4. RunsAnnounce'
      BY <2>1, <2>2, <3>1, <3>3 DEF Announced, RunsAnnounce, HistoryKeeps, Undecided
    <3>5. TransitionsAreTold'
      BY <2>2, <3>1, <3>3 DEF Announced, TransitionsAreTold, Open, HistoryKeeps
    <3> QED BY <3>2, <3>4, <3>5 DEF Announced
  <2> QED BY <1>5, <2>1, <2>3, <2>4, <2>5, <2>6, ApplyEffect
<1>6. ASSUME NEW j \in MonitorJobs, CreateProblem(j) PROVE Announced'
  <2> DEFINE v == runner[j].verdict
  <2>1. /\ runner[j].pc = "create"
        /\ runner[j].open = None /\ runner[j].opened = None /\ runner[j].resolved = None
    BY <1>0, <1>6 DEF CreateProblem, Undecided
  <2>2. HistoryKeeps /\ ~runWanted'
    BY <1>6, <2>1, CreateEffect DEF HistoryKeeps, Announced, RunsAnnounce, Running
  <2>3. CASE problem' = problem /\ Becomes(j, "adopt", v, None, None, None)
    BY <2>1, <2>2, <2>3, MoveAnnounces DEF HistoryKeeps, Undecided
  <2>4. CASE \E c \in MonitorIncidents :
                 /\ problem[c].status = "none"
                 /\ \A d \in MonitorIncidents : ~Open(d)
                 /\ problem' = [problem EXCEPT ![c].status = "open", ![c].severity = SeverityFor(v)]
                 /\ Becomes(j, "save", v, c, c, None)
    <3>1. PICK c \in MonitorIncidents :
                 /\ problem[c].status = "none"
                 /\ \A d \in MonitorIncidents : ~Open(d)
                 /\ problem' = [problem EXCEPT ![c].status = "open", ![c].severity = SeverityFor(v)]
                 /\ Becomes(j, "save", v, c, c, None)
      BY <2>4
    <3>2. /\ problem'[c].status = "open" /\ problem'[c].byHand = problem[c].byHand
          /\ problem'[c].recoveryTold = problem[c].recoveryTold
          /\ \A d \in MonitorIncidents \ {c} : problem'[d] = problem[d]
      BY <3>1, OpensEffect
    <3>3. problem'[c].problemTold = problem[c].problemTold
      BY <3>1 DEF MonitorTypeOK, Problem
    <3>4. ~problem[c].byHand /\ ~problem[c].recoveryTold
      BY <3>1 DEF Announced, ProblemsInOrder
    <3>5. ProblemsInOrder'
      <4>1. \A d \in MonitorIncidents : problem'[d].status = "open" => d = c
        BY <3>1, <3>2 DEF Open
      <4>2. \A d \in MonitorIncidents : problem'[d].status \in {"none", "open"} =>
                ~problem'[d].byHand /\ ~problem'[d].recoveryTold
        BY <3>2, <3>4 DEF Announced, ProblemsInOrder
      <4> QED BY <4>1, <4>2 DEF ProblemsInOrder, Open
    <3>6. /\ \A k \in MonitorJobs \ {j} :
                 /\ runner'[k] = runner[k]
                 /\ runner[k].opened \in MonitorIncidents \cup {None}
                 /\ runner[k].resolved \in MonitorIncidents \cup {None}
                 /\ runner[k].resolved # c
          /\ runner'[j].pc = "save" /\ runner'[j].opened = c /\ runner'[j].resolved = None
          /\ c # None
      BY <3>1, AuxMonitorAssumption
         DEF Becomes, MonitorTypeOK, Runner, Announced, RunsAnnounce
    <3>7. RunsAnnounce'
      BY <2>2, <3>2, <3>3, <3>6 DEF Announced, RunsAnnounce, HistoryKeeps, Undecided
    <3>8. TransitionsAreTold'
      <4>1. ASSUME NEW d \in MonitorIncidents \ muted, d # c
            PROVE  /\ problem'[d] = problem[d] /\ ~Open(d)
                   /\ problem[d].status = "resolved" /\ ~problem[d].byHand =>
                          \/ problem[d].recoveryTold
                          \/ \E k \in MonitorJobs : runner'[k].resolved = d
                   /\ problem[d].byHand => ~problem[d].recoveryTold
        <5>1. \A k \in MonitorJobs : runner[k].resolved = d => runner'[k].resolved = d
          BY <2>1, <3>6, AuxMonitorAssumption
        <5> QED BY <3>1, <3>2, <4>1, <5>1 DEF Announced, TransitionsAreTold
      <4> QED BY <2>2, <3>2, <3>4, <3>6, <4>1 DEF TransitionsAreTold, Open, HistoryKeeps
    <3> QED BY <3>5, <3>7, <3>8 DEF Announced
  <2> QED BY <1>6, <2>1, <2>3, <2>4, CreateEffect
<1>7. ASSUME NEW j \in MonitorJobs, AdoptProblem(j) PROVE Announced'
  <2>1. runner[j].pc = "adopt"
    BY <1>7 DEF AdoptProblem
  <2> QED BY <1>0, <1>7, <2>1, AdoptEffect, MoveAnnounces DEF HistoryKeeps, Undecided
<1>8. ASSUME NEW j \in MonitorJobs, SaveMonitor(j) PROVE Announced'
  <2>1. runner[j].pc = "save"
    BY <1>8 DEF SaveMonitor
  <2> QED BY <1>8, <2>1, SaveEffect, MoveAnnounces DEF Undecided
<1>9. ASSUME NEW j \in MonitorJobs, NotifyTransition(j) PROVE Announced'
  <2> DEFINE r == runner[j]
  <2>1. /\ r.pc = "notify"
        /\ r.opened # None \/ r.resolved # None
        /\ r.opened = None \/ r.resolved = None
        /\ r.opened \in MonitorIncidents \cup {None} /\ r.resolved \in MonitorIncidents \cup {None}
        /\ r.resolved # None => ~problem[r.resolved].byHand
                                /\ problem[r.resolved].status \in {"resolved", "gone"}
    BY <1>9 DEF NotifyTransition, Announced, RunsAnnounce, MonitorTypeOK, Runner
  <2>2. /\ HistoryKeeps
        /\ Becomes(j, "finally", r.verdict, r.open, r.opened, r.resolved)
        /\ \A c \in MonitorIncidents :
               /\ problem'[c].status = problem[c].status /\ problem'[c].byHand = problem[c].byHand
               /\ problem[c].problemTold => problem'[c].problemTold
               /\ problem[c].recoveryTold => problem'[c].recoveryTold
               /\ problem'[c].recoveryTold => problem[c].recoveryTold \/ c = r.resolved
        /\ r.opened # None => problem'[r.opened].problemTold
        /\ r.opened = None => problem'[r.resolved].recoveryTold
    BY <1>9, <2>1, NotifyEffect
  <2>3. ProblemsInOrder'
    <3>1. \A c \in MonitorIncidents : problem[c].status \in {"none", "open"} => c # r.resolved
      BY <2>1, AuxMonitorAssumption
    <3> QED BY <2>2, <3>1 DEF Announced, ProblemsInOrder, Open
  <2>4. /\ \A k \in MonitorJobs : /\ runner'[k].opened = runner[k].opened
                                  /\ runner'[k].resolved = runner[k].resolved
                                  /\ k # j => runner'[k] = runner[k]
                                  /\ runner[k].opened \in MonitorIncidents \cup {None}
                                  /\ runner[k].resolved \in MonitorIncidents \cup {None}
        /\ runner'[j].pc = "finally"
    BY <2>2 DEF Becomes, MonitorTypeOK, Runner
  <2>5. RunsAnnounce'
    <3>1. ~runWanted'
      BY <2>1, <2>2 DEF HistoryKeeps, Announced, RunsAnnounce, Running
    <3> QED BY <2>1, <2>2, <2>4, <3>1 DEF Announced, RunsAnnounce, HistoryKeeps, Undecided
  <2>6. TransitionsAreTold'
    <3>1. \A c \in MonitorIncidents : problem[c].byHand => c # r.resolved
      BY <2>1, AuxMonitorAssumption
    <3> QED BY <2>2, <2>4, <3>1 DEF Announced, TransitionsAreTold, Open, HistoryKeeps
  <2> QED BY <2>3, <2>5, <2>6 DEF Announced
<1>10. ASSUME NEW j \in MonitorJobs, ReleaseMonitor(j) PROVE Announced'
  <2>1. /\ runner[j].opened # None => \/ problem[runner[j].opened].problemTold
                                      \/ runner[j].opened \in muted
        /\ runner[j].resolved # None => \/ problem[runner[j].resolved].recoveryTold
                                        \/ runner[j].resolved \in muted
    BY <1>10 DEF ReleaseMonitor, Announced, RunsAnnounce
  <2> QED BY <1>10, <2>1, ReleaseEffect, IdleAnnounces DEF HistoryKeeps
<1>11. ASSUME NEW j \in MonitorJobs, CutShort(j), problem' = problem
       PROVE  /\ muted \subseteq muted'
              /\ runner[j].opened # None => \/ problem[runner[j].opened].problemTold
                                            \/ runner[j].opened \in muted'
              /\ runner[j].resolved # None => \/ problem[runner[j].resolved].recoveryTold
                                              \/ runner[j].resolved \in muted'
  BY <1>11, CutEffect DEF Announced, RunsAnnounce
<1>12. ASSUME NEW j \in MonitorJobs, RunThrows(j) PROVE Announced'
  BY <1>11, <1>12, ThrowEffect, MoveAnnounces DEF Undecided
<1>13. ASSUME NEW j \in MonitorJobs, RunnerStops(j) PROVE Announced'
  BY <1>11, <1>13, StopEffect, IdleAnnounces
<1>14. ASSUME NEW c \in MonitorIncidents, CloseByHand(c) PROVE Announced'
  <2>1. ~problem[c].recoveryTold /\ \A j \in MonitorJobs : runner[j].resolved # c
    BY <1>14, CloseEffect, AuxMonitorAssumption
       DEF Announced, ProblemsInOrder, RunsAnnounce, Open
  <2>2. ProblemsInOrder'
    BY <1>14, CloseEffect DEF Announced, ProblemsInOrder, Open
  <2>3. RunsAnnounce'
    <3>1. \A j \in MonitorJobs : /\ runner[j].opened \in MonitorIncidents \cup {None}
                                 /\ runner[j].resolved \in MonitorIncidents \cup {None}
      BY DEF MonitorTypeOK, Runner
    <3> QED BY <1>14, <2>1, <3>1, CloseEffect DEF Announced, RunsAnnounce, HistoryKeeps, Running
  <2>4. TransitionsAreTold'
    BY <1>14, <2>1, CloseEffect DEF Announced, TransitionsAreTold, Open, HistoryKeeps
  <2> QED BY <2>2, <2>3, <2>4 DEF Announced
<1>15. CASE DeleteProblems
  <2>1. \A c \in MonitorIncidents :
            /\ problem'[c].status = IF problem[c].status = "none" THEN "none" ELSE "gone"
            /\ problem'[c].byHand = problem[c].byHand
            /\ problem'[c].problemTold = problem[c].problemTold
            /\ problem'[c].recoveryTold = problem[c].recoveryTold
    BY <1>15 DEF DeleteProblems, MonitorTypeOK, Problem
  <2>2. ProblemsInOrder'
    BY <2>1 DEF Announced, ProblemsInOrder, Open
  <2>3. \A j \in MonitorJobs : /\ runner[j].opened \in MonitorIncidents \cup {None}
                               /\ runner[j].resolved \in MonitorIncidents \cup {None}
    BY DEF MonitorTypeOK, Runner
  <2>4. RunsAnnounce'
    BY <1>15, <2>1, <2>3 DEF DeleteProblems, MonitorHistory, Announced, RunsAnnounce, Running
  <2>5. TransitionsAreTold'
    BY <1>15, <2>1 DEF DeleteProblems, MonitorHistory, Announced, TransitionsAreTold, Open
  <2> QED BY <2>2, <2>4, <2>5 DEF Announced
<1>16. CASE Request
  <2>1. ProblemsInOrder' /\ TransitionsAreTold'
    BY <1>16, RequestEffect DEF Announced, ProblemsInOrder, TransitionsAreTold, Open
  <2>2. RunsAnnounce'
    BY <1>16, RequestEffect DEF Announced, RunsAnnounce, Running
  <2> QED BY <2>1, <2>2 DEF Announced
<1>17. CASE DeleteMonitor
  <2>1. ProblemsInOrder' /\ TransitionsAreTold'
    BY <1>17 DEF DeleteMonitor, MonitorHistory, Announced, ProblemsInOrder, TransitionsAreTold, Open
  <2>2. RunsAnnounce'
    BY <1>17 DEF DeleteMonitor, MonitorHistory, Announced, RunsAnnounce, Running
  <2> QED BY <2>1, <2>2 DEF Announced
<1> QED BY <1>1, <1>2, <1>3, <1>4, <1>5, <1>6, <1>7, <1>8, <1>9, <1>10, <1>12, <1>13, <1>14, <1>15,
           <1>16, <1>17 DEF MonitorNext, RunnerWorks, Request

-----------------------------------------------------------------------------
(* What holds as long as no run outlives its lease.                        *)

\* One run under way, and none.
LEMMA OneRunTruth ==
    ASSUME NEW j \in MonitorJobs,
           \A k \in MonitorJobs \ {j} : runner'[k].pc = "idle",
           monitor'.lease = "held", runWanted' => monitor'.due,
           runner'[j].pc \in Undecided \cup {"save"} =>
               /\ runner'[j].current = monitor'.current
               /\ runner'[j].consecutiveErrors = monitor'.consecutiveErrors,
           FoundOut(j)',
           runner'[j].pc = "save" \/ adrift' # {} \/ TruthShown',
           \A c \in MonitorIncidents :
               problem'[c].status = "open" /\ c # monitor'.current
                   /\ ~(runner'[j].pc = "save" /\ runner'[j].opened = c) => c \in adrift' \cap muted'
    PROVE  TruthInv'
<1>1. OneRun'
  BY DEF OneRun, Undecided
<1>2. OthersAdrift'
  BY DEF OthersAdrift, JustOpened, Saving, Open
<1>3. ASSUME NEW k \in MonitorJobs PROVE FoundOut(k)'
  <2>1. CASE k = j
    BY <2>1
  <2>2. CASE k # j
    BY <2>2 DEF FoundOut
  <2> QED BY <2>1, <2>2
<1>4. ((\E k \in MonitorJobs : Saving(k)) \/ adrift # {} \/ TruthShown)'
  BY DEF Saving
<1> QED BY <1>1, <1>2, <1>3, <1>4 DEF TruthInv

LEMMA NoRunTruth ==
    ASSUME \A k \in MonitorJobs : runner'[k].pc = "idle", runWanted' => monitor'.due,
           adrift' # {} \/ TruthShown',
           \A c \in MonitorIncidents :
               problem'[c].status = "open" /\ c # monitor'.current => c \in adrift' \cap muted'
    PROVE  TruthInv'
<1>1. OneRun'
  BY DEF OneRun, Undecided, Running
<1>2. OthersAdrift'
  BY DEF OthersAdrift, Open
<1>3. ASSUME NEW k \in MonitorJobs PROVE FoundOut(k)'
  BY DEF FoundOut
<1> QED BY <1>1, <1>2, <1>3 DEF TruthInv

\* Run j is the only one.
LEMMA Alone ==
    ASSUME TruthInv, NEW j \in MonitorJobs, runner[j].pc # "idle"
    PROVE  /\ \A k \in MonitorJobs \ {j} : runner[k].pc = "idle"
           /\ monitor.lease = "held" /\ (runWanted => monitor.due)
           /\ runner[j].pc \in Undecided \cup {"save"} =>
                  /\ runner[j].current = monitor.current
                  /\ runner[j].consecutiveErrors = monitor.consecutiveErrors
           /\ FoundOut(j)
           /\ runner[j].pc = "save" \/ adrift # {} \/ TruthShown
           /\ \A c \in MonitorIncidents :
                  Open(c) /\ c # monitor.current
                      /\ ~(runner[j].pc = "save" /\ runner[j].opened = c) => c \in adrift \cap muted
BY DEF TruthInv, OneRun, OthersAdrift, JustOpened, Saving, Running

\* A run that has not decided anything, or has saved, and moves on without touching anything else.
LEMMA MoveTruth ==
    ASSUME MonitorTypeOK, Announced, TruthInv, NEW j \in MonitorJobs,
           runner[j].pc \in (Undecided \cup {"notify"}) \ {"adopt"},
           MonitorKeeps, runWanted' = runWanted,
           \A c \in MonitorIncidents :
               /\ problem'[c].status = problem[c].status
               /\ problem'[c].severity = problem[c].severity
               /\ problem'[c].byHand = problem[c].byHand,
           adrift' = adrift, muted \subseteq muted',
           NEW pc \in {"run", "record", "apply", "finally"}, NEW v, NEW open,
           Becomes(j, pc, v, open, runner[j].opened, runner[j].resolved),
           pc \in Undecided => runner[j].pc \in Undecided,
           pc \in {"record", "apply"} => v \in Verdicts
    PROVE  TruthInv'
<1>1. /\ \A k \in MonitorJobs \ {j} : runner'[k] = runner[k]
      /\ runner'[j].pc = pc /\ runner'[j].verdict = v
      /\ runner'[j].current = runner[j].current
      /\ runner'[j].consecutiveErrors = runner[j].consecutiveErrors
  BY DEF Becomes
<1>2. runner[j].pc \notin {"idle", "save"}
  BY DEF Undecided
<1>3. TruthShown => TruthShown'
  <2>1. monitor.current \in MonitorIncidents \cup {None}
    BY DEF MonitorTypeOK, Monitor
  <2> QED BY <2>1 DEF TruthShown, MonitorKeeps, Open
<1>4. FoundOut(j)'
  BY <1>1 DEF FoundOut
<1> QED BY <1>1, <1>2, <1>3, <1>4, Alone, OneRunTruth DEF MonitorKeeps, Open

\* A run that ends, or is ended by a fault.
LEMMA CutTruth ==
    ASSUME MonitorTypeOK, Announced, TruthInv, NEW j \in MonitorJobs, runner[j].pc # "idle",
           monitor' = monitor, problem' = problem, runWanted' = runWanted, CutShort(j)
    PROVE  /\ adrift' # {} \/ TruthShown'
           /\ \A c \in MonitorIncidents :
                  problem'[c].status = "open" /\ c # monitor'.current => c \in adrift' \cap muted'
<1>1. TruthShown => TruthShown'
  BY CutEffect DEF TruthShown, Open
<1>2. \A c \in MonitorIncidents :
          problem'[c].status = "open" /\ c # monitor'.current => c \in adrift' \cap muted'
  BY Alone, CutEffect, AuxMonitorAssumption DEF Open
<1>3. adrift' # {} \/ TruthShown'
  <2>1. CASE runner[j].pc # "save"
    BY <1>1, <2>1, Alone, CutEffect
  <2>2. CASE runner[j].pc = "save"
    <3>1. adrift' = {} =>
              /\ adrift = {} /\ runner[j].opened = None /\ runner[j].resolved = None
              /\ runner[j].open = None
      BY <2>2, CutEffect
    <3> QED BY <1>1, <2>2, <3>1, Alone DEF FoundOut
  <2> QED BY <2>1, <2>2
<1> QED BY <1>2, <1>3

LEMMA MonitorStepTruth ==
    ASSUME MonitorTypeOK, MonitorTypeOK', Announced, MonitorNext, Undisturbed => TruthInv, Undisturbed'
    PROVE  TruthInv'
<1>1. ASSUME NEW j \in MonitorJobs, ClaimMonitor(j) PROVE TruthInv'
  <2>1. /\ Undisturbed /\ TruthInv
    BY <1>1, ClaimEffect DEF Undisturbed, Gone, MonitorTypeOK, Monitor
  <2>2. \A k \in MonitorJobs : runner[k].pc = "idle"
    BY <1>1, <2>1, ClaimEffect DEF TruthInv, OneRun, Running
  <2>3. /\ monitor'.current = monitor.current /\ monitor'.lease = "held"
        /\ monitor'.consecutiveErrors = monitor.consecutiveErrors
        /\ monitor'.status = monitor.status
        /\ \A k \in MonitorJobs \ {j} : runner'[k] = runner[k]
        /\ runner'[j].pc = "claimed" /\ runner'[j].current = monitor.current
        /\ runner'[j].consecutiveErrors = monitor.consecutiveErrors
        /\ ~runWanted' /\ problem' = problem /\ muted' = muted
    BY <1>1, ClaimEffect DEF MonitorTypeOK, Monitor
  <2>4. TruthShown => TruthShown'
    BY <2>3 DEF TruthShown, Open
  <2>5. FoundOut(j)'
    BY <2>3 DEF FoundOut
  <2>6. adrift' # {} \/ TruthShown'
    BY <1>1, <2>1, <2>2, <2>4, ClaimEffect DEF TruthInv, Saving
  <2>7. \A c \in MonitorIncidents :
            problem'[c].status = "open" /\ c # monitor'.current => c \in adrift' \cap muted'
    BY <1>1, <2>1, <2>2, <2>3, ClaimEffect DEF TruthInv, OthersAdrift, JustOpened, Saving, Open
  <2> QED BY <2>2, <2>3, <2>5, <2>6, <2>7, OneRunTruth
<1>2. ASSUME NEW j \in MonitorJobs, JoinWebsite(j) PROVE TruthInv'
  <2>1. Undisturbed /\ TruthInv
    BY <1>2, JoinEffect DEF Undisturbed, Gone, MonitorKeeps, HistoryKeeps
  <2> QED BY <1>2, <2>1, JoinEffect, MoveTruth
          DEF Undisturbed, Gone, MonitorKeeps, HistoryKeeps, Undecided
<1>3. ASSUME NEW j \in MonitorJobs, RunMonitor(j) PROVE TruthInv'
  <2>1. Undisturbed /\ TruthInv
    BY <1>3, RunEffect DEF Undisturbed, Gone, MonitorKeeps, HistoryKeeps
  <2> QED BY <1>3, <2>1, RunEffect, MoveTruth DEF HistoryKeeps, Undecided
<1>4. ASSUME NEW j \in MonitorJobs, RecordResult(j) PROVE TruthInv'
  <2>1. /\ Undisturbed /\ TruthInv /\ MonitorKeeps /\ HistoryKeeps /\ problem' = problem
        /\ runner[j].pc = "record"
    BY <1>4 DEF RecordResult, MonitorHistory, Undisturbed, Gone, MonitorKeeps, HistoryKeeps
  <2>2. runner[j].verdict \in Verdicts
    BY <2>1 DEF TruthInv, FoundOut
  <2>3. Becomes(j, "apply", runner[j].verdict, runner[j].open, runner[j].opened, runner[j].resolved)
    BY <1>4, GoesEffect DEF RecordResult
  <2> QED BY <2>1, <2>2, <2>3, MoveTruth DEF HistoryKeeps, Undecided
<1>5. ASSUME NEW j \in MonitorJobs, ApplyVerdict(j) PROVE TruthInv'
  <2> DEFINE v == runner[j].verdict
             c == runner[j].current
  <2>1. /\ runner[j].pc = "apply"
        /\ runner[j].open = None /\ runner[j].opened = None /\ runner[j].resolved = None
    BY <1>5 DEF ApplyVerdict, Undecided, Announced, RunsAnnounce
  <2>2. MonitorKeeps /\ HistoryKeeps
    BY <1>5, <2>1, ApplyEffect
  <2>3. Undisturbed /\ TruthInv
    BY <2>2 DEF Undisturbed, Gone, MonitorKeeps, HistoryKeeps
  <2>4. /\ \A k \in MonitorJobs \ {j} : runner[k].pc = "idle"
        /\ monitor.lease = "held" /\ (runWanted => monitor.due)
        /\ c = monitor.current /\ runner[j].consecutiveErrors = monitor.consecutiveErrors
        /\ v \in Verdicts
        /\ adrift # {} \/ TruthShown
        /\ \A d \in MonitorIncidents : Open(d) /\ d # monitor.current => d \in adrift \cap muted
    BY <2>1, <2>3, Alone DEF Undecided, FoundOut
  <2>5. TruthShown /\ problem' = problem => TruthShown'
    BY <2>2 DEF TruthShown, MonitorKeeps, HistoryKeeps, Open
  <2>6. ASSUME NEW pc \in {"save", "create"}, NEW open, NEW resolved,
               Becomes(j, pc, v, open, None, resolved), FoundOut(j)',
               problem' = problem \/ pc = "save",
               \A d \in MonitorIncidents : problem'[d].status = "open" => Open(d)
        PROVE  TruthInv'
    <3>1. /\ \A k \in MonitorJobs \ {j} : runner'[k].pc = "idle"
          /\ runner'[j].pc = pc /\ runner'[j].current = c
          /\ runner'[j].consecutiveErrors = runner[j].consecutiveErrors
      BY <2>4, <2>6 DEF Becomes
    <3> QED BY <2>2, <2>4, <2>5, <2>6, <3>1, OneRunTruth DEF MonitorKeeps, HistoryKeeps
  <2>7. CASE v = "error" /\ problem' = problem /\ Becomes(j, "save", v, c, None, None)
    <3>1. FoundOut(j)'
      BY <2>2, <2>4, <2>5, <2>7 DEF FoundOut, Becomes, MonitorKeeps, HistoryKeeps, Open
    <3> QED BY <2>6, <2>7, <3>1 DEF Open
  <2>8. CASE /\ v = "passing" /\ c \in MonitorIncidents /\ Open(c)
             /\ problem' = [problem EXCEPT ![c].status = "resolved"]
             /\ Becomes(j, "save", v, None, None, c)
    <3>1. /\ problem'[c].status = "resolved" /\ \A d \in MonitorIncidents \ {c} : problem'[d] = problem[d]
          /\ c # None
      BY <2>8, ResolvesEffect, AuxMonitorAssumption
    <3>2. FoundOut(j)'
      BY <2>2, <2>4, <2>8, <3>1 DEF FoundOut, Becomes, MonitorKeeps, HistoryKeeps, Open
    <3> QED BY <2>6, <2>8, <3>1, <3>2 DEF Open
  <2>9. CASE /\ v = "passing" /\ (c = None \/ ~Open(c)) /\ problem' = problem
             /\ Becomes(j, "save", v, None, None, None)
    <3>1. FoundOut(j)'
      BY <2>2, <2>4, <2>5, <2>9, AuxMonitorAssumption
         DEF FoundOut, Becomes, MonitorKeeps, HistoryKeeps, Open
    <3> QED BY <2>6, <2>9, <3>1 DEF Open
  <2>10. CASE /\ v \notin {"error", "passing"} /\ c \in MonitorIncidents /\ Open(c)
              /\ problem' = [problem EXCEPT ![c].severity = SeverityFor(v)]
              /\ Becomes(j, "save", v, c, None, None)
    <3>1. /\ problem'[c].severity = SeverityFor(v)
          /\ \A d \in MonitorIncidents : problem'[d].status = problem[d].status
          /\ c # None
      BY <2>10, WeighsEffect, AuxMonitorAssumption
    <3>2. FoundOut(j)'
      BY <2>2, <2>4, <2>10, <3>1 DEF FoundOut, Becomes, MonitorKeeps, HistoryKeeps, Open
    <3> QED BY <2>6, <2>10, <3>1, <3>2 DEF Open
  <2>11. CASE /\ v \notin {"error", "passing"} /\ (c = None \/ ~Open(c)) /\ problem' = problem
              /\ Becomes(j, "create", v, None, None, None)
    <3>1. FoundOut(j)'
      BY <2>2, <2>4, <2>11 DEF FoundOut, Becomes, MonitorKeeps, HistoryKeeps, Open, Verdicts
    <3> QED BY <2>6, <2>11, <3>1 DEF Open
  <2> QED BY <1>5, <2>1, <2>7, <2>8, <2>9, <2>10, <2>11, ApplyEffect
<1>6. ASSUME NEW j \in MonitorJobs, CreateProblem(j) PROVE TruthInv'
  <2> DEFINE v == runner[j].verdict
  <2>1. /\ runner[j].pc = "create"
        /\ runner[j].open = None /\ runner[j].opened = None /\ runner[j].resolved = None
    BY <1>6 DEF CreateProblem, Undecided, Announced, RunsAnnounce
  <2>2. MonitorKeeps /\ HistoryKeeps
    BY <1>6, <2>1, CreateEffect
  <2>3. Undisturbed /\ TruthInv
    BY <2>2 DEF Undisturbed, Gone, MonitorKeeps, HistoryKeeps
  <2>4. /\ \A k \in MonitorJobs \ {j} : runner[k].pc = "idle"
        /\ monitor.lease = "held" /\ (runWanted => monitor.due)
        /\ runner[j].current = monitor.current
        /\ runner[j].consecutiveErrors = monitor.consecutiveErrors
        /\ v \in {"warning", "failing"}
        /\ monitor.current # None => ~Open(monitor.current)
        /\ adrift # {} \/ TruthShown
        /\ \A d \in MonitorIncidents : Open(d) /\ d # monitor.current => d \in adrift \cap muted
    BY <2>1, <2>3, Alone DEF Undecided, FoundOut
  <2>5. CASE /\ \E c \in MonitorIncidents : Open(c)
             /\ problem' = problem /\ Becomes(j, "adopt", v, None, None, None)
    <3>1. /\ \A k \in MonitorJobs \ {j} : runner'[k].pc = "idle"
          /\ runner'[j].pc = "adopt" /\ runner'[j].current = runner[j].current
          /\ runner'[j].consecutiveErrors = runner[j].consecutiveErrors /\ runner'[j].verdict = v
      BY <2>4, <2>5 DEF Becomes
    <3>2. adrift # {}
      BY <2>4, <2>5, AuxMonitorAssumption
    <3>3. FoundOut(j)'
      BY <2>2, <2>4, <2>5, <3>1, <3>2 DEF FoundOut, MonitorKeeps, HistoryKeeps, Open
    <3> QED BY <2>2, <2>4, <2>5, <3>1, <3>2, <3>3, OneRunTruth DEF MonitorKeeps, HistoryKeeps, Open
  <2>6. ASSUME NEW c \in MonitorIncidents, problem[c].status = "none",
               \A d \in MonitorIncidents : ~Open(d),
               problem' = [problem EXCEPT ![c].status = "open", ![c].severity = SeverityFor(v)],
               Becomes(j, "save", v, c, c, None)
        PROVE  TruthInv'
    <3>1. /\ problem'[c].status = "open" /\ problem'[c].severity = SeverityFor(v)
          /\ \A d \in MonitorIncidents : problem'[d].status = "open" => d = c
          /\ c # None
      BY <2>6, OpensEffect, AuxMonitorAssumption DEF Open
    <3>2. /\ \A k \in MonitorJobs \ {j} : runner'[k].pc = "idle"
          /\ runner'[j].pc = "save" /\ runner'[j].current = runner[j].current
          /\ runner'[j].consecutiveErrors = runner[j].consecutiveErrors /\ runner'[j].verdict = v
          /\ runner'[j].open = c /\ runner'[j].opened = c
      BY <2>4, <2>6 DEF Becomes
    <3>3. FoundOut(j)'
      BY <2>4, <3>1, <3>2 DEF FoundOut, Open, Verdicts
    <3> QED BY <2>2, <2>4, <3>1, <3>2, <3>3, OneRunTruth DEF MonitorKeeps, HistoryKeeps
  <2> QED BY <1>6, <2>1, <2>5, <2>6, CreateEffect
<1>7. ASSUME NEW j \in MonitorJobs, AdoptProblem(j) PROVE TruthInv'
  <2>1. runner[j].pc = "adopt" /\ runner[j].opened = None /\ runner[j].resolved = None
    BY <1>7 DEF AdoptProblem, Announced, RunsAnnounce
  <2>2. MonitorKeeps /\ HistoryKeeps /\ problem' = problem
    BY <1>7, AdoptEffect
  <2>3. Undisturbed /\ TruthInv
    BY <2>2 DEF Undisturbed, Gone, MonitorKeeps, HistoryKeeps
  <2>4. /\ \A k \in MonitorJobs \ {j} : runner[k].pc = "idle"
        /\ monitor.lease = "held" /\ (runWanted => monitor.due)
        /\ runner[j].current = monitor.current
        /\ runner[j].consecutiveErrors = monitor.consecutiveErrors
        /\ runner[j].verdict \in {"warning", "failing"}
        /\ monitor.current # None => ~Open(monitor.current)
        /\ adrift # {}
        /\ \A d \in MonitorIncidents : Open(d) /\ d # monitor.current => d \in adrift \cap muted
    BY <2>1, <2>3, Alone DEF Undecided, FoundOut
  <2>5. PICK open \in MonitorIncidents \cup {None} :
            /\ Becomes(j, "save", runner[j].verdict, open, None, None)
            /\ open # None => open \in MonitorIncidents /\ Open(open)
            /\ open = None => \A c \in MonitorIncidents : ~Open(c)
    BY <1>7, <2>1, AdoptEffect
  <2>6. /\ \A k \in MonitorJobs \ {j} : runner'[k].pc = "idle"
        /\ runner'[j].pc = "save" /\ runner'[j].current = runner[j].current
        /\ runner'[j].consecutiveErrors = runner[j].consecutiveErrors
        /\ runner'[j].verdict = runner[j].verdict
        /\ runner'[j].open = open /\ runner'[j].opened = None
    BY <2>4, <2>5 DEF Becomes
  <2>7. \A c \in MonitorIncidents : Open(c) => c = open
    BY <2>5 DEF Announced, ProblemsInOrder
  <2>8. open # None => open \in muted
    BY <2>4, <2>5
  <2>9. FoundOut(j)'
    BY <2>2, <2>4, <2>6, <2>7, <2>8 DEF FoundOut, Open, Verdicts, MonitorKeeps, HistoryKeeps
  <2> QED BY <2>2, <2>4, <2>6, <2>9, OneRunTruth DEF MonitorKeeps, HistoryKeeps, Open
<1>8. ASSUME NEW j \in MonitorJobs, SaveMonitor(j) PROVE TruthInv'
  <2> DEFINE r == runner[j]
  <2>1. r.pc = "save"
    BY <1>8 DEF SaveMonitor
  <2>2. Undisturbed /\ TruthInv /\ monitor.exists
    BY <1>8, SaveEffect DEF Undisturbed, Gone
  <2>3. /\ \A k \in MonitorJobs \ {j} : runner[k].pc = "idle"
        /\ monitor.lease = "held" /\ (runWanted => monitor.due)
        /\ r.current = monitor.current /\ r.consecutiveErrors = monitor.consecutiveErrors
        /\ FoundOut(j)
        /\ \A d \in MonitorIncidents :
               Open(d) /\ d # monitor.current /\ r.opened # d => d \in adrift \cap muted
    BY <2>1, <2>2, Alone DEF Undecided
  <2>4. PICK pc \in {"notify", "finally"} :
            Becomes(j, pc, r.verdict, r.open, r.opened, r.resolved)
    BY <1>8, SaveEffect
  <2>5. /\ problem' = problem /\ runWanted' = runWanted /\ muted' = muted
        /\ monitor'.lease = monitor.lease /\ monitor'.due = monitor.due
        /\ monitor'.current = r.open
        /\ r.verdict = "error" =>
               /\ adrift' = adrift
               /\ \/ /\ monitor'.status = monitor.status
                     /\ r.consecutiveErrors # ErrorStatusThreshold
                  \/ /\ monitor'.status = "error"
                     /\ monitor'.consecutiveErrors = ErrorStatusThreshold
        /\ r.verdict # "error" => adrift' = adrift \ {r.open} /\ monitor'.status = r.verdict
    BY <1>8, <2>2, SaveEffect
  <2>6. /\ \A k \in MonitorJobs \ {j} : runner'[k].pc = "idle"
        /\ runner'[j].pc = pc
    BY <2>3, <2>4 DEF Becomes
  <2>7. /\ r.opened # None => r.open = r.opened
        /\ \A c \in MonitorIncidents : Open(c) => r.open = c \/ (c # monitor.current /\ c \in adrift)
        /\ r.verdict = "error" => r.open = monitor.current
        /\ r.verdict = "passing" => r.open = None
        /\ r.verdict \in Verdicts
    BY <2>1, <2>3 DEF FoundOut
  <2>8. \A c \in MonitorIncidents :
            problem'[c].status = "open" /\ c # monitor'.current => c \in adrift' \cap muted'
    BY <2>3, <2>5, <2>7, AuxMonitorAssumption DEF Open
  <2>9. ASSUME adrift' = {} PROVE TruthShown'
    <3>1. CASE r.verdict = "error"
      <4>1. adrift = {} /\ monitor'.current = monitor.current
        BY <2>5, <2>7, <2>9, <3>1
      <4>2. CASE monitor'.status = "error" /\ monitor'.consecutiveErrors = ErrorStatusThreshold
        BY <4>2 DEF TruthShown
      <4>3. CASE monitor'.status = monitor.status /\ r.consecutiveErrors # ErrorStatusThreshold
        <5>1. TruthShown
          BY <2>1, <2>3, <3>1, <4>1 DEF FoundOut
        <5> QED BY <2>3, <2>5, <4>1, <4>3, <5>1 DEF TruthShown, Open
      <4> QED BY <2>5, <3>1, <4>2, <4>3
    <3>2. CASE r.verdict = "passing"
      BY <2>5, <2>7, <2>9, <3>2, AuxMonitorAssumption DEF TruthShown, Open
    <3>3. CASE r.verdict \in {"warning", "failing"}
      <4>1. /\ monitor'.status = r.verdict /\ monitor'.current = r.open /\ adrift' = adrift \ {r.open}
        BY <2>5, <3>3
      <4>2. r.open # None
        <5>1. None \notin adrift
          BY AuxMonitorAssumption DEF MonitorTypeOK
        <5> QED BY <2>1, <2>3, <2>9, <3>3, <4>1, <5>1 DEF FoundOut
      <4>3. \/ r.open \in muted
            \/ /\ problem[r.open].severity = SeverityFor(r.verdict)
               /\ Open(r.open) \/ problem[r.open].byHand
        BY <2>1, <2>3, <3>3, <4>2 DEF FoundOut
      <4> QED BY <2>5, <3>3, <4>1, <4>2, <4>3 DEF TruthShown, Open
    <3> QED BY <2>7, <3>1, <3>2, <3>3 DEF Verdicts
  <2>10. FoundOut(j)'
    BY <2>6 DEF FoundOut
  <2> QED BY <2>3, <2>5, <2>6, <2>8, <2>9, <2>10, OneRunTruth DEF Undecided
<1>9. ASSUME NEW j \in MonitorJobs, NotifyTransition(j) PROVE TruthInv'
  <2>1. runner[j].pc = "notify" /\ (runner[j].opened # None \/ runner[j].resolved # None)
    BY <1>9 DEF NotifyTransition, Announced, RunsAnnounce
  <2>2. Undisturbed /\ TruthInv
    BY <1>9, <2>1, NotifyEffect DEF Undisturbed, Gone, MonitorKeeps, HistoryKeeps
  <2> QED BY <1>9, <2>1, <2>2, NotifyEffect, MoveTruth DEF HistoryKeeps, Undecided
<1>10. ASSUME NEW j \in MonitorJobs, ReleaseMonitor(j) PROVE TruthInv'
  <2>1. /\ monitor'.exists = monitor.exists /\ monitor'.current = monitor.current
        /\ monitor'.status = monitor.status
        /\ monitor'.consecutiveErrors = monitor.consecutiveErrors
        /\ runner[j].pc = "finally" /\ problem' = problem /\ Idles(j) /\ HistoryKeeps /\ site' = site
    BY <1>10, ReleaseEffect DEF MonitorTypeOK, Monitor
  <2>2. Undisturbed /\ TruthInv
    BY <2>1 DEF Undisturbed, Gone, HistoryKeeps
  <2>3. \A k \in MonitorJobs : runner'[k].pc = "idle"
    BY <2>1, <2>2, Alone DEF Idles
  <2>4. ~runWanted'
    BY <2>1 DEF HistoryKeeps, Announced, RunsAnnounce, Running
  <2>5. TruthShown => TruthShown'
    BY <2>1 DEF TruthShown, HistoryKeeps, Open
  <2>6. /\ adrift' # {} \/ TruthShown'
        /\ \A c \in MonitorIncidents :
               problem'[c].status = "open" /\ c # monitor'.current => c \in adrift' \cap muted'
    BY <2>1, <2>2, <2>5, Alone DEF HistoryKeeps, Open
  <2> QED BY <2>3, <2>4, <2>6, NoRunTruth
<1>11. ASSUME NEW j \in MonitorJobs, RunThrows(j) PROVE TruthInv'
  <2>1. Undisturbed /\ TruthInv /\ runner[j].pc # "idle"
    BY <1>11, ThrowEffect DEF Undisturbed, Gone, MonitorKeeps
  <2>2. /\ monitor' = monitor /\ problem' = problem /\ runWanted' = runWanted /\ CutShort(j)
        /\ \A k \in MonitorJobs \ {j} : runner'[k] = runner[k]
        /\ runner'[j].pc = "finally"
    BY <1>11, ThrowEffect DEF MonitorKeeps, Becomes
  <2>3. /\ adrift' # {} \/ TruthShown'
        /\ \A c \in MonitorIncidents :
               problem'[c].status = "open" /\ c # monitor'.current => c \in adrift' \cap muted'
    BY <2>1, <2>2, CutTruth
  <2>4. FoundOut(j)'
    BY <2>2 DEF FoundOut
  <2> QED BY <2>1, <2>2, <2>3, <2>4, Alone, OneRunTruth DEF Undecided
<1>12. ASSUME NEW j \in MonitorJobs, RunnerStops(j) PROVE TruthInv'
  <2>1. Undisturbed /\ TruthInv /\ runner[j].pc # "idle"
    BY <1>12, StopEffect DEF Undisturbed, Gone, MonitorKeeps
  <2>2. /\ monitor' = monitor /\ problem' = problem /\ runWanted' = runWanted /\ CutShort(j)
        /\ Idles(j)
    BY <1>12, StopEffect DEF MonitorKeeps
  <2>3. /\ adrift' # {} \/ TruthShown'
        /\ \A c \in MonitorIncidents :
               problem'[c].status = "open" /\ c # monitor'.current => c \in adrift' \cap muted'
    BY <2>1, <2>2, CutTruth
  <2> QED BY <2>1, <2>2, <2>3, Alone, NoRunTruth DEF Idles
<1>13. ASSUME NEW c \in MonitorIncidents, CloseByHand(c) PROVE TruthInv'
  <2>1. /\ MonitorKeeps /\ HistoryKeeps /\ runner' = runner
        /\ problem'[c].status = "resolved" /\ problem'[c].byHand /\ Open(c)
        /\ problem'[c].severity = problem[c].severity
        /\ \A d \in MonitorIncidents \ {c} : problem'[d] = problem[d]
    BY <1>13, CloseEffect
  <2>2. Undisturbed /\ TruthInv
    BY <2>1 DEF Undisturbed, Gone, MonitorKeeps, HistoryKeeps
  <2>3. TruthShown => TruthShown'
    <3>1. monitor.current \in MonitorIncidents \cup {None}
      BY DEF MonitorTypeOK, Monitor
    <3> QED BY <2>1, <3>1 DEF TruthShown, Open, MonitorKeeps, HistoryKeeps
  <2>4. ASSUME NEW j \in MonitorJobs PROVE FoundOut(j)'
    <3>1. runner[j].open \in MonitorIncidents \cup {None} /\ FoundOut(j)
          /\ monitor.current \in MonitorIncidents \cup {None}
      BY <2>2 DEF MonitorTypeOK, Runner, Monitor, TruthInv
    <3>2. \A d \in MonitorIncidents : problem'[d].status = "open" => Open(d)
      BY <2>1 DEF Open
    <3> QED BY <2>1, <2>3, <3>1, <3>2 DEF FoundOut, Open, MonitorKeeps, HistoryKeeps
  <2>5. OneRun' /\ OthersAdrift'
    BY <2>1, <2>2 DEF TruthInv, OneRun, OthersAdrift, JustOpened, Saving, Open, Running,
                      MonitorKeeps, HistoryKeeps
  <2> QED BY <2>1, <2>2, <2>3, <2>4, <2>5 DEF TruthInv, Saving, HistoryKeeps
<1>14. CASE DeleteProblems
  BY <1>14 DEF DeleteProblems, Undisturbed, Gone
<1>16. CASE DeleteMonitor
  <2>1. ~monitor'.exists
    BY <1>16 DEF DeleteMonitor, MonitorTypeOK, Monitor
  <2> QED BY <2>1 DEF Undisturbed
<1>15. CASE Request
  <2>1. Undisturbed /\ TruthInv
    BY <1>15, RequestEffect DEF Undisturbed, Gone, MonitorTypeOK
  <2>2. TruthShown => TruthShown'
    BY <1>15, RequestEffect DEF TruthShown, Open
  <2>3. ASSUME NEW j \in MonitorJobs PROVE FoundOut(j)'
    <3>1. FoundOut(j) BY <2>1 DEF TruthInv
    <3> QED BY <1>15, <2>2, <3>1, RequestEffect DEF FoundOut, Open
  <2>4. OneRun' /\ OthersAdrift'
    <3>1. ~outran'
      BY DEF Undisturbed, Gone
    <3> QED BY <1>15, <2>1, <3>1, RequestEffect
            DEF TruthInv, OneRun, OthersAdrift, JustOpened, Saving, Open, Running
  <2> QED BY <1>15, <2>1, <2>2, <2>3, <2>4, RequestEffect DEF TruthInv, Saving
<1> QED BY <1>1, <1>2, <1>3, <1>4, <1>5, <1>6, <1>7, <1>8, <1>9, <1>10, <1>11, <1>12, <1>13, <1>14,
           <1>15, <1>16 DEF MonitorNext, RunnerWorks, Request

\* What a monitor shows agrees with its incidents, as long as no run outlives its lease.
LEMMA TruthKeepsTrack ==
    ASSUME MonitorTypeOK, MonitorInv PROVE MonitorsKeepTrack
<1>1. ASSUME Undisturbed PROVE OpenIsKept /\ ShownIsTrue /\ (runWanted => monitor.due)
  <2>1. TruthInv
    BY <1>1 DEF MonitorInv
  <2>2. ASSUME NEW j \in MonitorJobs, Saving(j), NEW c \in MonitorIncidents, runner[j].opened = c
        PROVE  runner[j].open = c
    BY <2>1, <2>2, AuxMonitorAssumption DEF TruthInv, FoundOut, Saving
  <2>3. OpenIsKept
    BY <2>1, <2>2 DEF OpenIsKept, Kept, TruthInv, OthersAdrift, JustOpened
  <2>4. ShownIsTrue
    BY <2>1 DEF ShownIsTrue, TruthInv, TruthShown
  <2> QED BY <2>1, <2>3, <2>4 DEF TruthInv, OneRun
<1> QED BY <1>1 DEF MonitorsKeepTrack, Undisturbed, MonitorInv, Announced

-----------------------------------------------------------------------------
(* What the runners make of what they hear.                                *)

LEMMA LeastIsLeast ==
    ASSUME NEW S \in SUBSET (1 .. 2), S # {}
    PROVE  Least(S) \in S /\ \A x \in S : Least(S) <= x
<1>1. \A x \in S : x \in Int /\ (x = 1 \/ x = 2)
  OBVIOUS
<1>2. PICK x \in S : x = 1 \/ 1 \notin S
  BY <1>1
<1>3. \A y \in S : x <= y
  <2> TAKE y \in S
  <2>1. (y = 1 \/ y = 2) /\ (x = 1 \/ x = 2) /\ (y = 1 => x = 1)
    BY <1>1, <1>2
  <2> QED BY <2>1
<1> QED BY <1>3 DEF Least

\* The lookup at one name answers with what one of its providers said: a registration if any of
\* them found one, and a failure only if all of them failed.
LEMMA LookupAnswers ==
    ASSUME NEW f \in [1 .. 2 -> Answers]
    PROVE  LET l == LookupRegistration(f)
           IN  /\ \E p \in 1 .. 2 : l = f[p]
               /\ (\E p \in 1 .. 2 : Found(f[p])) => Found(l)
               /\ Found(l) \/ NotFound(l) => \E p \in 1 .. 2 : f[p].outcome # "error"
<1> DEFINE found == Where(f, Found)
           absent == Where(f, NotFound)
<1>1. /\ found \in SUBSET (1 .. 2) /\ absent \in SUBSET (1 .. 2)
      /\ \A p \in 1 .. 2 : (p \in found) <=> Found(f[p])
  BY DEF Where
<1>2. LookupRegistration(f) = IF found # {} THEN f[Least(found)]
                              ELSE f[IF absent # {} THEN Least(absent) ELSE 1]
  BY DEF LookupRegistration
<1> HIDE DEF found, absent
<1>3. \E p \in 1 .. 2 : LookupRegistration(f) = f[p]
  <2>1. CASE found # {}
    <3>1. Least(found) \in 1 .. 2 BY <1>1, <2>1, LeastIsLeast
    <3> QED BY <1>2, <2>1, <3>1
  <2>2. CASE found = {} /\ absent # {}
    <3>1. Least(absent) \in 1 .. 2 BY <1>1, <2>2, LeastIsLeast
    <3> QED BY <1>2, <2>2, <3>1
  <2>3. CASE found = {} /\ absent = {}
    <3>1. 1 \in 1 .. 2 OBVIOUS
    <3> QED BY <1>2, <2>3, <3>1
  <2> QED BY <2>1, <2>2, <2>3
<1>4. (\E p \in 1 .. 2 : Found(f[p])) => Found(LookupRegistration(f))
  <2>1. ASSUME found # {} PROVE Found(LookupRegistration(f))
    <3>1. Least(found) \in found BY <1>1, <2>1, LeastIsLeast
    <3> QED BY <1>1, <1>2, <2>1, <3>1
  <2> QED BY <1>1, <2>1
<1> QED BY <1>3, <1>4 DEF Found, NotFound

LEMMA AnswersCount ==
    DomainAnswersCount
<1> SUFFICES ASSUME NEW n \in 0 .. 2, NEW o \in [1 .. n -> [1 .. 2 -> Answers]]
             PROVE  LET heard == {o[i][p] : i \in DOMAIN o, p \in 1 .. 2}
                    IN  /\ DomainVerdict(o) = "passing" =>
                               \E a \in heard : a.dated /\ a.days # None /\ a.days > WarningDays
                        /\ (\E a \in heard : Found(a)) => DomainVerdict(o) # "error"
                        /\ (\A a \in heard : a.outcome = "error") => DomainVerdict(o) = "error"
  BY DEF DomainAnswersCount, DomainOutcomes
<1> DEFINE heard == {o[i][p] : i \in DOMAIN o, p \in 1 .. 2}
           results == [i \in DOMAIN o |-> LookupRegistration(o[i])]
           dated == Where(results, Dated)
<1>1. DOMAIN o = 1 .. n /\ DOMAIN results = 1 .. n /\ n \in {0, 1, 2}
  OBVIOUS
<1>2. ASSUME NEW i \in 1 .. n
      PROVE  /\ \E p \in 1 .. 2 : results[i] = o[i][p]
             /\ (\E p \in 1 .. 2 : Found(o[i][p])) => Found(results[i])
             /\ Found(results[i]) \/ NotFound(results[i]) => \E p \in 1 .. 2 : o[i][p].outcome # "error"
  BY LookupAnswers
<1>3. \A i \in 1 .. n : results[i] \in heard
  BY <1>1, <1>2
<1>4. DomainVerdict(o) =
          IF dated # {} THEN ExpiryStatus(results[Least(dated)].days)
          ELSE IF Where(results, Found) # {} THEN ExpiryStatus(None)
          ELSE IF results # <<>> /\ Where(results, NotFound) = DOMAIN results THEN "failing"
          ELSE "error"
  BY DEF DomainVerdict
<1>5. n = 0 => results = <<>>
  BY <1>1
<1>6. /\ dated \in SUBSET (1 .. 2) /\ dated \in SUBSET (1 .. n)
      /\ \A i \in dated : Dated(results[i])
      /\ Where(results, Found) = {i \in 1 .. n : Found(results[i])}
      /\ Where(results, NotFound) = {i \in 1 .. n : NotFound(results[i])}
  BY <1>1 DEF Where
<1> HIDE DEF results, dated
<1>7. \A d : ExpiryStatus(d) # "error" /\ (ExpiryStatus(d) = "passing" => d # None)
  BY DEF ExpiryStatus
<1>8. ASSUME DomainVerdict(o) = "passing"
      PROVE  \E a \in heard : a.dated /\ a.days # None /\ a.days > WarningDays
  <2>1. dated # {} /\ ExpiryStatus(results[Least(dated)].days) = "passing"
    BY <1>4, <1>7, <1>8
  <2>2. PICK i \in 1 .. n : i \in dated /\ i = Least(dated)
    BY <1>6, <2>1, LeastIsLeast
  <2>3. results[i] \in heard /\ results[i].dated
    BY <1>3, <1>6, <2>2 DEF Dated
  <2>4. results[i].days \in Days
    <3>1. ASSUME NEW a \in Answers PROVE a.days \in Days
      <4>1. \/ \E d \in Days : a = [outcome |-> "found", dated |-> TRUE, days |-> d]
            \/ a \in [outcome: {"found", "not_found", "error"}, dated: {FALSE}, days: {None}]
        BY DEF Answers
      <4>2. None \in Days
        BY DEF Days
      <4>3. CASE \E d \in Days : a = [outcome |-> "found", dated |-> TRUE, days |-> d]
        BY <4>3
      <4>4. CASE a \in [outcome: {"found", "not_found", "error"}, dated: {FALSE}, days: {None}]
        <5>1. a.days = None
          BY <4>4
        <5> QED BY <4>2, <5>1
      <4> QED BY <4>1, <4>3, <4>4
    <3> QED BY <1>2, <3>1
  <2>5. results[i].days # None /\ results[i].days > WarningDays
    BY <2>1, <2>2, <2>4, MonitorVerdictsAssumption DEF ExpiryStatus, Days
  <2> QED BY <2>3, <2>5
<1>9. ASSUME NEW a \in heard, Found(a) PROVE DomainVerdict(o) # "error"
  <2>1. PICK i \in 1 .. n, p \in 1 .. 2 : a = o[i][p]
    BY <1>1
  <2>2. i \in Where(results, Found)
    BY <1>2, <1>6, <1>9, <2>1
  <2> QED BY <1>4, <1>7, <2>2
<1>10. ASSUME \A a \in heard : a.outcome = "error" PROVE DomainVerdict(o) = "error"
  <2>1. \A i \in 1 .. n : ~Found(results[i]) /\ ~NotFound(results[i])
    BY <1>1, <1>2, <1>10
  <2>2. dated = {} /\ Where(results, Found) = {} /\ Where(results, NotFound) = {}
    BY <1>6, <2>1 DEF Dated
  <2>3. results # <<>> => Where(results, NotFound) # DOMAIN results
    <3>1. n # 0 => 1 \in 1 .. n
      BY <1>1
    <3> QED BY <1>1, <1>5, <2>2, <3>1 DEF results
  <2> QED BY <1>4, <2>2, <2>3
<1> QED BY <1>8, <1>9, <1>10

LEMMA DefectsWin ==
    CertificateDefectsWin
<1> SUFFICES ASSUME NEW o \in SslOutcomes, o.reached = "tls", ~o.hostnameMatches \/ ~o.validates
             PROVE  SslVerdict(o) = "failing"
  BY DEF CertificateDefectsWin
<1>1. ExpiryStatus(o.days) \in Verdicts
  BY ExpiryVerdicts DEF SslOutcomes, Verdicts
<1>2. SslVerdict(o) = WorstStatus({ExpiryStatus(o.days)} \cup {"failing"})
  BY DEF SslVerdict, SslOutcomes
<1> QED BY <1>1, <1>2, WorstOfTwo

LEMMA MonitorInvAlways == MonitorSpec => [](MonitorTypeOK /\ MonitorInv)
<1>1. MonitorInit => MonitorTypeOK /\ MonitorInv
  <2> SUFFICES ASSUME MonitorInit PROVE MonitorTypeOK /\ MonitorInv
    OBVIOUS
  <2>1. /\ \A j \in MonitorJobs : runner[j] = IdleRunner
        /\ \A c \in MonitorIncidents :
               problem[c] = [status |-> "none", severity |-> "none", byHand |-> FALSE,
                             problemTold |-> FALSE, recoveryTold |-> FALSE]
        /\ runWanted = FALSE /\ adrift = {} /\ monitor.status = "unknown"
    BY DEF MonitorInit
  <2>2. MonitorTypeOK
    <3>1. monitor \in Monitor
      BY AuxMonitorAssumption DEF MonitorInit, Monitor, Shown
    <3>2. IdleRunner \in Runner
      BY AuxMonitorAssumption DEF IdleRunner, Runner, Shown
    <3>3. problem \in [MonitorIncidents -> Problem] /\ runner \in [MonitorJobs -> Runner]
      BY <3>2 DEF MonitorInit, Problem
    <3>4. monitorFaults \in 0 .. MaxMonitorFaults
      BY AuxMonitorAssumption DEF MonitorInit
    <3>5. /\ site \in {"running", "paused", "gone", "emptied"} /\ lastResult \in Shown
          /\ adrift \subseteq MonitorIncidents /\ muted \subseteq MonitorIncidents
          /\ runWanted \in BOOLEAN /\ outran \in BOOLEAN
      BY DEF MonitorInit, Shown
    <3> QED BY <3>1, <3>3, <3>4, <3>5 DEF MonitorTypeOK
  <2>3. Announced
    BY <2>1 DEF Announced, ProblemsInOrder, RunsAnnounce, TransitionsAreTold, Open, IdleRunner,
                Undecided
  <2>4. TruthInv
    BY <2>1 DEF TruthInv, OneRun, OthersAdrift, FoundOut, TruthShown, Open, IdleRunner, Undecided,
                Running
  <2> QED BY <2>2, <2>3, <2>4 DEF MonitorInv
<1>2. MonitorTypeOK /\ MonitorInv /\ [MonitorNext]_monitorVars => MonitorTypeOK' /\ MonitorInv'
  <2> SUFFICES ASSUME MonitorTypeOK, MonitorInv, [MonitorNext]_monitorVars
               PROVE  MonitorTypeOK' /\ MonitorInv'
    OBVIOUS
  <2>1. CASE MonitorNext
    BY <2>1, MonitorStepTypes, MonitorStepAnnounces, MonitorStepTruth DEF MonitorInv, Announced
  <2>2. CASE UNCHANGED monitorVars
    <3>1. MonitorTypeOK'
      BY <2>2 DEF MonitorTypeOK, monitorVars
    <3>2. Announced'
      BY <2>2 DEF MonitorInv, Announced, ProblemsInOrder, RunsAnnounce, TransitionsAreTold, Open,
                  Running, monitorVars
    <3>3. Undisturbed' => TruthInv'
      BY <2>2 DEF MonitorInv, Undisturbed, Gone, TruthInv, OneRun, OthersAdrift, JustOpened, Saving,
                  FoundOut, TruthShown, Open, Running, monitorVars
    <3> QED BY <3>1, <3>2, <3>3 DEF MonitorInv
  <2> QED BY <2>1, <2>2
<1> QED BY <1>1, <1>2, PTL DEF MonitorSpec

\* Every auxiliary monitor keeps track of its incidents: as long as no run outlives its lease, an
\* open incident is the one it refers to, what it shows agrees with it and a run asked for is
\* made; announcements are lost only to faults; and a runner reports what it heard.
THEOREM MonitorsTellTheTruthAlways == MonitorSpec => []MonitorsTellTheTruth
<1>1. MonitorTypeOK /\ MonitorInv => MonitorsTellTheTruth
  BY TruthKeepsTrack, AnswersCount, DefectsWin DEF MonitorsTellTheTruth
<1> QED BY <1>1, MonitorInvAlways, PTL

-----------------------------------------------------------------------------
(* A crawl.                                                                *)

InFrontier(u) == \E i \in DOMAIN queue : queue[i].url = u

\* A page is in the queue once, was met before, and is not of another site; once fetched it is no
\* longer in the queue.
QueueInOrder ==
    /\ \A i \in DOMAIN queue : queue[i].url \in queued \ External
    /\ \A i, k \in DOMAIN queue : queue[i].url = queue[k].url => i = k
    /\ \A u \in Urls : requests[u].page > 0 => u \in queued /\ ~InFrontier(u)
    /\ \A u \in Urls : requests[u].link > 0 => u \in checked

CrawlInv == CrawlTypeOK /\ QueueInOrder /\ CrawlKeepsItsWord

-----------------------------------------------------------------------------
\* Taking a page out of the queue, and putting one in.
LEMMA Dequeued ==
    ASSUME CrawlTypeOK, QueueInOrder, queue # <<>>, queue' = Tail(queue)
    PROVE  /\ Head(queue) \in Entry /\ queue' \in Seq(Entry)
           /\ 1 \in DOMAIN queue /\ queue[1] = Head(queue)
           /\ \A i \in DOMAIN queue' : i + 1 \in DOMAIN queue /\ queue'[i] = queue[i + 1]
           /\ \A u : InFrontier(u)' <=> (InFrontier(u) /\ u # Head(queue).url)
<1>1. queue \in Seq(Entry) /\ Len(queue) \in Nat /\ Len(queue) > 0
  BY DEF CrawlTypeOK
<1>2. /\ Head(queue) \in Entry /\ queue' \in Seq(Entry) /\ Len(queue') = Len(queue) - 1
      /\ 1 \in DOMAIN queue /\ queue[1] = Head(queue)
      /\ DOMAIN queue = 1 .. Len(queue) /\ DOMAIN queue' = 1 .. Len(queue')
      /\ \A i \in 1 .. Len(queue') : queue'[i] = queue[i + 1]
  BY <1>1
<1>3. \A i \in DOMAIN queue' : i + 1 \in DOMAIN queue /\ queue'[i] = queue[i + 1]
  BY <1>1, <1>2
<1>4. ASSUME NEW u, InFrontier(u)' PROVE InFrontier(u) /\ u # Head(queue).url
  <2>1. PICK i \in DOMAIN queue' : queue'[i].url = u
    BY <1>4 DEF InFrontier
  <2>2. i + 1 \in DOMAIN queue /\ queue[i + 1].url = u /\ i + 1 # 1
    BY <1>1, <1>2, <1>3, <2>1
  <2>3. u # queue[1].url
    BY <1>2, <2>2 DEF QueueInOrder
  <2> QED BY <1>2, <2>2, <2>3 DEF InFrontier
<1>5. ASSUME NEW u, InFrontier(u), u # Head(queue).url PROVE InFrontier(u)'
  <2>1. PICK i \in DOMAIN queue : queue[i].url = u
    BY <1>5 DEF InFrontier
  <2>2. i # 1 /\ i - 1 \in DOMAIN queue' /\ (i - 1) + 1 = i
    BY <1>1, <1>2, <1>5, <2>1
  <2>3. queue'[i - 1].url = u
    BY <1>2, <2>1, <2>2
  <2> QED BY <2>2, <2>3 DEF InFrontier
<1> QED BY <1>2, <1>3, <1>4, <1>5

LEMMA Enqueued ==
    ASSUME CrawlTypeOK, NEW e \in Entry, queue' = Append(queue, e)
    PROVE  /\ queue' \in Seq(Entry)
           /\ \A i \in DOMAIN queue' : \/ i \in DOMAIN queue /\ queue'[i] = queue[i]
                                       \/ i = Len(queue) + 1 /\ queue'[i] = e
           /\ \A u : InFrontier(u)' <=> (InFrontier(u) \/ u = e.url)
<1>1. queue \in Seq(Entry) /\ Len(queue) \in Nat
  BY DEF CrawlTypeOK
<1>2. /\ queue' \in Seq(Entry) /\ Len(queue') = Len(queue) + 1
      /\ DOMAIN queue = 1 .. Len(queue) /\ DOMAIN queue' = 1 .. Len(queue')
      /\ \A i \in 1 .. Len(queue) : queue'[i] = queue[i]
      /\ queue'[Len(queue) + 1] = e
  BY <1>1
<1>3. \A i \in DOMAIN queue' : \/ i \in DOMAIN queue /\ queue'[i] = queue[i]
                               \/ i = Len(queue) + 1 /\ queue'[i] = e
  BY <1>1, <1>2
<1>4. /\ \A i \in DOMAIN queue : i \in DOMAIN queue' /\ queue'[i] = queue[i]
      /\ Len(queue) + 1 \in DOMAIN queue'
  BY <1>1, <1>2
<1> QED BY <1>2, <1>3, <1>4 DEF InFrontier

\* One more broken link, and one or two more requests.
LEMMA BrokenCounts ==
    ASSUME CrawlTypeOK, NEW u \in Urls,
           \/ brokenCount' = [brokenCount EXCEPT ![u] = @ + 1]
           \/ brokenCount' = brokenCount
    PROVE  brokenCount' \in [Urls -> Nat]
<1>1. brokenCount \in [Urls -> Nat] /\ brokenCount[u] + 1 \in Nat
  BY DEF CrawlTypeOK
<1> QED BY <1>1

LEMMA PageCounts ==
    ASSUME CrawlTypeOK, NEW u \in Urls, requests' = [requests EXCEPT ![u].page = @ + 1]
    PROVE  /\ requests' \in [Urls -> [page: Nat, link: Nat]] /\ requests[u].page \in Nat
           /\ requests'[u].page = requests[u].page + 1 /\ requests'[u].link = requests[u].link
           /\ \A v \in Urls \ {u} : requests'[v] = requests[v]
<1> DEFINE r == [requests[u] EXCEPT !.page = @ + 1]
<1>1. requests \in [Urls -> [page: Nat, link: Nat]]
  BY DEF CrawlTypeOK
<1>2. /\ r \in [page: Nat, link: Nat] /\ requests[u].page \in Nat
      /\ r.page = requests[u].page + 1 /\ r.link = requests[u].link
  BY <1>1
<1>3. requests' = [requests EXCEPT ![u] = r]
  BY <1>1
<1> HIDE DEF r
<1> QED BY <1>1, <1>2, <1>3

LEMMA LinkCounts ==
    ASSUME CrawlTypeOK, NEW u \in Urls, NEW n \in {1, 2},
           requests' = [requests EXCEPT ![u].link = @ + n]
    PROVE  /\ requests' \in [Urls -> [page: Nat, link: Nat]] /\ requests[u].link \in Nat
           /\ requests'[u].link = requests[u].link + n /\ requests'[u].page = requests[u].page
           /\ \A v \in Urls \ {u} : requests'[v] = requests[v]
<1> DEFINE r == [requests[u] EXCEPT !.link = @ + n]
<1>1. requests \in [Urls -> [page: Nat, link: Nat]]
  BY DEF CrawlTypeOK
<1>2. /\ r \in [page: Nat, link: Nat] /\ requests[u].link \in Nat
      /\ r.link = requests[u].link + n /\ r.page = requests[u].page
  BY <1>1
<1>3. requests' = [requests EXCEPT ![u] = r]
  BY <1>1
<1> HIDE DEF r
<1> QED BY <1>1, <1>2, <1>3

\* What the steps of a crawl keep: the settings, and in most of them the queue.
LEMMA CrawlStep ==
    ASSUME CrawlInv, CrawlNext PROVE CrawlInv'
<1> USE DEF CrawlInv
<1>0. /\ Len(queue) \in Nat /\ pagesCrawled \in Nat /\ linksChecked \in Nat
      /\ MaxPages \in Nat /\ MaxLinksChecked \in Nat /\ MaxDepth \in Nat
  BY SiteCrawlAssumption DEF CrawlTypeOK
<1>w. \A u : Waiting(u) <=> u \in links \/ InFrontier(u)
  BY DEF Waiting, InFrontier
<1>x. \A u : Waiting(u)' <=> u \in links' \/ InFrontier(u)'
  BY DEF Waiting, InFrontier
<1>1. CASE CrawlEnds
  <2>1. CrawlTypeOK'
    BY <1>1 DEF CrawlEnds, CrawlSettings, CrawlTypeOK, LeftOver
  <2>2. QueueInOrder' /\ EachOnce'
    BY <1>1 DEF CrawlEnds, CrawlSettings, QueueInOrder, InFrontier, CrawlKeepsItsWord, EachOnce
  <2>3. NothingMissed' /\ (~truncated' => queue' = <<>>) /\ links' = {}
    BY <1>1 DEF CrawlEnds, CrawlSettings, BetweenPages, LeftOver, CrawlKeepsItsWord, NothingMissed,
                Waiting, Ignored
  <2>4. ~truncated' => \A u \in seen' : ~Waiting(u)'
    BY <2>3 DEF Waiting
  <2> QED BY <2>1, <2>2, <2>3, <2>4 DEF CrawlKeepsItsWord
<1>2. CASE SkipPage
  <2>1. /\ queue # <<>> /\ queue' = Tail(queue) /\ Head(queue).url \in disallowed
        /\ UNCHANGED <<disallowed, checkExternal, late, crawl, queued, links, depth, checked,
                       pagesCrawled, linksChecked, truncated, brokenCount, requests, seen>>
        /\ crawl = "running"
    BY <1>2 DEF SkipPage, PageWanted, BetweenPages, CrawlSettings
  <2>2. CrawlTypeOK'
    BY <2>1, Dequeued DEF CrawlTypeOK
  <2>3. QueueInOrder'
    <3>1. /\ \A i \in DOMAIN queue' : queue'[i].url \in queued' \ External
          /\ \A i, k \in DOMAIN queue' : queue'[i].url = queue'[k].url => i + 1 = k + 1
      BY <2>1, Dequeued DEF QueueInOrder
    <3>2. \A i \in DOMAIN queue' : i \in Nat
      BY <2>2 DEF CrawlTypeOK
    <3>3. \A u : InFrontier(u)' => InFrontier(u)
      BY <2>1, Dequeued
    <3>4. \A i, k \in DOMAIN queue' : queue'[i].url = queue'[k].url => i = k
      BY <3>1, <3>2
    <3>5. \A u \in Urls : requests'[u].page > 0 => u \in queued' /\ ~InFrontier(u)'
      BY <2>1, <3>3 DEF QueueInOrder
    <3> QED BY <2>1, <3>1, <3>4, <3>5 DEF QueueInOrder
  <2>4. EachOnce'
    BY <2>1 DEF CrawlKeepsItsWord, EachOnce
  <2>5. NothingMissed'
    BY <2>1, <1>w, <1>x, Dequeued DEF CrawlKeepsItsWord, NothingMissed, Ignored
  <2> QED BY <2>1, <2>2, <2>3, <2>4, <2>5 DEF CrawlKeepsItsWord
<1>3. CASE FetchPage
  <2> DEFINE u == Head(queue).url
  <2>1. /\ queue # <<>> /\ queue' = Tail(queue) /\ u \notin disallowed
        /\ depth' = Head(queue).depth /\ pagesCrawled' = pagesCrawled + 1
        /\ checked' = checked \cup {u} /\ requests' = [requests EXCEPT ![u].page = @ + 1]
        /\ links' \subseteq Urls /\ seen' = seen \cup links'
        /\ \/ brokenCount' = [brokenCount EXCEPT ![u] = @ + 1]
           \/ brokenCount' = brokenCount
        /\ UNCHANGED <<disallowed, checkExternal, late, crawl, queued, linksChecked, truncated>>
        /\ crawl = "running" /\ links = {} /\ ~(pagesCrawled >= MaxPages)
    BY <1>3 DEF FetchPage, PageWanted, BetweenPages, CrawlSettings, PagesAreUsedUp
  <2>2. /\ u \in Urls /\ Head(queue).depth \in 0 .. MaxDepth /\ queue' \in Seq(Entry)
        /\ \A v : InFrontier(v)' <=> (InFrontier(v) /\ v # u)
        /\ InFrontier(u) /\ u \in queued \ External
    BY <2>1, Dequeued DEF Entry, InFrontier, QueueInOrder
  <2> HIDE DEF u
  <2>3. /\ requests' \in [Urls -> [page: Nat, link: Nat]] /\ requests[u].page \in Nat
        /\ requests'[u].page = requests[u].page + 1 /\ requests'[u].link = requests[u].link
        /\ \A v \in Urls \ {u} : requests'[v] = requests[v]
    BY <2>1, <2>2, PageCounts
  <2>4. CrawlTypeOK'
    <3>1. brokenCount' \in [Urls -> Nat]
      BY <2>1, <2>2, BrokenCounts
    <3>2. pagesCrawled' \in 0 .. MaxPages
      BY <1>0, <2>1 DEF CrawlTypeOK
    <3> QED BY <2>1, <2>2, <2>3, <3>1, <3>2 DEF CrawlTypeOK
  <2>5. requests[u].page = 0
    <3>1. ~(requests[u].page > 0)
      BY <2>2 DEF QueueInOrder
    <3> QED BY <2>3, <3>1
  <2>6. QueueInOrder'
    <3>1. /\ \A i \in DOMAIN queue' : queue'[i].url \in queued' \ External
          /\ \A i, k \in DOMAIN queue' : queue'[i].url = queue'[k].url => i + 1 = k + 1
      BY <2>1, Dequeued DEF QueueInOrder
    <3>2. \A i \in DOMAIN queue' : i \in Nat
      BY <2>4 DEF CrawlTypeOK
    <3>4. \A v \in Urls : requests'[v].page > 0 => v \in queued' /\ ~InFrontier(v)'
      BY <2>1, <2>2, <2>3, <2>5 DEF QueueInOrder
    <3>5. \A v \in Urls : requests'[v].link > 0 => v \in checked'
      BY <2>1, <2>3 DEF QueueInOrder
    <3>6. \A i, k \in DOMAIN queue' : queue'[i].url = queue'[k].url => i = k
      BY <3>1, <3>2
    <3> QED BY <3>1, <3>4, <3>5, <3>6 DEF QueueInOrder
  <2>7. EachOnce'
    BY <2>1, <2>2, <2>3, <2>5 DEF CrawlKeepsItsWord, EachOnce
  <2>8. NothingMissed'
    BY <2>1, <2>2, <1>w, <1>x DEF CrawlKeepsItsWord, NothingMissed, Ignored
  <2> QED BY <2>1, <2>4, <2>6, <2>7, <2>8 DEF CrawlKeepsItsWord
<1>4. CASE GiveUpPage
  <2>1. CrawlTypeOK'
    BY <1>4 DEF GiveUpPage, CrawlSettings, CrawlTypeOK
  <2>2. QueueInOrder' /\ EachOnce'
    BY <1>4 DEF GiveUpPage, CrawlSettings, QueueInOrder, InFrontier, CrawlKeepsItsWord, EachOnce
  <2> QED BY <1>4, <2>1, <2>2 DEF GiveUpPage, CrawlSettings, CrawlKeepsItsWord, NothingMissed
<1>5. CASE DeadlinePasses
  <2>1. CrawlTypeOK'
    BY <1>5 DEF DeadlinePasses, CrawlTypeOK
  <2>2. QueueInOrder' /\ EachOnce'
    BY <1>5 DEF DeadlinePasses, QueueInOrder, InFrontier, CrawlKeepsItsWord, EachOnce
  <2> QED BY <1>5, <2>1, <2>2
          DEF DeadlinePasses, CrawlKeepsItsWord, NothingMissed, Waiting, Ignored
<1>6. ASSUME NEW l \in Urls, PassLink(l) PROVE CrawlInv'
  <2>1. /\ Ignored(l) \/ l \in checked
        /\ links' = links \ {l} /\ crawl = "running"
        /\ UNCHANGED <<disallowed, checkExternal, late, crawl, queue, queued, depth, checked,
                       pagesCrawled, linksChecked, truncated, brokenCount, requests, seen>>
    BY <1>6 DEF PassLink, LinkAtHand, LinkDone, CrawlSettings
  <2>2. CrawlTypeOK'
    BY <2>1 DEF CrawlTypeOK
  <2>3. QueueInOrder' /\ EachOnce'
    BY <2>1 DEF QueueInOrder, InFrontier, CrawlKeepsItsWord, EachOnce
  <2>4. NothingMissed'
    BY <2>1 DEF CrawlKeepsItsWord, NothingMissed, Waiting, Ignored
  <2> QED BY <2>1, <2>2, <2>3, <2>4 DEF CrawlKeepsItsWord
<1>7. ASSUME NEW l \in Urls, QueueLink(l) PROVE CrawlInv'
  <2> DEFINE e == [url |-> l, depth |-> depth + 1]
  <2>1. /\ l \notin External \cup Files /\ depth + 1 <= MaxDepth /\ l \notin queued
        /\ queued' = queued \cup {l} /\ queue' = Append(queue, e)
        /\ links' = links \ {l} /\ crawl = "running"
        /\ UNCHANGED <<disallowed, checkExternal, late, crawl, depth, checked,
                       pagesCrawled, linksChecked, truncated, brokenCount, requests, seen>>
    BY <1>7 DEF QueueLink, LinkAtHand, LinkDone, CrawlSettings, Queueable
  <2>2. e \in Entry /\ e.url = l
    BY <1>0, <2>1 DEF Entry, CrawlTypeOK
  <2> HIDE DEF e
  <2>3. CrawlTypeOK'
    BY <2>1, <2>2, Enqueued DEF CrawlTypeOK
  <2>4. QueueInOrder'
    <3>1. \A i \in DOMAIN queue' : \/ i \in DOMAIN queue /\ queue'[i] = queue[i]
                                   \/ i = Len(queue) + 1 /\ queue'[i] = e
      BY <2>1, <2>2, Enqueued
    <3>2. \A i \in DOMAIN queue : queue[i].url # l
      BY <2>1 DEF QueueInOrder
    <3>3. \A u : InFrontier(u)' <=> (InFrontier(u) \/ u = l)
      BY <2>1, <2>2, Enqueued
    <3>4. requests' = requests /\ \A u \in Urls : requests[u].page > 0 => u # l
      BY <2>1 DEF QueueInOrder
    <3>5. \A i, k \in DOMAIN queue' : queue'[i].url = queue'[k].url => i = k
      BY <2>2, <3>1, <3>2 DEF QueueInOrder
    <3>6. \A i \in DOMAIN queue' : queue'[i].url \in queued' \ External
      BY <2>1, <2>2, <3>1 DEF QueueInOrder
    <3> QED BY <2>1, <3>3, <3>4, <3>5, <3>6 DEF QueueInOrder
  <2>5. EachOnce'
    BY <2>1 DEF CrawlKeepsItsWord, EachOnce
  <2>6. NothingMissed'
    <3>1. \A u : InFrontier(u)' <=> (InFrontier(u) \/ u = l)
      BY <2>1, <2>2, Enqueued
    <3> QED BY <2>1, <3>1, <1>w, <1>x DEF CrawlKeepsItsWord, NothingMissed, Ignored
  <2> QED BY <2>1, <2>3, <2>4, <2>5, <2>6 DEF CrawlKeepsItsWord
<1>8. ASSUME NEW l \in Urls, CheckLink(l) PROVE CrawlInv'
  <2>1. /\ ~Ignored(l) /\ l \notin checked /\ ~(linksChecked >= MaxLinksChecked)
        /\ linksChecked' = linksChecked + 1 /\ checked' = checked \cup {l}
        /\ \E n \in {1, 2} : requests' = [requests EXCEPT ![l].link = @ + n]
        /\ \/ brokenCount' = [brokenCount EXCEPT ![l] = @ + 1]
           \/ brokenCount' = brokenCount
        /\ links' = links \ {l} /\ crawl = "running"
        /\ UNCHANGED <<disallowed, checkExternal, late, crawl, queue, queued, depth,
                       pagesCrawled, truncated, seen>>
    BY <1>8 DEF CheckLink, LinkAtHand, LinkDone, CrawlSettings, LinksAreUsedUp
  <2>2. PICK n \in {1, 2} : requests' = [requests EXCEPT ![l].link = @ + n]
    BY <2>1
  <2>3. /\ requests' \in [Urls -> [page: Nat, link: Nat]]
        /\ requests'[l].link = requests[l].link + n /\ requests'[l].page = requests[l].page
        /\ \A v \in Urls \ {l} : requests'[v] = requests[v]
        /\ requests[l].link \in Nat
    BY <2>2, LinkCounts
  <2>4. CrawlTypeOK'
    <3>1. brokenCount' \in [Urls -> Nat]
      BY <2>1, BrokenCounts
    <3>2. linksChecked' \in 0 .. MaxLinksChecked
      BY <1>0, <2>1
    <3> QED BY <2>1, <2>3, <3>1, <3>2 DEF CrawlTypeOK
  <2>5. requests[l].link = 0
    <3>1. ~(requests[l].link > 0)
      BY <2>1 DEF QueueInOrder
    <3> QED BY <2>3, <3>1
  <2>6. QueueInOrder'
    BY <2>1, <2>3 DEF QueueInOrder, InFrontier
  <2>7. EachOnce'
    BY <2>1, <2>3, <2>5 DEF CrawlKeepsItsWord, EachOnce, Ignored
  <2>8. NothingMissed'
    BY <2>1 DEF CrawlKeepsItsWord, NothingMissed, Waiting, Ignored
  <2> QED BY <2>1, <2>4, <2>6, <2>7, <2>8 DEF CrawlKeepsItsWord
<1> QED BY <1>1, <1>2, <1>3, <1>4, <1>5, <1>6, <1>7, <1>8 DEF CrawlNext

LEMMA CrawlBegins ==
    CrawlInit => CrawlInv
<1> SUFFICES ASSUME CrawlInit PROVE CrawlInv
  OBVIOUS
<1>1. /\ queue = <<[url |-> Start, depth |-> 0]>> /\ DOMAIN queue = {1} /\ queue[1].url = Start
      /\ [url |-> Start, depth |-> 0] \in Entry
  BY SiteCrawlAssumption DEF CrawlInit, Entry
<1>2. CrawlTypeOK
  <2>1. queue \in Seq(Entry)
    BY <1>1
  <2>2. requests \in [Urls -> [page: Nat, link: Nat]] /\ brokenCount \in [Urls -> Nat]
    BY DEF CrawlInit
  <2>3. 0 \in 0 .. MaxDepth /\ 0 \in 0 .. MaxPages /\ 0 \in 0 .. MaxLinksChecked
    BY SiteCrawlAssumption
  <2> QED BY <2>1, <2>2, <2>3, SiteCrawlAssumption DEF CrawlInit, CrawlTypeOK
<1>3. \A u \in Urls : requests[u].page = 0 /\ requests[u].link = 0
  BY DEF CrawlInit
<1>4. QueueInOrder
  BY <1>1, <1>3, SiteCrawlAssumption DEF CrawlInit, QueueInOrder
<1>5. CrawlKeepsItsWord
  BY <1>3 DEF CrawlInit, CrawlKeepsItsWord, EachOnce, NothingMissed
<1> QED BY <1>2, <1>4, <1>5 DEF CrawlInv

LEMMA CrawlInvAlways == CrawlSpec => []CrawlInv
<1>1. CrawlInv /\ [CrawlNext]_crawlVars => CrawlInv'
  <2>1. CrawlInv /\ UNCHANGED crawlVars => CrawlInv'
    BY DEF CrawlInv, crawlVars, CrawlTypeOK, QueueInOrder, InFrontier, CrawlKeepsItsWord, EachOnce,
           NothingMissed, Waiting, Ignored
  <2> QED BY <2>1, CrawlStep
<1> QED BY <1>1, CrawlBegins, PTL DEF CrawlSpec

-----------------------------------------------------------------------------
(* What they promise together.                                             *)

\* Every component's state has the type its documents and variables have.
THEOREM BackgroundTypesAlways == BackgroundSpec => []BackgroundTypeOK
<1>1. ReportInv => ReportTypeOK
  BY DEF ReportInv
<1>2. CrawlInv => CrawlTypeOK
  BY DEF CrawlInv
<1>3. CheckInv => CheckTypeOK
  BY DEF CheckInv
<1>4. MailInv => MailTypeOK
  BY DEF MailInv
<1>5. AnalysisTypeOK /\ ReportTypeOK /\ MailTypeOK /\ MonitorTypeOK /\ CheckTypeOK /\ CrawlTypeOK
      /\ RuntimeTypeOK => BackgroundTypeOK
  BY DEF BackgroundTypeOK
<1> QED BY <1>1, <1>2, <1>3, <1>4, <1>5, AnalysisTypesAlways, ReportInvAlways, MailInitInv, MailStep,
           MonitorInvAlways, CheckInitInv, CheckStep, CrawlInvAlways, RuntimeTypesAlways, PTL
           DEF BackgroundSpec, MailSpec, CheckSpec

\* dispatchToRecipients, runScheduledReport: nobody is mailed an alert twice but for a process
\* that stopped before it heard that the mail was sent, nor a report of one occurrence but for
\* a run that was cut off or outlived its lease, and then once more for each time.
THEOREM MailedOnceAlways == BackgroundSpec => []MailedOnce
<1>1. AlertMailedOnce /\ ReportMailedOnce => MailedOnce
  BY DEF MailedOnce
<1> QED BY <1>1, AlertMailedOnceAlways, ReportInvAlways, PaidForIsEnough, PTL DEF BackgroundSpec

\* A check makes its attempts, follows its redirects and spends its time within what it is
\* given; a crawl asks for each page and link at most once, within its budgets, and leaves out
\* nothing it does not report as left out.
THEOREM ProbesKeepTheirWordAlways == BackgroundSpec => []ProbesKeepTheirWord
<1>1. CrawlInv => CrawlKeepsItsWord
  BY DEF CrawlInv
<1>2. CheckKeepsItsWord /\ CrawlKeepsItsWord => ProbesKeepTheirWord
  BY DEF ProbesKeepTheirWord
<1> QED BY <1>1, <1>2, CheckKeepsItsWordAlways, CrawlInvAlways, PTL DEF BackgroundSpec

=============================================================================
