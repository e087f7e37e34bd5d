----------------------------- MODULE SiteCheck -----------------------------
(***************************************************************************)
(* One uptime check of a website: a few attempts, each of which follows    *)
(* redirects by hand and validates every hop before it is asked.  Time is  *)
(* counted in requests that took their whole timeout.                      *)
(***************************************************************************)
EXTENDS Shared, Sequences

CONSTANTS
    Hops,            \* addresses a website may redirect to, its own among them
    Home,            \* the website's own address
    BlockedHops,     \* those that are not public
    InvalidHops,     \* those that are not http or https addresses
    CheckAttempts,   \* MONITOR_MAX_ATTEMPTS
    MaxRedirects     \* MONITOR_MAX_REDIRECTS

ASSUME SiteCheckAssumption ==
    /\ Home \in Hops /\ BlockedHops \cap InvalidHops = {}
    /\ CheckAttempts \in Nat \ {0} /\ MaxRedirects \in Nat

VARIABLES
    check,      \* the check under way
    attempted,  \* how each attempt has ended
    elapsed     \* whole timeouts that have passed

checkVars == <<check, attempted, elapsed>>

ErrorTypes == {"http_error", "too_many_redirects", "timeout", "unreachable", "unknown",
               "blocked_target", "invalid_url"}

CheckOutcomes == [status: {"up", "down", "timeout", "error"}, errorType: ErrorTypes \cup {None}]

Up == [status |-> "up", errorType |-> None]

\* statusForError, and the answers that are down without an error having been thrown.
Failed(type) ==
    [status |-> CASE type = "timeout" -> "timeout"
                  [] type \in {"http_error", "too_many_redirects"} -> "down"
                  [] OTHER -> "error",
     errorType |-> type]

\* lastOutcome is the last element of attempted.
Check == [pc: {"validate", "request", "done"}, url: Hops, redirectCount: 0 .. MaxRedirects]

FirstHop == [pc |-> "validate", url |-> Home, redirectCount |-> 0]

CheckInit == check = FirstHop /\ attempted = <<>> /\ elapsed = 0

-----------------------------------------------------------------------------
Retryable(outcome) == outcome.errorType \notin {"blocked_target", "invalid_url"}

\* The next attempt starts over, with all its redirects.
AttemptEnds(outcome) ==
    /\ attempted' = Append(attempted, outcome)
    /\ check' = IF outcome = Up \/ ~Retryable(outcome) \/ Len(attempted') >= CheckAttempts
                THEN [check EXCEPT !.pc = "done"]
                ELSE FirstHop

\* What the string of an address is refused for.
Refusal(url) ==
    CASE url \in BlockedHops -> "blocked_target" [] url \in InvalidHops -> "invalid_url"
      [] OTHER -> None

ValidateHop ==
    /\ check.pc = "validate"
    /\ IF Refusal(check.url) # None
       THEN AttemptEnds(Failed(Refusal(check.url)))
       ELSE check' = [check EXCEPT !.pc = "request"] /\ UNCHANGED attempted
    /\ UNCHANGED elapsed

\* A request ends early, or with its timeout: the body is awaited under the same one.
Asks ==
    /\ check.pc = "request"
    /\ elapsed' \in {elapsed, elapsed + 1}

\* Mutant: one hop more than MONITOR_MAX_REDIRECTS.
RedirectsUsedUpLate == check.redirectCount >= MaxRedirects + 1

RedirectsUsedUp == check.redirectCount >= MaxRedirects

\* The address is resolved anew for each hop.
Redirected(url) ==
    /\ Asks
    /\ IF RedirectsUsedUp
       THEN AttemptEnds(Failed("too_many_redirects"))
       ELSE /\ check' = [pc |-> "validate", url |-> url, redirectCount |-> check.redirectCount + 1]
            /\ UNCHANGED attempted

\* A redirect without a location counts as success, below 400.
Answered ==
    /\ Asks
    /\ AttemptEnds(Up) \/ AttemptEnds(Failed("http_error"))

\* createSafeLookup: the name resolves to no address at all, or to none that is public.
Unresolved ==
    /\ Asks
    /\ AttemptEnds(Failed("unreachable")) \/ AttemptEnds(Failed("blocked_target"))

\* classifyError: refused, reset, not trusted, timed out; or a location that is no address.
RequestThrows ==
    /\ Asks
    /\ \E type \in {"unreachable", "timeout", "unknown"} : AttemptEnds(Failed(type))

CheckNext ==
    \/ ValidateHop \/ Answered \/ Unresolved \/ RequestThrows
    \/ \E url \in Hops : Redirected(url)

CheckSpec == CheckInit /\ [][CheckNext]_checkVars

-----------------------------------------------------------------------------
CheckTypeOK ==
    /\ check \in Check
    /\ attempted \in Seq(CheckOutcomes)
    /\ elapsed \in Nat

\* LEASE_DURATION_MS in timeouts, without its margin.
LeaseInTimeouts == (MaxRedirects + 1) * CheckAttempts

\* "A lease must comfortably outlast the slowest realistic single check": whatever a site
\* answers, and however each attempt is led from hop to hop, a check spends no more timeouts
\* than its lease was computed from.
CheckFitsItsLease == elapsed <= LeaseInTimeouts

\* checkWebsiteWithRetries: "absorbing a single transient blip", and "deterministic rejections
\* are never retried": a check is up as soon as one attempt was, and down only after it used
\* every attempt or was refused, which is the last thing it heard.
BlipsAreAbsorbed ==
    /\ \A i \in DOMAIN attempted : i < Len(attempted) => attempted[i] # Up /\ Retryable(attempted[i])
    /\ check.pc = "done" /\ attempted[Len(attempted)] # Up =>
           Len(attempted) = CheckAttempts \/ ~Retryable(attempted[Len(attempted)])

CheckKeepsItsWord == CheckFitsItsLease /\ BlipsAreAbsorbed
=============================================================================
