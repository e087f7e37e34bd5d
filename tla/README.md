# Formal models of the SiteOps server

TLA+ models of the server in `src/`, checked with TLC and partly proved with TLAPS. Paths below are
relative to `src/src/` unless they start with `docs/`.

1. [The system](#the-system): inventory, interactions, what is hard
2. [Plan](#plan): modules, order, abstractions, proofs
3. [Modules](#modules): how models correspond to the code
4. [Runs](#runs): what is checked, with which bounds and fairness
5. [Findings](#findings): where the code and its own text disagree
6. [Proofs](#proofs)
7. [What is not shown](#what-is-not-shown)

## The system

SiteOps monitors websites for organizations. An API process serves the dashboard and the public
status pages; one or more worker processes check websites, keep incidents, announce them, and
build reports. **MongoDB is the only shared state.** There is no broker: every queue is a collection
whose documents carry a due time and a lease, claimed with one `findOneAndUpdate` and given back by
an update by id. A worker that dies leaves its lease to expire. Exclusion therefore holds only while
leases outlive the work done under them, and everything that must hold regardless rests on unique
indexes and on updates conditioned on a status.

| Component | State | Operations | Correct when |
| --- | --- | --- | --- |
| Uptime queue (`queues/monitoring.queue.ts`) | `nextCheckAt`, `leaseExpiresAt` of a website | claim the oldest due, release and reschedule | one job per website while leases outlive jobs; a due website is always checked again |
| Uptime job (`jobs/monitoring.job.ts`, `monitoring/result-processor.ts`, `incident-processor.ts`, `anomaly-incident.ts`) | streaks, status and incident references of a website; incidents | check, open / adopt / resolve an outage and a slowdown, save, announce | one open incident per website and category; transitions confirmed by enough checks; references mirror incidents |
| Rules (`monitoring/incident-rules.ts`, `anomaly-detection.ts`) | none | streaks, transitions, displayed status | a slowdown is never opened during an outage |
| Announcements (`monitoring/notification-processor.ts`, `channel-dispatch.ts`) | notified flags of an incident | claim a dispatch, mail the members, queue for the channels | at most once per transition, in order, eventually |
| Websites and incidents API (`services/website.service.ts`, `monitor.service.ts`, `incident.service.ts`) | the same documents | pause, resume, change URL, resolve by hand, delete | safe against the job that is in flight |
| Channel deliveries (`queues/channel-delivery.queue.ts`, `jobs/channel-delivery.job.ts`) | status, attempts, lease of a delivery; failures of a channel | queue once, claim and count, post, settle or reschedule | honest log, bounded retries, settled once and eventually |
| E-mail dispatch (`monitoring/notification-dispatch.ts`) | one notification row per recipient under a dedupe key | resolve recipients, send with retries | no recipient is mailed twice |
| Loops and runtime (`jobs/*-loop.ts`, `jobs/monitoring-runtime.ts`, `worker.ts`) | timer, tick in flight, stopping | tick, `tickNow`, `wake`, `stop`, `runOnce` | stop waits for what runs; nothing woken is forgotten |
| Auxiliary monitors (`queues/monitor.queue.ts`, `jobs/monitor.job.ts`, `monitoring/runners/`) | a monitor per website and type, its incident | claim, run, record, release, run now | as for uptime; a requested run happens |
| Incident analysis (`jobs/incident-analysis.job.ts`, `repositories/incident-analysis.repository.ts`) | `analysis` of an incident, monthly allowance | queue, request, claim, reserve, generate, settle | allowance never exceeded, a request is answered |
| HTTP checker (`monitoring/http-checker.ts`, `check-with-retries.ts`) | the attempts and hops of one check | validate a hop, request, follow, retry | a check fits the lease computed for it; blips are absorbed, refusals are not repeated |
| Crawler (`monitoring/crawler/crawler.ts`) | frontier, budgets, counters of one crawl | fetch a page, queue or check its links | nothing asked twice, nothing missed silently |
| Reports (`jobs/report.job.ts`, `repositories/report.repository.ts`) | reports and schedules under leases | build, mail, schedule the next | built and mailed once per occurrence |
| Billing (`services/billing.service.ts`) | claimed event ids, subscription state | handle a webhook, apply an event | the newest event decides; none is lost |
| Members, invitations, clients (`services/member.service.ts`, `client.service.ts`) | memberships, invitations, clients | invite, accept, change role, remove, archive | an owner remains; seats kept; archived clients have no access |
| Plans (`services/entitlement.service.ts`) | none of its own | count, then create | limits kept, or exceeded only by what the comments accept |
| Status pages (`services/public-status.service.ts`, `public-status-cache.ts`) | in-process cache | render, remember, forget | nothing unpublished is served past its lifetime |
| API keys, rate limiter, audit log, HTTP layer, contracts, templates, configuration | small or none | | see the notes in `PROJECT.json` |

**Interactions.** The uptime loop claims a website and runs a job per claim. A job writes the
incident, then the website, and then announces: for every transition it claims a flag on the
incident, mails the members, and inserts one delivery per subscribed channel; it may also queue an
analysis. The channel loop works off the deliveries. The API writes the same website, incident and
channel documents without looking at leases.

**What is hard.** Every `await` is a point where another worker or the API acts. A job works on the
snapshot of its claim and saves unconditionally. Leases expire under slow jobs (mail is awaited
inside the lease). Processes die between any two writes. Incidents can be closed by hand under a
job that holds a reference to them. `PROJECT.json` lists 39 such hazards at their lines.

## Plan

In the order of what the system exists for:

| # | Modules | Of | State |
| --- | --- | --- | --- |
| 1 | `IncidentRules`, `UptimeMonitoring` | uptime queue, job, incidents, announcements, API writes | checked; types and all safety properties proved |
| 2 | `ChannelDelivery` | publishing, delivery queue and job | checked; types and all safety proved |
| 3 | `PollLoop` | one loop: timer, tick, wake, tickNow, stop | checked; all safety proved |
| 4 | `Billing`, `Memberships`, `StatusPages`, `ApiAdmission` | what answers requests | checked (run `requests`); types and all safety proved |
| 5 | `LeasedWork`, abstract; `IncidentAnalysis`, `ReportQueue` | the queues of analyses and reports, which implement it | checked (run `background`); types, all safety and the safety half of both refinements proved |
| 6 | `MailDispatch`, `MonitorVerdicts`, `AuxMonitor`, `SiteCheck`, `SiteCrawl`, `MonitoringRuntime` | mail, auxiliary monitors, checker, crawler, the process that hosts the loops | checked (run `background`); types and all safety proved |
| 7 | `AlertLedger`, abstract: each announcement goes from due to sent or lost, once, opening before ending | to be implemented by `UptimeMonitoring` | open |
| 8 | the uptime queue and the channel queue as `LeasedWork` | a refinement like those of 5, where retries are unlimited by design | open |

**Composition.** `UptimeMonitoring` extends `IncidentRules`, `AuxMonitor` extends `MonitorVerdicts`. Where
`UptimeMonitoring` publishes, `ChannelDelivery` begins (a delivery document per event, incident and
channel), so the two meet in one insert and are checked apart. `PollLoop` drives any of the queues and
needs of them only that a claim may succeed, find nothing, or fail; `MonitoringRuntime` composes five
such loops, reduced to the ticks that run. `RequestHandling` and `BackgroundWork` put components that
share no state side by side and hold what they promise together; their specification is the
conjunction of their components'. `MCRequests` and `MCBackground` give them constants and let each
behaviour exercise one component. `MCQueues` does so with `UptimeMonitoring`, `ChannelDelivery` and
`PollLoop`, for what they must eventually do.

Proofs to come: `AlertLedger`, and the queues of 8 as far as their promises hold without a bound on retries.

## Modules

`PROJECT.json` maps every definition to the lines it stands for.

### `IncidentRules`

The pure rules of `incident-rules.ts` and the second half of `anomaly-detection.ts`. A streak is
capped at `MaxStreak`, at least every threshold: the rules compare streaks only with thresholds, so
the cap changes no decision. A response time is the two facts the rules look at, whether it scored
as anomalous and whether it reached two seconds.

### `UptimeMonitoring`

| Variable | Code |
| --- | --- |
| `website` | the fields of a website document that a job or a claim reads. `due` is `nextCheckAt <= now`; `lease` is null, in the future, or in the past |
| `incident` | incident documents, with their two notified flags |
| `job` | what one run of `runMonitoringJob` holds in memory: the claimed snapshot until the transition, the result after it, the announcements still to make |
| `edit`, `purge` | requests between two of their own writes: a URL update between read and write, a deletion between website and incidents |
| `dispatched`, `queued`, `analysing` | calls of `dispatchToRecipients`, delivery documents, queued analyses |
| `run`, `interrupted` | history, read by properties only: the outcomes saved in a row, anew from every pause, resume and change of address, and the websites one of whose jobs was cut off |

One action is one database call, or a stretch of code without one another process could see. The
job goes `check → outage → slowdown → save → announce → release`. The insert of an incident that is
already open is two actions, because the code reads the existing one back in a second query which
may find nothing. Mail and channels of one announcement run side by side, outage announcements
before slowdown ones, as the job awaits them. Faults: `Crash` forgets the memory of a job;
`PipelineFails` is a call that throws, which ends in the `finally` block; `AnnouncementFails` is
logged and the others go on; `ReleaseFails` leaves the lease. The release writes by id, so a job
that outlived its lease releases its successor's lease, in the model as in the code.

Two facts about the deployment are constants. `LeaseOutlivesJob` says whether leases expire only
under dead jobs: the configuration makes a lease longer than every check with its retries, but a job
also waits for the database and the mail provider, so both values are checked. `Faults` and
`Operations` name the faults and API calls of an instance.

### `ChannelDelivery`

`channel`, `delivery` and `worker` are the two collections and what a running attempt holds;
`publisher` is the list of channels a publish has read and not yet inserted for; `purge` a channel
deleted before its deliveries. `arrived` (what a receiver accepted) and `disturbed` (deliveries an attempt
at which was cut off or outlived its lease) are history.
The claim counts the attempt, the three settling updates are conditioned on the status alone, and a
receiver may accept a message whose answer is lost, which the sender takes for a failure. `overrun`
lets an attempt outlive its lease; `abandon` ends one at any step, as a crash and a database error
both do.

### `PollLoop`

One `ChannelDeliveryLoop` in its event loop; an action is the code between two awaits. The analysis
loop is the same without `wake`; the uptime, monitor and report loops are the same without `wake`
and without going straight back after a full batch, and leave `timer` set to a timer that has fired,
which only `stop` looks at, to clear it.

| Variable | Code |
| --- | --- |
| `timer`, `inFlight`, `stopping` | the fields of the loop; `timer` is the delay it was armed with |
| `orphans` | armed timers whose handle was overwritten; counted, they never come about |
| `tick` | the running `runTick` promises: what they claimed, and whether the timer started them |
| `caller`, `stopper` | the promise each `tickNow` and `stop` awaits, which is not what `inFlightTick` names later |
| `queue` | documents of the queue: due, or claimed |
| `owed`, `late` | history: messages whose publisher has yet to call `wake`, and messages the poll interval is there for (another process's, a retry, or left over by a failed claim) |
| `dropped` | history: messages whose wake did nothing, because it came during a tick that claims no more or that a `tickNow` started |

A timer may fire at any time after it was armed, and `tickNow` may run beside it, as nothing in the
code keeps the timer from firing during a tick that `tickNow` started.

### Requests: `Shared`, `Billing`, `Memberships`, `StatusPages`, `ApiAdmission`

In all four a request is a record with a program counter, an action is one database call of a
service together with the checks that need none, and a request that is refused is not an action.

| Module | State | What its actions are |
| --- | --- | --- |
| `Billing` | `organization` (plan and billing record), `claims` (`billing_events`), `webhook` (requests in flight); `subscription`, `session`, `events`, `second` are the provider | checkout and portal calls; the provider's own changes, each an event with a time in whole seconds; delivery of any event, again, in any order and to two processes; claim, apply, release after a failure; crashes |
| `Memberships` | `membership`, `invitation`, `client`, `siteClient`, `request` | invite, resend, revoke, accept; change a role, remove, leave, transfer; create, archive, reopen, delete a client and sweep its contacts |
| `StatusPages` | `page`, `txtRecord`, and for each process `pageCache` and `hostCache`; `visit`, `edit` in flight | settings requests write the document, then forget; visits read, render, then remember; verification looks up DNS, then writes; entries expire at any time |
| `ApiAdmission` | `windows` and `lastSweep` of a process, `usage` of a day, `apiKey`, `site`, `call` | limiter by address, key lookup, limiter by key, quota, scope, then count and create |

History variables (`lostEvents`, `raced`, `unswept`, `late`, `forgotten`, `proven`, `admitted`,
`served`, `entitledTo`) are read by properties only. They name, as narrowly as the models allow, the
situations in which the code itself gives no promise; the properties hold outside of them.

### Background work: `LeasedWork` and its implementations

`LeasedWork` is what a queue of the worker promises of a piece of work: offered, taken up a bounded
number of times, and done, failed or withdrawn in the end. `IncidentAnalysis` and `ReportQueue`
implement it (`Analyses`, `Builds`: `INSTANCE LeasedWork WITH ...`), liveness included. The mappings:
an item is `held` while its lease is, `waiting` while it is queued without one; the tries are its
stored `attemptCount`. The bound on tries is the code's maximum plus the faults of the instance,
because an attempt that dies is counted by the claim and compared by the next one only (analyses), or
not before the build has ended (reports). A requested report is mapped as long as no build outlives its
lease; a scheduled one is built without a lease and is not queued work.

| Module | State | What its actions are |
| --- | --- | --- |
| `IncidentAnalysis` | `analysis` of each incident, `aiUsage` by month, `aiPlan` (stored, and cached by the worker), `analyst` (jobs), `asker` | queue on resolution, ask, delete; claim, refuse for free, reserve (update, insert on a miss, update again after a duplicate key), generate, release, settle, retry |
| `ReportQueue` | `report`, `schedule`, `builder` | request, delete, reschedule, switch, delete the schedule; claim and build; claim a due schedule, create, build and mail in one run; settle by id |
| `MailDispatch` | `member`, `record` (`notifications`, unique by alert and recipient), `dispatch` | resolve recipients, create the record or find it there, send with retries, mark; the provider may accept without being heard |
| `MonitorVerdicts` | none | what each runner makes of what it learned: certificates, registrations by RDAP and WHOIS, performance, content, SEO, links |
| `AuxMonitor` | `monitor`, `problem` (incidents of its category), `runner` (jobs), `site`, `lastResult` | switch, run now, pause, close by hand, delete; claim, join the website, run, record, apply, create or adopt, save, notify, release |
| `SiteCheck` | `check`, `attempted`, `elapsed` (in whole timeouts) | validate a hop, request it, follow a redirect, end an attempt, retry or give up |
| `SiteCrawl` | `queue`, `queued`, `checked`, `links` of the page at hand, the counters and the deadline | skip or fetch a page, pass, queue or check each link, give up, end |
| `MonitoringRuntime` | `ticks` and `inFlight` of five loops, `sweep`, `shutdown`, `database`, `post` | timers fire, ticks claim, work and end, sweeps start or join them in order, stop waits, the connection closes, the watchdog fires |

Faults in all of them: a process stops between any two steps, a database call throws where the code
lets it through, and a lease may lapse under its holder. Each such step is counted against the bound of
the instance.

## Runs

| Run | Instance | Checks | Distinct states |
| --- | --- | --- | --- |
| `uptime_contended` | 2 jobs, 2 incidents, every check fails or is anomalous, thresholds 1, leases may expire under live jobs, crashes, manual resolution | types, and references to incidents of the right website and category; one open incident; dispatch at most once; no recovery mail after a manual resolution | 1.9 M |
| `uptime_exclusive` | leases outlive jobs, thresholds 2. Either only outages: 2 jobs, 2 incidents, crashes and errors; pause, resume, resolve, delete. Or undisturbed: 1 job, 3 incidents, slowdowns, plan changes; URL changes, pause, resume | one job per website; confirmed transitions; announcements in order; references mirror incidents; no slowdown is opened during an outage | 1.1 M |
| `queues` | the uptime pipeline, the channel queue and a loop, one at a time | see below | 218 k |
| `requests` | the four modules of requests, one at a time | see below | 1.0 M |
| `background` | the components of background work, one at a time | see below | 177 k |
| `uptime_manual_resolve`, `uptime_silent_slowdown`, `uptime_clean_slate`, `channel_runs_out`, `poll_loop_stop`, `members_last_owner`, `status_own_changes` | small | the seven [findings](#findings) | |

**Bounds.** One website: every write names one website and incidents of it, so websites meet only in the
order of claims, which fairness covers. Two incidents allow one to be opened after another was resolved, or
an outage beside a slowdown; three let an outage lie between two slowdowns. Two jobs are the least that can
overlap, and the proofs below remove the bound for what they cover. `MaxStreak` is no bound on behaviours
(see `IncidentRules`); thresholds of 1 shorten the way to a transition, thresholds of 2 are used where
counting is the question. When both incidents are used nothing more opens; liveness properties say so with
`Exhausted`. `AttemptCap` stops a delivery from being claimed without end; it is above `MaxAttempts`, so
exceeding the limit is visible, and properties that would feel the cap except interrupted deliveries. Two
ticks, one of the timer and one of a caller, are the least that can overlap (with more callers more can,
once `inFlightTick` was cleared under a running tick; the proofs have no such bound); two messages and
batches of one make a full batch leave one behind. The action constraint of `uptime_exclusive`
(`OneDisturbance`) leaves out what has both a fault, a deletion or a manual resolution and detection at
work; what both sides have in common leads from one to the other, and the theorems of `UptimeJobProofs` are
about all of it. Symmetry is used only in runs without temporal properties other than action properties.

**`queues`** exercises one part in each behaviour, chosen by `focus` in the initial state.

| Focus | Instance | Checks |
| --- | --- | --- |
| `uptime` | 1 website, 1 job, 2 incidents, thresholds 1, crashes and errors, pause and resume | `WebsitesAreChecked`: a website is checked again and again, whatever process held its lease and died, unless it is paused or deleted. `OutageIsAnnounced`: both ends of an outage are dispatched |
| `channels` | 1 delivery, 2 workers, 3 attempts, abandoned and overrunning attempts, channel switched and deleted | types; `HonestLog`; `AttemptsAccounted`; `FailuresCounted`; `SettledOnce`; `EventuallySettled` |
| `loop` | 2 ticks, 1 `tickNow`, 2 messages, batches of 1, failing claims, stop | types; `SoleDriver`; `Prompt`; `StopIsFinal`; `EventuallyClaimed`; `CallsReturn` |

Its liveness properties are written as recurrences, `[]<>P` rather than `Q ~> P`: that a website is attended
to again and again, that no announcement stays unsent for ever, that no delivery stays pending and no
message queued.

**`requests`** does the same for what answers requests.

| Focus | Instance | Checks |
| --- | --- | --- |
| `billing` | 2 webhook requests, 3 events within 2 seconds, 1 subscription, 1 paid plan, 1 crash or failed call | `AcknowledgedTakesEffect`: what the provider was told is handled has taken effect. `NewestEventDecides`: the newest handled event decides plan, status and subscription |
| `staff` | 3 users, 2 requests, 3 seats | `OwnerRemains`: the last owner is only ever taken away by a request whose count of the owners overlapped another's; that it can be is finding 6 |
| `clients` | 1 client, the same users and requests, 1 website | `ArchivedClientIsClosed`, `NothingOutlivesDeletion` |
| a page | 1 page with both routes, 1 visit, 1 settings request at a time, 3 versions | `OwnChangesShow`: what a process caches is not older than its own last change, unless it was being rendered when the change was made; that exception is finding 7 |
| `domains` | 2 pages, 1 domain, 1 visit, 2 settings requests | `RoutesAreProven`: a host routes to a page only after DNS proved it for that page |
| `limits` | 2 calls, 2 keys, 3 URLs, limits 1 and 2 | `OvershootIsBounded`: what counting before writing lets through is bounded by the calls in flight |
| `budgets` | windows and days of 2 ticks, 4 ticks, key limit 2, address limit 3, one key | `QuotaIsExact`: the daily quota is never exceeded. `BudgetAtMostDoubled`: a key gets at most twice its budget within a window's length, which a window that is a tick too short would break |

Two requests are the least that overlap, and every promise here is about a pair of them or about one
and the world. Requests, pages, keys, and the users other than the founder are interchangeable, hence the
symmetry; the run has no temporal property but one on steps.

**`background`** does the same for background work. What a focus leaves out is said in
`MCBackground` (`OnlyMonitor`, ...); it narrows who does what beside which fault.
Every action, and every disjunct of `Next`, still occurs.

| Focus | Instance | Checks |
| --- | --- | --- |
| `analysis` | 1 incident, 2 workers, 2 attempts, asked for once, 1 fault, or 1 change of plan and deletion | `ImplementsLeasedWork` |
| `allowance` | 2 incidents, 2 workers, allowance 1 of 2, 2 months | `AllowanceHolds`: the counter of a month is what was generated, is under way, or was cut off by a fault, and stays within the allowance |
| `reports` | 3 reports, 2 builders, 2 attempts, 1 fault | `ImplementsLeasedWork` |
| `schedule` | 2 occurrences, 1 recipient, 1 fault, rescheduled, switched, deleted | `MailedOnce`: nobody gets an occurrence twice but for a run that was cut off |
| `mail` | 2 members, 2 dispatches of one alert, 2 attempts, 1 fault | `MailedOnce`: nobody gets an alert twice but for an answer that was not heard |
| `monitor` | one monitor of each type, 2 jobs, 2 incidents, 1 fault | `MonitorsTellTheTruth` |
| `check` | 2 attempts, 2 redirects, 4 kinds of hop | `ProbesKeepTheirWord`: a check fits its lease and absorbs blips |
| `crawl` | 5 URLs, 3 pages, depth 2, 1 link to check, every link structure | `ProbesKeepTheirWord`: asked once, and complete unless it says "truncated" |
| `host`, `sweeps` | 5 loops, 1 or 2 sweeps, 2 deliveries in batches of 2, shutdown and watchdog | `RuntimeKeepsOrder` |

`QueueFactor` is 4 in the code and 1 here, so that the queue of a small site fills up. The thresholds of
`MonitorVerdicts` are the smallest that leave a value on either side; its operators are evaluated over
all outcomes. Fairness: the two queues go on polling, a job that runs goes on to its next step, due
times and leases pass; faults are finitely many. A claim is weakly fair for the queue as a whole, not for
each item.

**Deadlock** is checked in `uptime_contended`. It is not in `uptime_exclusive`, where deleting every website
ends the system, in `queues`, where a stopped loop ends, and in `requests` and `background`, whose
instances end when their bounded requests, events or versions are used up; the violation runs stop at the first
violation.

**Fairness.** `WF` of a job's (worker's) own steps: a live process goes on; crashes remain possible
at any step. `WF` of the due time and of lease expiry: clocks advance. The specifications ask for `SF` of
claiming each website (delivery): `claimOne` sorts by the oldest due time, so a document that is again and again
claimable, while the loop ticks, is not passed over for ever. `queues` has one website and one delivery and
makes do with `WF` of that claim. For `PollLoop`: `WF` of timers and of each
tick's steps, since jobs end (every request has a timeout), and `SF` of claiming each message, which
says both that claims take the oldest first and that the database does not fail for ever. No
fairness is assumed of people, of receivers' answers or of faults.

**Properties and history.** `ConfirmedTransitions` compares a job's decision with `run`, which
counts the saved outcomes independently of the stored streaks. A pause, a resume or a change of address starts
it anew, unless a job works on the website: what such a job does to the clean slate is finding 5.
`interrupted` marks websites with a job that was cut off: after that the code itself promises less
(a crash after the incident was opened and before the save leaves the reference unset until the
next check adopts it).

## Findings

1. **An incident closed by hand is still reported as open** (`uptime_manual_resolve`). The ongoing
   branch of `applyIncidentTransition` returns the snapshot's reference whether or not the incident
   is still open. Its doc says "The website's open incident after this check, or null if none is
   open." The website stays `down`, and an outage that goes on gets no new incident, until recovery
   is confirmed. The slowdown counterpart checks, and lets go.
2. **A slowdown that is never announced** (`uptime_silent_slowdown`). After a slowdown was closed by
   hand, an anomalous check lets go of the reference and leaves the streak. A failed check then
   opens the next slowdown, without a score, and the job sends nothing without one. `docs/MONITORING.md`
   promises one alert per anomaly incident.
3. **A crashing delivery does not run out** (`channel_runs_out`). Attempts are counted at the claim
   and compared only after a retryable answer, so an attempt that never gets there is repeated
   without limit. `docs/MONITORING.md` says "even a delivery that crashes the process runs out".
4. **`stop()` returns while a tick runs** (`poll_loop_stop`). `tickNow` leaves the timer armed. When
   it fires during that tick, a second tick runs and takes over `inFlightTick`; whichever ends first
   clears it, and a `stop()` called then waits for nothing while the other is still working. Its doc
   says it "waits for any in-progress one to finish", and the worker disconnects the database next.
5. **A streak from before the pause comes back** (`uptime_clean_slate`). A job computes the streaks from
   the document it claimed and saves them by id. If the website was paused and resumed in between, the
   save puts back the old streak, one longer, and the same job may confirm an outage with it.
   `monitor.service.ts:48-50` says that "Resuming starts from a clean slate rather than continuing a failure
   streak from before the pause", because counting those checks "could confirm an outage the moment monitoring
   resumes"; `website.service.ts:215` says it of a change of address. `ConfirmedTransitions` holds beside it:
   checks are never made up, but some may be older than the pause.
6. **Two owners who leave together leave none** (`members_last_owner`). `assertNotLastOwner` counts; the
   write comes later and does not count again. Its doc says "An organization must always keep at least one
   owner" and calls the alternative unrecoverable. `OwnerRemains` says how far the check goes: a request
   that counted alone never takes the last owner away.
7. **A change does not show at once** (`status_own_changes`). A render that is under way while its page is
   changed, or unpublished, through the same process remembers what it read after the change was forgotten,
   for a whole lifetime of the entry. `public-status-cache.ts:17-18` says "Changes made through this process
   are forgotten immediately rather than waiting it out." `OwnChangesShow` says that this is the only way.

### Smaller disagreements, without a run of their own

The models show each of these; the properties except them by name.

*Loops.* A wake during a tick that has stopped claiming, or that a `tickNow` started and which no immediate timer
follows, does nothing, and the message it was for may wait for the poll interval (`dropped`).
`channel-delivery-loop.ts:28` says that "polling is only the backstop for retries and for another
process's work", and line 58 that "A tick already running will pick up new work on its next claim", where there may
be none. `Prompt` says that no other message waits, `EventuallyClaimed` that these do not wait for ever.

*Requests.* `entitlement.service.ts` calls "one extra row" the worst case of counting before writing; with
k requests in flight it is k - 1 (`OvershootIsBounded`). `membership.repository.ts:144` says that seats are
re-checked on acceptance, and acceptance does not. `updateMemberRoleSchema` admits the role "client" without
a client. A repeated archiving skips the sweep because the stored status is already "archived", so a crash
between the two writes leaves contacts in (`unswept`); an invitation still pending admits a contact
afterwards, as does an acceptance in flight (`late`); a crash inside an acceptance leaves its link usable by
a member who was removed since. A crash between the claim of a webhook event and its application loses the
event; a duplicate is acknowledged while the first delivery may still fail (`lostEvents`); events of the
same second overwrite each other in the order they arrive; two checkouts of different plans leave two live
subscriptions.

*Background.* A "run now" asked for while the monitor runs is overwritten by that run's release
(`monitor.queue.ts:140`), where `monitor-config.service.ts:158` says "The run itself still happens on the
worker". A report's attempts are not compared before a build, so one that kills its worker is built again
without limit; only faults count against `LeasedWork`'s bound. Rescheduling during a run is overwritten when
the run ends, and an occurrence that falls due during one can be swallowed. A worker that outlived its lease
settles an analysis that was requested again. A reservation is lost to its month when the worker dies
holding it. A mail record stays "pending" for good after a crash between its insert and its settling. The
comment at `monitor.repository.ts:92` does not say that enabling makes a monitor due at once. A crash
between the insert of a monitor's incident and the save leaves the incident open for good if the next run
passes (`adrift`); an adopted incident keeps its severity until the next problem, and is never announced if
its opener was cut off. An RDAP answer without a date hides the date WHOIS has. A group of robots.txt that
holds only `Crawl-delay` is ignored, and link checks do not ask robots.txt. `crawler.ts:199` says "so
nothing is fetched twice": a page met again while it waits in the queue is asked for by HEAD and later
fetched, and counted twice if broken. The content baseline is lost after a run that ended in an error. A
sweep that joined a channel tick past its claims, or one with a full batch, returns with messages still
queued (`excused`). In an API process that hosts the loops, a tick its loop lost sight of may run past the
closing of the connection (`overlapped`); in a worker none does. `contracts/domain/check.ts:42-45` says that
a 3xx that reaches `isSuccessfulHttpStatus` means the redirects were used up; those end as "down" before,
and what reaches it is a redirect without a location, which counts as up.

## Proofs

Eight modules hold the theorems. Each is about a component's own specification (its `Init` and every
step of its `Next`): the proofs do not depend on an instance, a focus or an action constraint of an `MC`
module.

| Module | About | Properties stated for all constants |
| --- | --- | --- |
| `UptimeMonitoringProofs` | uptime pipeline, whatever leases expire | types, `OneOpenIncident`, `DispatchOnce`, `ClosedByHandIsNotAnnounced` |
| `UptimeJobProofs` | the same; all but the first if leases outlive jobs | `WellFormed`, `ExclusiveJob`, `ConfirmedTransitions`, `AnnouncedInOrder`, `MirrorsIncidents`, `NoSlowdownDuringOutage` |
| `ChannelDeliveryProofs` | channel deliveries | types, `HonestLog`, `SettledOnce`, `AttemptsAccounted`, `FailuresCounted` |
| `PollLoopProofs` | one loop | types, `SoleDriver`, `StopIsFinal`, `Prompt` |
| `AccountProofs` | `Billing`, `Memberships` | types, `AcknowledgedTakesEffect`, `NewestEventDecides`, `OwnerRemains`, `ArchivedClientIsClosed`, `NothingOutlivesDeletion` |
| `PublicAccessProofs` | `StatusPages`, `ApiAdmission`, all of `RequestHandling` | `RequestsTypeOK`, `OwnChangesShow`, `RoutesAreProven`, `OvershootIsBounded`, `QuotaIsExact`, `BudgetAtMostDoubled` |
| `WorkQueueProofs` | `IncidentAnalysis`, `ReportQueue` | `AllowanceHolds`, types, the safety halves of `Analyses` and `Builds` |
| `BackgroundProofs` | `SiteCheck`, `MailDispatch`, `MonitoringRuntime`, `AuxMonitor`, `SiteCrawl`, all of `BackgroundWork` | `BackgroundTypeOK`, `MailedOnce`, `MonitorsTellTheTruth`, `ProbesKeepTheirWord`, `RuntimeKeepsOrder` |

**Assumptions.** The constants satisfy the named assumptions of their modules. Besides the ranges of numbers
they say that `None` and the tags that share a variable with identifiers ("availability", "timer",
"uncached", "address", "website") are no identifiers, and that the sets whose members are counted
(`ChannelEvents`, `Calls`, `Analysts`, `Builders`, `Urls`) are finite. Some theorems assume a fact about the
deployment, in their statement: those of `UptimeJobProofs` but `WellFormedAlways` `LeaseOutlivesJob`, and
`MirrorsIncidentsAlways` also that nobody resolves incidents by hand; without it the finding below would
contradict it, as a job holds on to what a person closed.

### The uptime pipeline

`TypeCorrectness`: the invariant is inductive. Its proof splits `TypeOK` into the documents, the jobs
and the ledgers, has a lemma for replacing one job (`JobReplaced`) and one step per action; the rules
have typing lemmas of their own. The next three hold whatever overlaps:

- `OneOpenIncidentAlways`. `OneOpenIncident` is inductive relative to the types: only `OpenOutage`
  and `OpenSlowdown` make an incident open, both where the unique index finds none of the category,
  and no other action reopens or moves one.
- `DispatchOnceAlways`. `DispatchOnce` alone is not inductive, as a job about to send knows nothing
  of the counter. `DispatchInv` adds that an unused incident carries no flag; that once an
  announcement was dispatched its flag is set and no job holds it as a `send` task; that a job
  holding one implies the flag, and that only one job holds it. The flag is claimed and the task
  created in one step, and the task is gone when the counter moves.
- `ClosedByHandIsNotAnnouncedAlways`. `Silent` says that of an incident which is not open yet, still
  open, or closed by hand, no end was sent and no job has one to send: a job learns of an end only from
  the update that resolves the incident, and that update finds open ones only. `ClosedFirst` says that
  what a person closed is closed, so opening cannot lift the claim.

`WellFormedAlways` adds to the types that references are to incidents of the right website and category
(`ReferencesFit`): an insert that lost to the index adopts what the query by website and category finds, and
nothing moves an incident to another website or category.

With `LeaseOutlivesJob`:

- `ExclusiveJobAlways`. `ExclusiveJob` is inductive with `HeldByWorker`: the website a job works on is
  held or deleted. A claim needs a lease that is not held, only the job's own release and its crash give
  one up, and with the assumption no other step does. The four theorems below rest on it.
- `ConfirmedTransitionsAlways`. `ConfirmedInv` compares the streaks a website stores, and those a job
  carries, with the run of outcomes (`Earned`): they never count what did not happen, though pauses, edits
  and cut-off jobs make them forget. Where a job has decided, the run justifies the decision.
  `StagesInv`, shared by the proofs that follow, says what a job cannot hold yet at each place.
- `AnnouncedInOrderAlways`. `OrderInv`: while some job has the beginning of an incident to announce, no job
  has its end to announce and none was sent, because that job still holds the lease under which the
  incident was opened. `RefsInv` is needed for it: references are to incidents of the right website and category.
- `MirrorsIncidentsAlways`. At rest the references of a website cover its open incidents and are to
  open ones (`Matches`); the job that works on it matches until it saves (`HoldsOK`), and with what
  it holds it finds nothing unexpected, so it never stands at the adoption of an incident unless a job
  was cut off before. `StatusInv` ties the shown status to the references.
- `NoSlowdownDuringOutageAlways` follows: a job that opens a slowdown has no outage, and what it holds matches.

The rest of the proof is organised by what a step does to the job that takes it: `TransitionEffects`,
`CheckEffects`, `SaveEffects` and `TaskEffects` state once what the actions of a place change, and
the invariants are proved from these lemmas.

### Channel deliveries

None of it assumes anything of leases. `HonestLog` needs `HonestAttempts`: an attempt about to write
"delivered" was accepted, and `arrived` only grows. `SettledOnce` needs `LeasedIsPending`: a lease never
outlives the pending status, so neither a claim nor the expiry of a lease can touch a settled document,
and the condition on the status does the rest.

`AttemptsAccounted` and `FailuresCounted` speak of deliveries that were not interrupted. A channel that is
deleted takes its deliveries along, in a second write; until then a worker may hold an attempt whose
document is gone, and a publish that read the channel before may insert a new document under the same
key. `AttemptsInv` therefore tells two situations apart: while the channel exists or its deliveries are
still to be deleted, at most one worker holds the delivery and the lease and the count are its own (`Sole`);
afterwards
a document inserted late is met by at most one attempt at its predecessor that may still ask for a retry,
and between them they count at most two, which the limit allows wherever a retry can happen at all
(`Leftover`). `FailuresInv` counts only
failures that their worker has reported to the channel.

### Loops and the process that hosts them

`PollLoopProofs` proves all safety properties of the loop, for any number of ticks, callers and messages and
any batch size. The types need `HasRoom` (a tick that is still claiming has claimed fewer than a batch).
`SoleDriverAlways` is inductive together with `StoppedHasNoTimer`: only a firing timer starts a timed tick,
it is gone by then, and only that tick arms the next; a wake replaces an armed timer and never adds one,
which is why `wake` must do nothing on a loop without a timer. `PromptAlways` rests on it: for a message
that is not late, and whose wake was not dropped, either the armed timer is immediate or the one timed tick
will claim again. `StopIsFinalAlways` uses that a stopped loop has no timer.

`RuntimeKeepsOrderAlways` (`BackgroundProofs`) is about five such loops, any number of sweeps and any
batch. A loop loses sight of a tick only if another ran beside it (`TicksInSight`); a worker never has two,
as it takes no sweeps (`WorkerOnlyTicks`). Whatever a loop has in sight when it is told to stop, `stop`
waits for, and nothing starts afterwards (`StopWaits`); so the connection outlives it. For a sweep,
`ClaimsAhead` says that while something it queued waits, a channel tick it waits for is still claiming.

### Requests

- *Billing.* `BillingShape` adds to the types that two handlers never hold the claim of one event, that
  customers are those of the checkouts, and what each handler has read. `EffectsInv`: a claimed or
  acknowledged event that was not lost is under way or has its effect, and plan, status and
  subscription are always those of one event, the one whose time the organization stores (`LastIsFrom`).
  Times compare with `>=`, as the filter of the update does; `NewestEventDecides` therefore asks for an
  event strictly newer than every other.
- *Members.* `OwnerRemains` follows from an invariant that names the owner: `SafeOwner` says that a request which
  has counted and is about to take an owner away, and is not among those that counted along with another
  (`raced`), leaves an owner whom no request threatens. `ClosedClients` adds to the two properties
  about clients how far each deletion has come (`DeletionUnderWay`).
- *Status pages.* `RendersAreFresh`: a render under way that was not crossed by an invalidation has read a
  document at least as new as the process has forgotten; `DocumentsAreNewest` that documents are newer than
  both. `LookupsAreProven` extends the claim about routes to what a verification or a visit holds between
  its read and its write.
- *Admission.* `OvershootInv`: with a limit in force, what exists and what is about to be inserted after a count
  exceed it by less than the number of calls. `BudgetShape` describes the times at which a process let a
  key pass against its present window: the last ones may lie in the window, as many as the limit before them
  are older than its beginning, and the rest older by a whole window; so no sweep of the limiter and no
  end of a window lets more than two budgets fall into one window's length.

### Background work

`WorkQueueProofs`, for any incidents, jobs, months, allowances and faults:

- `AllowanceHoldsAlways`. `Shapes` types the state and says what the place of a job implies
  (`WellPlaced`), above all that a job which reserves saw a plan with an allowance: the insert of a
  month's counter then stays within the largest one. With it `AllowanceHolds` is inductive. A
  reservation and its release move one job into or out of `ReservedIn` of one month, and its
  cardinality moves with the counter; the release names the month of the reservation.
- `AnalysisTypesAlways`. That stored attempts are bounded at all is not local, because claims do not
  compare them. `QueueInv` accounts for them: as many jobs hold one analysis as there were faults, and one
  more; and past the planned attempts, each claim, each job that may still give the analysis back and
  each lease nobody keeps has its own fault.
- `AnalysesAreLeasedWork`, the safety half of the refinement: initial states map to initial states,
  and under `QueueInv` every step to a step of `LeasedWork` on one incident, or to none. Queueing is `Offer`;
  a claim is `Claim`, within the tries by the bound above; a retry and a lease that runs out are
  `GiveBack`; settling and deletion are `Settle`. The liveness half, `Served`, stays with TLC.

and for any reports, builds, recipients, occurrences and faults:

- `ReportInvAlways`, from which `MailedOnceAlways` has the part about reports. `MailsPaidFor` adds up, for one
  occurrence and one recipient, the mails that were sent, the runs that may still send one and one more while
  a run may still start (`MayStart`): the sum is at most one and the faults that cut off a run. Starting moves
  one from the last summand to the second, mailing from the second to the first, and a lease that
  runs out under a run allows another start but is a fault. `StaysPaid` holds the arithmetic once for
  all steps that add no run.
- `ReportsAreLeasedWork`, the safety half of `Builds`. `BuiltInOrder`: a report no build outlived its lease on
  is held by one process at most, under the lease, and a process with tries left holds one that has tries
  left; so a try beyond the last one planned needs a fault of its own. A report a run of a schedule builds is in
  nobody's queue as far as `LeasedWork` sees it, as it is built without a lease.

`BackgroundProofs`:

- *Mail.* `AlertMailedOnceAlways` is the part of `MailedOnce` about alerts. `MailInv` follows a recipient
  through the record and the dispatch that owns it: the unique key lets one dispatch at most hold a recipient
  (`OneHolder`), its attempts bound what was sent, and what was accepted is at most what was not heard and
  one more (`CountsAgree`, `HistoryFits`). No bound on crashes is used.
- *A check.* The time elapsed is at most one timeout for every hop of the attempts that ended and every
  redirect followed in the present one (`WithinBudget`), which is what `monitoring-runtime.ts` computes a lease
  from; lemma `Budgets` holds its only multiplication. `BlipsOnly` is that every attempt but the last may be
  repeated.
- *A crawl.* `QueueInOrder`: the queue holds a page once, none that was fetched and none of another site. With it
  `CrawlKeepsItsWord` is inductive; `Dequeued` and `Enqueued` say what the two ends of the queue do to it.
- *Auxiliary monitors.* `MonitorInv` has two parts. `Announced` holds whatever overlaps: one open incident, and
  every transition a run made is told once the run is past its announcement. `TruthInv` holds while no run has
  outlived its lease: one run at a time, which knows the monitor as it is until it saves (`OneRun`); what it
  found and opened bears on the incidents as its verdict says (`FoundOut`); and what the monitor shows is true
  (`TruthShown`) but while a run is between its incident and its save, or after one was cut off there
  (`adrift`). That last clause is where a crash between two writes goes.

`MailedOnceAlways`, `ProbesKeepTheirWordAlways` and `BackgroundTypesAlways` combine these.

## What is not shown

- Only model-checked: liveness, that is `WebsitesAreChecked`, `OutageIsAnnounced`, `EventuallySettled`,
  `EventuallyClaimed`, `CallsReturn` and the half of `ImplementsLeasedWork` that says that work is served in
  the end (fairness and `ENABLED` are outside what the prover handles); and the properties the code violates,
  which TLC refutes. Every invariant a passing run checks is proved.
- The arithmetic of the anomaly baseline and message formats are abstracted to their outcomes. So
  is a check inside `UptimeMonitoring`; `SiteCheck` has its attempts and hops.
- Time is "due" and "expired" in the queues. Only `SiteCheck` (whole timeouts) and `ApiAdmission` (ticks of a
  window) count it.
- Each database call is atomic and sees the latest state, as a call on one document with the
  primary does.
- `PROJECT.json` gives the reason for each component not modelled yet.
