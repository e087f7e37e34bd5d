------------------------------ MODULE SiteCrawl ------------------------------
(***************************************************************************)
(* The crawl of the broken-link monitor: breadth-first from the start of   *)
(* the site, one request at a time, within a number of pages, a depth, a   *)
(* number of link checks and a deadline.  The site may answer anything at  *)
(* any time; the deadline may pass between any two steps.                  *)
(***************************************************************************)
EXTENDS Shared

CONSTANTS
    Urls,              \* normalized URLs
    Start,             \* where the crawl begins
    External,          \* URLs of other sites
    Files,             \* URLs with an extension that is never HTML
    MaxPages,          \* config.maxPages
    QueueFactor,       \* pages that may be queued for each that may be crawled: 4
    MaxDepth,          \* config.maxDepth
    MaxLinksChecked    \* MAX_LINKS_CHECKED

ASSUME SiteCrawlAssumption ==
    /\ Start \in Urls \ External /\ IsFiniteSet(Urls)
    /\ MaxPages \in Nat \ {0} /\ QueueFactor \in Nat \ {0} /\ MaxDepth \in Nat /\ MaxLinksChecked \in Nat

VARIABLES
    disallowed,      \* URLs the robots.txt in force disallows
    checkExternal,   \* config.checkExternal
    crawl,           \* "running" or "done"
    queue,           \* pages to crawl, nearest first
    queued,          \* every page that ever was in the queue
    links,           \* links of the page at hand still to look at
    depth,           \* depth of the page at hand
    checked,         \* URLs whose status is known
    pagesCrawled, linksChecked, truncated,
    brokenCount,     \* broken links counted, by URL
    late,            \* the deadline has passed
    requests,        \* history: requests for each URL, as a page and as a link
    seen             \* history: links on the pages that were fetched

crawlVars == <<disallowed, checkExternal, crawl, queue, queued, links, depth, checked, pagesCrawled,
               linksChecked, truncated, brokenCount, late, requests, seen>>

Entry == [url: Urls, depth: 0 .. MaxDepth]

CrawlInit ==
    /\ disallowed \in SUBSET Urls
    /\ checkExternal \in BOOLEAN
    /\ crawl = "running"
    /\ queue = <<[url |-> Start, depth |-> 0]>>
    /\ queued = {Start}
    /\ links = {}
    /\ depth = 0
    /\ checked = {}
    /\ pagesCrawled = 0 /\ linksChecked = 0 /\ truncated = FALSE
    /\ brokenCount = [u \in Urls |-> 0]
    /\ late = FALSE
    /\ requests = [u \in Urls |-> [page |-> 0, link |-> 0]]
    /\ seen = {}

CrawlSettings == <<disallowed, checkExternal, late>>

\* The limits the crawl looks at before each page and, but for the pages, before each link.
LinksAreUsedUp == linksChecked >= MaxLinksChecked \/ late
PagesAreUsedUp == pagesCrawled >= MaxPages

BetweenPages == crawl = "running" /\ links = {}

\* Mutant: the pages left in the queue are forgotten.
NothingLeft == FALSE

\* What is still in the queue when a limit is reached was not looked at.
LeftOver == queue # <<>>

CrawlEnds ==
    /\ BetweenPages
    /\ queue = <<>> \/ LinksAreUsedUp \/ PagesAreUsedUp
    /\ crawl' = "done"
    /\ truncated' = (truncated \/ LeftOver)
    /\ UNCHANGED <<CrawlSettings, queue, queued, links, depth, checked, pagesCrawled, linksChecked,
                   brokenCount, requests, seen>>

PageWanted == BetweenPages /\ queue # <<>> /\ ~LinksAreUsedUp /\ ~PagesAreUsedUp

SkipPage ==
    /\ PageWanted
    /\ Head(queue).url \in disallowed
    /\ queue' = Tail(queue)
    /\ UNCHANGED <<CrawlSettings, crawl, queued, links, depth, checked, pagesCrawled, linksChecked,
                   truncated, brokenCount, requests, seen>>

\* No answer and a status of 400 or above but 401, 403 and 429 are broken; only HTML
\* yields links.
FetchPage ==
    /\ PageWanted
    /\ LET u == Head(queue).url
       IN  /\ u \notin disallowed
           /\ queue' = Tail(queue)
           /\ depth' = Head(queue).depth
           /\ pagesCrawled' = pagesCrawled + 1
           /\ checked' = checked \cup {u}
           /\ requests' = [requests EXCEPT ![u].page = @ + 1]
           /\ \/ brokenCount' = [brokenCount EXCEPT ![u] = @ + 1] /\ links' = {}
              \/ UNCHANGED brokenCount /\ links' \in SUBSET Urls
    /\ seen' = seen \cup links'
    /\ UNCHANGED <<CrawlSettings, crawl, queued, linksChecked, truncated>>

-----------------------------------------------------------------------------
(* The links of a page, in the order they are on it.                       *)

LinkAtHand(l) == crawl = "running" /\ l \in links /\ ~LinksAreUsedUp

LinkDone(l) == links' = links \ {l} /\ UNCHANGED seen

GiveUpPage ==
    /\ crawl = "running" /\ links # {} /\ LinksAreUsedUp
    /\ truncated' = TRUE
    /\ links' = {}
    /\ UNCHANGED <<CrawlSettings, crawl, queue, queued, depth, checked, pagesCrawled, linksChecked,
                   brokenCount, requests, seen>>

Ignored(l) == l \in External /\ ~checkExternal

PassLink(l) ==
    /\ LinkAtHand(l)
    /\ Ignored(l) \/ l \in checked
    /\ LinkDone(l)
    /\ UNCHANGED <<CrawlSettings, crawl, queue, queued, depth, checked, pagesCrawled, linksChecked,
                   truncated, brokenCount, requests>>

\* A page not met before, within the depth, while the queue takes more.
Queueable(l) ==
    /\ l \notin External \cup Files /\ depth + 1 <= MaxDepth
    /\ l \notin queued /\ Cardinality(queued) < QueueFactor * MaxPages

QueueLink(l) ==
    /\ LinkAtHand(l) /\ ~Ignored(l) /\ l \notin checked
    /\ Queueable(l)
    /\ queued' = queued \cup {l}
    /\ queue' = Append(queue, [url |-> l, depth |-> depth + 1])
    /\ LinkDone(l)
    /\ UNCHANGED <<CrawlSettings, crawl, depth, checked, pagesCrawled, linksChecked, truncated,
                   brokenCount, requests>>

\* HEAD, and GET where HEAD is not implemented.
CheckLink(l) ==
    /\ LinkAtHand(l) /\ ~Ignored(l) /\ l \notin checked
    /\ ~Queueable(l)
    /\ linksChecked' = linksChecked + 1
    /\ checked' = checked \cup {l}
    /\ \E n \in {1, 2} : requests' = [requests EXCEPT ![l].link = @ + n]
    /\ \/ brokenCount' = [brokenCount EXCEPT ![l] = @ + 1]
       \/ UNCHANGED brokenCount
    /\ LinkDone(l)
    /\ UNCHANGED <<CrawlSettings, crawl, queue, queued, depth, pagesCrawled, truncated>>

DeadlinePasses ==
    /\ crawl = "running" /\ ~late
    /\ late' = TRUE
    /\ UNCHANGED <<disallowed, checkExternal, crawl, queue, queued, links, depth, checked,
                   pagesCrawled, linksChecked, truncated, brokenCount, requests, seen>>

CrawlNext ==
    \/ CrawlEnds \/ SkipPage \/ FetchPage \/ GiveUpPage \/ DeadlinePasses
    \/ \E l \in Urls : PassLink(l) \/ QueueLink(l) \/ CheckLink(l)

CrawlSpec == CrawlInit /\ [][CrawlNext]_crawlVars

-----------------------------------------------------------------------------
CrawlTypeOK ==
    /\ disallowed \subseteq Urls /\ checkExternal \in BOOLEAN /\ late \in BOOLEAN
    /\ crawl \in {"running", "done"}
    /\ queue \in Seq(Entry) /\ queued \subseteq Urls
    /\ links \subseteq Urls /\ depth \in 0 .. MaxDepth
    /\ checked \subseteq Urls
    /\ pagesCrawled \in 0 .. MaxPages /\ linksChecked \in 0 .. MaxLinksChecked
    /\ truncated \in BOOLEAN
    /\ brokenCount \in [Urls -> Nat]
    /\ requests \in [Urls -> [page: Nat, link: Nat]]
    /\ seen \subseteq Urls

\* A page is fetched once and a link checked once, with one more request where HEAD is not
\* implemented; a link to another site is never crawled, and not touched at all unless asked
\* for; a page the robots.txt disallows is not crawled.
EachOnce ==
    \A u \in Urls :
        /\ requests[u].page <= 1 /\ requests[u].link <= 2
        /\ u \in External =>
               requests[u].page = 0 /\ (~checkExternal => requests[u].link = 0)
        /\ u \in disallowed => requests[u].page = 0

Waiting(u) == u \in links \/ \E i \in DOMAIN queue : queue[i].url = u

\* Every link on a page that was fetched is known, or still to come, or not to be fetched, or the
\* crawl calls itself truncated.
NothingMissed ==
    \A u \in seen :
        u \in checked \/ Waiting(u) \/ Ignored(u) \/ u \in disallowed \/ truncated

\* crawlSite: however the site links to itself and whenever the deadline passes, the crawl asks
\* for nothing more often than it must, and reports itself complete only when it knows every
\* link on every page it fetched.
CrawlKeepsItsWord ==
    /\ EachOnce
    /\ NothingMissed
    /\ crawl = "done" /\ ~truncated => \A u \in seen : ~Waiting(u)
=============================================================================
