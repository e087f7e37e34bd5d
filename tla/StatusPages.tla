----------------------------- MODULE StatusPages -----------------------------
(***************************************************************************)
(* Public status pages: the documents, custom domains and their proof by   *)
(* DNS, and the cache each API process keeps of rendered pages and of the  *)
(* page a host routes to.                                                  *)
(*                                                                         *)
(* A request of the settings writes the document and then forgets what its *)
(* own process cached; a visit reads, renders and then remembers.  Any of  *)
(* the two may come between the other's steps.  The contents of a page are *)
(* its version; every entry may expire at any moment after it was made.    *)
(***************************************************************************)
EXTENDS Shared

CONSTANTS
    Pages,          \* status page documents
    Domains,        \* custom domains
    Processes,      \* API processes, each with a cache of its own
    Visits,         \* public requests that can be in flight
    PageRequests,   \* settings requests that can be in flight
    MaxVersion      \* bound: changes of a page

ASSUME StatusPageAssumption ==
    /\ None \notin Pages \cup Domains
    /\ "uncached" \notin Pages
    /\ MaxVersion \in Nat \ {0}

VARIABLES
    page,          \* status_pages
    entitled,      \* whether the plan includes status pages and domains
    txtRecord,     \* DNS: the claims whose verification record is published
    pageCache,     \* rendered pages, by process, page and route
    hostCache,     \* the page a host routes to, by process and domain
    visit,         \* visits in flight
    edit,          \* settings requests in flight
    forgotten,     \* history: newest version a process wrote and then forgot
    proven         \* history: the domains DNS has proven for each page

statusVars == <<page, entitled, txtRecord, pageCache, hostCache, visit, edit,
                forgotten, proven>>

Routes == {"slug", "domain"}

Page == [live: BOOLEAN, published: BOOLEAN, version: 1 .. MaxVersion,
         domain: Domains \cup {None}, verified: BOOLEAN]

\* "crossed": the page was forgotten while the rendering was under way.
NoEntry == [version |-> 0, crossed |-> FALSE]
Entry == [version: 0 .. MaxVersion, crossed: BOOLEAN]

Uncached == "uncached"

Visit == [pc: {"idle", "render", "resolve"}, process: Processes \cup {None},
          page: Pages \cup {None}, route: Routes, domain: Domains \cup {None},
          version: 0 .. MaxVersion, crossed: BOOLEAN]

IdleVisit == [pc |-> "idle", process |-> None, page |-> None, route |-> "slug",
              domain |-> None, version |-> 0, crossed |-> FALSE]

\* "domain" is the domain to write or to verify, "held" the one that was read.
Edit == [op: {"idle", "update", "delete", "claim", "verify", "clear"},
         pc: {"write", "forget"}, process: Processes \cup {None},
         page: Pages \cup {None}, domain: Domains \cup {None},
         held: Domains \cup {None}, version: 0 .. MaxVersion]

IdleEdit == [op |-> "idle", pc |-> "write", process |-> None, page |-> None,
             domain |-> None, held |-> None, version |-> 0]

StatusInit ==
    /\ page = [p \in Pages |-> [live |-> TRUE, published |-> TRUE, version |-> 1,
                                domain |-> None, verified |-> FALSE]]
    /\ entitled = TRUE
    /\ txtRecord = {}
    /\ pageCache = [a \in Processes |-> [p \in Pages |-> [k \in Routes |-> NoEntry]]]
    /\ hostCache = [a \in Processes |-> [d \in Domains |-> Uncached]]
    /\ visit = [v \in Visits |-> IdleVisit]
    /\ edit = [r \in PageRequests |-> IdleEdit]
    /\ forgotten = [a \in Processes |-> [p \in Pages |-> 0]]
    /\ proven = [p \in Pages |-> {}]

Holder(d) == {p \in Pages : page[p].live /\ page[p].domain = d /\ page[p].verified}

-----------------------------------------------------------------------------
(* Visits.                                                                 *)

stored == <<page, entitled, txtRecord>>
ghosts == <<forgotten, proven>>

\* A page that is not cached is read, with the plan of its organization.
BeginRender(v, a, p, route) ==
    /\ visit[v].pc = "idle"
    /\ pageCache[a][p][route] = NoEntry
    /\ route = "domain" => \E d \in Domains : hostCache[a][d] = p
    /\ page[p].live /\ page[p].published /\ entitled
    /\ visit' = [visit EXCEPT ![v] = [IdleVisit EXCEPT !.pc = "render", !.process = a,
                     !.page = p, !.route = route, !.version = page[p].version]]
    /\ UNCHANGED <<stored, pageCache, hostCache, edit, ghosts>>

RememberPage(v) ==
    LET it == visit[v] IN
    /\ it.pc = "render"
    /\ pageCache' = [pageCache EXCEPT ![it.process][it.page][it.route] =
                        [version |-> it.version, crossed |-> it.crossed]]
    /\ visit' = [visit EXCEPT ![v] = IdleVisit]
    /\ UNCHANGED <<stored, hostCache, edit, ghosts>>

\* resolve: findIdByVerifiedDomain, then rememberHost, also when no page has it.
BeginResolve(v, a, d) ==
    /\ visit[v].pc = "idle"
    /\ hostCache[a][d] = Uncached
    /\ visit' = [visit EXCEPT ![v] = [IdleVisit EXCEPT !.pc = "resolve", !.process = a,
                     !.domain = d,
                     !.page = IF Holder(d) = {} THEN None ELSE CHOOSE p \in Holder(d) : TRUE]]
    /\ UNCHANGED <<stored, pageCache, hostCache, edit, ghosts>>

RememberHost(v) ==
    LET it == visit[v] IN
    /\ it.pc = "resolve"
    /\ hostCache' = [hostCache EXCEPT ![it.process][it.domain] = it.page]
    /\ visit' = [visit EXCEPT ![v] = IdleVisit]
    /\ UNCHANGED <<stored, pageCache, edit, ghosts>>

\* The time to live of an entry is over.
ExpirePage(a, p, route) ==
    /\ pageCache[a][p][route] # NoEntry
    /\ pageCache' = [pageCache EXCEPT ![a][p][route] = NoEntry]
    /\ UNCHANGED <<stored, hostCache, visit, edit, ghosts>>

ExpireHost(a, d) ==
    /\ hostCache[a][d] # Uncached
    /\ hostCache' = [hostCache EXCEPT ![a][d] = Uncached]
    /\ UNCHANGED <<stored, pageCache, visit, edit, ghosts>>

-----------------------------------------------------------------------------
(* Settings.  requirePage reads the document; the checks that need other    *)
(* reads are made then as well.                                             *)

BeginEdit(r, a, p, op, d) ==
    /\ edit[r].op = "idle"
    /\ page[p].live
    /\ edit' = [edit EXCEPT ![r] = [IdleEdit EXCEPT !.op = op, !.process = a, !.page = p,
                                        !.domain = d, !.held = page[p].domain]]
    /\ UNCHANGED <<stored, pageCache, hostCache, visit, ghosts>>

BeginUpdate(r, a, p) == BeginEdit(r, a, p, "update", None)

BeginDelete(r, a, p) == BeginEdit(r, a, p, "delete", None)

\* setCustomDomain, for a domain the page does not hold and nobody has verified.
BeginClaim(r, a, p, d) ==
    /\ entitled /\ page[p].domain # d /\ Holder(d) = {}
    /\ BeginEdit(r, a, p, "claim", d)

\* verifyCustomDomain, when the TXT record of the claim is there.
BeginVerify(r, a, p) ==
    LET d == page[p].domain IN
    /\ entitled /\ d # None /\ ~page[p].verified /\ <<p, d>> \in txtRecord
    /\ edit[r].op = "idle" /\ page[p].live
    /\ edit' = [edit EXCEPT ![r] = [IdleEdit EXCEPT !.op = "verify", !.process = a, !.page = p,
                                        !.domain = d, !.held = d]]
    /\ proven' = [proven EXCEPT ![p] = @ \cup {d}]
    /\ UNCHANGED <<stored, pageCache, hostCache, visit, forgotten>>

BeginClear(r, a, p) == page[p].domain # None /\ BeginEdit(r, a, p, "clear", None)

Written(r, p, doc) ==
    /\ page' = [page EXCEPT ![p] = doc]
    /\ edit' = [edit EXCEPT ![r].pc = "forget", ![r].version = doc.version]

\* The document is gone, or the unique index or the condition refuses the write.
Refused(r) == edit' = [edit EXCEPT ![r] = IdleEdit] /\ UNCHANGED page

\* An update changes the contents or the publication; unpublishing alone needs
\* no entitlement.
WriteUpdate(r, published) ==
    LET p == edit[r].page IN
    /\ edit[r].op = "update" /\ edit[r].pc = "write"
    /\ entitled \/ ~published
    /\ page[p].version < MaxVersion
    /\ IF page[p].live
       THEN Written(r, p, [page[p] EXCEPT !.version = @ + 1, !.published = published])
       ELSE Refused(r)
    /\ UNCHANGED <<entitled, txtRecord, pageCache, hostCache, visit, ghosts>>

WriteDelete(r) ==
    LET p == edit[r].page IN
    /\ edit[r].op = "delete" /\ edit[r].pc = "write"
    /\ IF page[p].live
       THEN /\ page' = [page EXCEPT ![p].live = FALSE]
            /\ edit' = [edit EXCEPT ![r].pc = "forget", ![r].version = MaxVersion,
                                    ![r].held = page[p].domain]
       ELSE Refused(r)
    /\ UNCHANGED <<entitled, txtRecord, pageCache, hostCache, visit, ghosts>>

\* A claim carries a new token, which no record shows yet.
WriteClaim(r) ==
    LET p == edit[r].page IN
    /\ edit[r].op = "claim" /\ edit[r].pc = "write"
    /\ IF page[p].live
       THEN Written(r, p, [page[p] EXCEPT !.domain = edit[r].domain, !.verified = FALSE])
       ELSE Refused(r)
    /\ txtRecord' = txtRecord \ {<<p, edit[r].domain>>}
    /\ UNCHANGED <<entitled, pageCache, hostCache, visit, ghosts>>

\* Mutant: verified by the page's id alone.
StillClaims(p, d) == page[p].live

\* The condition of the update: the page must still claim the domain that was
\* looked up.
Claims(p, d) == page[p].live /\ page[p].domain = d

\* markCustomDomainVerified, conditional; the unique index lets no second page
\* have the domain verified.
MarkVerified(r) ==
    LET p == edit[r].page  d == edit[r].domain IN
    /\ edit[r].op = "verify" /\ edit[r].pc = "write"
    /\ IF Claims(p, d) /\ Holder(page[p].domain) \subseteq {p}
       THEN Written(r, p, [page[p] EXCEPT !.verified = TRUE])
       ELSE Refused(r)
    /\ UNCHANGED <<entitled, txtRecord, pageCache, hostCache, visit, ghosts>>

ClearDomain(r) ==
    LET p == edit[r].page IN
    /\ edit[r].op = "clear" /\ edit[r].pc = "write"
    /\ IF page[p].live
       THEN Written(r, p, [page[p] EXCEPT !.domain = None, !.verified = FALSE])
       ELSE Refused(r)
    /\ UNCHANGED <<entitled, txtRecord, pageCache, hostCache, visit, ghosts>>

\* Mutant: only the rendering under the slug is forgotten.
ForgottenSlug == {"slug"}

ForgottenRoutes == Routes

\* forget: every rendering of the page and, but for an update, the host the
\* request knows of, in this process only.
Forget(r) ==
    LET a == edit[r].process  p == edit[r].page  d == edit[r].held IN
    /\ edit[r].pc = "forget"
    /\ pageCache' = [pageCache EXCEPT ![a][p] =
                        [k \in Routes |-> IF k \in ForgottenRoutes THEN NoEntry ELSE @[k]]]
    /\ hostCache' = IF edit[r].op = "update" \/ d = None THEN hostCache
                    ELSE [hostCache EXCEPT ![a][d] = Uncached]
    /\ visit' = [v \in Visits |-> IF visit[v].pc = "render" /\ visit[v].process = a
                                     /\ visit[v].page = p
                                  THEN [visit[v] EXCEPT !.crossed = TRUE] ELSE visit[v]]
    /\ forgotten' = [forgotten EXCEPT ![a][p] = IF edit[r].version > @ THEN edit[r].version ELSE @]
    /\ edit' = [edit EXCEPT ![r] = IdleEdit]
    /\ UNCHANGED <<stored, proven>>

-----------------------------------------------------------------------------
(* The plan and DNS.                                                       *)

ChangePlan ==
    /\ entitled' = ~entitled
    /\ UNCHANGED <<page, txtRecord, pageCache, hostCache, visit, edit, ghosts>>

PublishRecord(p) ==
    /\ page[p].domain # None
    /\ txtRecord' = txtRecord \cup {<<p, page[p].domain>>}
    /\ UNCHANGED <<page, entitled, pageCache, hostCache, visit, edit, ghosts>>

-----------------------------------------------------------------------------
VisitNext ==
    \/ \E v \in Visits, a \in Processes, p \in Pages, route \in Routes : BeginRender(v, a, p, route)
    \/ \E v \in Visits : RememberPage(v)
    \/ \E v \in Visits, a \in Processes, d \in Domains : BeginResolve(v, a, d)
    \/ \E v \in Visits : RememberHost(v)
    \/ \E a \in Processes, p \in Pages, route \in Routes : ExpirePage(a, p, route)
    \/ \E a \in Processes, d \in Domains : ExpireHost(a, d)

EditNext ==
    \/ \E r \in PageRequests, a \in Processes, p \in Pages : BeginUpdate(r, a, p)
    \/ \E r \in PageRequests, a \in Processes, p \in Pages : BeginDelete(r, a, p)
    \/ \E r \in PageRequests, a \in Processes, p \in Pages, d \in Domains : BeginClaim(r, a, p, d)
    \/ \E r \in PageRequests, a \in Processes, p \in Pages : BeginVerify(r, a, p)
    \/ \E r \in PageRequests, a \in Processes, p \in Pages : BeginClear(r, a, p)
    \/ \E r \in PageRequests, published \in BOOLEAN : WriteUpdate(r, published)
    \/ \E r \in PageRequests : WriteDelete(r)
    \/ \E r \in PageRequests : WriteClaim(r)
    \/ \E r \in PageRequests : MarkVerified(r)
    \/ \E r \in PageRequests : ClearDomain(r)
    \/ \E r \in PageRequests : Forget(r)

StatusNext ==
    \/ VisitNext
    \/ EditNext
    \/ ChangePlan
    \/ \E p \in Pages : PublishRecord(p)

StatusSpec == StatusInit /\ [][StatusNext]_statusVars

StatusTypeOK ==
    /\ page \in [Pages -> Page]
    /\ entitled \in BOOLEAN
    /\ txtRecord \subseteq Pages \X Domains
    /\ pageCache \in [Processes -> [Pages -> [Routes -> Entry]]]
    /\ hostCache \in [Processes -> [Domains -> Pages \cup {None, Uncached}]]
    /\ visit \in [Visits -> Visit]
    /\ edit \in [PageRequests -> Edit]
    /\ forgotten \in [Processes -> [Pages -> 0 .. MaxVersion]]
    /\ proven \in [Pages -> SUBSET Domains]

-----------------------------------------------------------------------------
(* Properties.                                                             *)

\* What a process has cached of a page is not older than the last change the
\* process made to it itself, whatever its route, as long as no rendering was
\* under way when the change was forgotten.
OwnChangesShow ==
    \A a \in Processes, p \in Pages, k \in Routes :
        LET entry == pageCache[a][p][k] IN
        entry # NoEntry => entry.crossed \/ entry.version >= forgotten[a][p]

\* "Changes made through this process are forgotten immediately rather than
\* waiting it out" (public-status-cache.ts), without that exception: a rendering
\* that is under way is remembered after the change was forgotten.
ChangesShowAtOnce ==
    \A a \in Processes, p \in Pages, k \in Routes :
        LET entry == pageCache[a][p][k] IN
        entry # NoEntry => entry.version >= forgotten[a][p]

\* A host routes to a page, in the documents and in every cache, only for a
\* domain whose record was seen for that page, and two pages never hold the same
\* verified domain: a claim changed while it is being verified is not verified
\* by the record of another name (markCustomDomainVerified).
RoutesAreProven ==
    /\ \A d \in Domains : Cardinality(Holder(d)) <= 1
    /\ \A p \in Pages : page[p].verified => page[p].domain \in proven[p]
    /\ \A a \in Processes, d \in Domains :
         hostCache[a][d] \in Pages => d \in proven[hostCache[a][d]]
=============================================================================
