------------------------- MODULE PublicAccessProofs -------------------------
(***************************************************************************)
(* Proofs about what the outside sees and may ask for: status pages with   *)
(* their caches and domains, and what API keys, budgets and the limits of a *)
(* plan let through, for every number of processes, pages, keys and requests. *)
(***************************************************************************)
EXTENDS RequestHandling, AccountProofs

-----------------------------------------------------------------------------
(* Status pages.                                                           *)

\* What a visit and a settings request hold once they are under way.
VisitShape(it) ==
    /\ it.pc # "idle" => it.process \in Processes
    /\ it.pc = "render" => it.page \in Pages
    /\ it.pc = "resolve" => it.domain \in Domains

EditShape(it) ==
    /\ it.pc = "forget" => it.op # "idle"
    /\ it.op # "idle" => it.process \in Processes /\ it.page \in Pages
    /\ it.op \in {"claim", "verify"} => it.domain \in Domains

StatusShape ==
    /\ StatusTypeOK
    /\ \A v \in Visits : VisitShape(visit[v])
    /\ \A r \in PageRequests : EditShape(edit[r])

\* One visit, or one request, goes on as another.
LEMMA VisitReplaced ==
    ASSUME StatusShape, NEW v \in Visits, NEW it \in Visit, VisitShape(it),
           visit' = [visit EXCEPT ![v] = it]
    PROVE  visit' \in [Visits -> Visit] /\ \A w \in Visits : VisitShape(visit'[w])
BY DEF StatusShape, StatusTypeOK

LEMMA EditReplaced ==
    ASSUME StatusShape, NEW r \in PageRequests, NEW it \in Edit, EditShape(it),
           edit' = [edit EXCEPT ![r] = it]
    PROVE  edit' \in [PageRequests -> Edit] /\ \A q \in PageRequests : EditShape(edit'[q])
BY DEF StatusShape, StatusTypeOK

LEMMA IdleShapes ==
    /\ IdleVisit \in Visit /\ VisitShape(IdleVisit)
    /\ IdleEdit \in Edit /\ EditShape(IdleEdit)
BY StatusPageAssumption
   DEF IdleVisit, Visit, VisitShape, IdleEdit, Edit, EditShape, Routes

LEMMA NoEntryType == NoEntry \in Entry
BY StatusPageAssumption DEF NoEntry, Entry

LEMMA StatusShapeInit == StatusInit => StatusShape
<1> SUFFICES ASSUME StatusInit PROVE StatusShape
  OBVIOUS
<1>1. /\ 1 \in 1 .. MaxVersion /\ 0 \in 0 .. MaxVersion
  BY StatusPageAssumption
<1>2. page \in [Pages -> Page] /\ forgotten \in [Processes -> [Pages -> 0 .. MaxVersion]]
  BY <1>1 DEF StatusInit, Page
<1>3. pageCache \in [Processes -> [Pages -> [Routes -> Entry]]]
  BY NoEntryType DEF StatusInit
<1>4. hostCache \in [Processes -> [Domains -> Pages \cup {None, Uncached}]]
  BY DEF StatusInit
<1>5. visit \in [Visits -> Visit] /\ edit \in [PageRequests -> Edit]
  BY IdleShapes DEF StatusInit
<1> QED BY <1>2, <1>3, <1>4, <1>5, IdleShapes DEF StatusInit, StatusShape, StatusTypeOK

\* The states of the steps of one settings request: the document it writes,
\* and the request as it goes on.
LEMMA WrittenShape ==
    ASSUME StatusShape, NEW r \in PageRequests, edit[r].op # "idle",
           NEW doc \in Page, Written(r, edit[r].page, doc)
    PROVE  /\ page' = [page EXCEPT ![edit[r].page] = doc] /\ page' \in [Pages -> Page]
           /\ edit' \in [PageRequests -> Edit] /\ \A q \in PageRequests : EditShape(edit'[q])
           /\ edit'[r].pc = "forget" /\ edit'[r].version = doc.version
           /\ edit'[r].op = edit[r].op /\ edit'[r].domain = edit[r].domain
           /\ edit'[r].page = edit[r].page
           /\ \A q \in PageRequests \ {r} : edit'[q] = edit[q]
<1> DEFINE it == [edit[r] EXCEPT !.pc = "forget", !.version = doc.version]
<1>1. edit[r] \in Edit /\ EditShape(edit[r])
  BY DEF StatusShape, StatusTypeOK
<1>2. doc.version \in 0 .. MaxVersion
  BY DEF Page
<1>3. it \in Edit /\ EditShape(it) /\ it.pc = "forget" /\ it.version = doc.version
      /\ it.op = edit[r].op /\ it.domain = edit[r].domain /\ it.page = edit[r].page
  BY <1>1, <1>2 DEF Edit, EditShape
<1>4. edit' = [edit EXCEPT ![r] = it]
  BY DEF Written
<1> HIDE DEF it
<1> QED BY <1>3, <1>4, EditReplaced DEF Written, StatusShape, StatusTypeOK

LEMMA RefusedShape ==
    ASSUME StatusShape, NEW r \in PageRequests, Refused(r)
    PROVE  /\ page' = page
           /\ edit' \in [PageRequests -> Edit] /\ \A q \in PageRequests : EditShape(edit'[q])
           /\ edit' = [edit EXCEPT ![r] = IdleEdit]
BY IdleShapes, EditReplaced DEF Refused

\* What writing the document of a page may do to it.
Rewritten(r) ==
    LET p == edit[r].page IN
    /\ p \in Pages /\ edit[r].op # "idle"
    /\ page' = [page EXCEPT ![p] = page'[p]]
    /\ edit'[r].pc = "forget" /\ edit'[r].page = p
    /\ edit'[r].op = edit[r].op /\ edit'[r].domain = edit[r].domain
    /\ \A q \in PageRequests \ {r} : edit'[q] = edit[q]
    /\ page'[p].live => page[p].live /\ edit'[r].version = page'[p].version
    /\ page'[p].version >= page[p].version
    /\ page'[p].verified =>
          \/ page'[p].domain = page[p].domain /\ page[p].verified
          \/ edit[r].op = "verify" /\ page'[p].domain = edit[r].domain
             /\ Holder(page'[p].domain) \subseteq {p}

Writes(r) ==
    \/ \E published \in BOOLEAN : WriteUpdate(r, published)
    \/ WriteDelete(r) \/ WriteClaim(r) \/ MarkVerified(r) \/ ClearDomain(r)

LEMMA WritesShape ==
    ASSUME StatusShape, NEW r \in PageRequests, Writes(r)
    PROVE  /\ page' \in [Pages -> Page]
           /\ edit' \in [PageRequests -> Edit] /\ \A q \in PageRequests : EditShape(edit'[q])
           /\ Rewritten(r) \/ (page' = page /\ edit' = [edit EXCEPT ![r] = IdleEdit])
           /\ txtRecord' \subseteq txtRecord
           /\ UNCHANGED <<entitled, pageCache, hostCache, visit, forgotten, proven>>
<1> DEFINE p == edit[r].page
<1>1. edit[r] \in Edit /\ EditShape(edit[r]) /\ page \in [Pages -> Page]
  BY DEF StatusShape, StatusTypeOK
<1>2. edit[r].op # "idle" /\ p \in Pages
  BY <1>1 DEF Writes, WriteUpdate, WriteDelete, WriteClaim, MarkVerified, ClearDomain, EditShape
<1>p. page[p] \in Page
  BY <1>1, <1>2
<1>3. txtRecord' \subseteq txtRecord
      /\ UNCHANGED <<entitled, pageCache, hostCache, visit, forgotten, proven>>
  BY DEF Writes, WriteUpdate, WriteDelete, WriteClaim, MarkVerified, ClearDomain, ghosts
<1>4. CASE Refused(r)
  BY <1>1, <1>3, <1>4, RefusedShape
<1>5. ASSUME NEW doc \in Page, Written(r, p, doc), doc.live => page[p].live,
             doc.version >= page[p].version,
             doc.verified =>
               \/ doc.domain = page[p].domain /\ page[p].verified
               \/ edit[r].op = "verify" /\ doc.domain = edit[r].domain
                  /\ Holder(doc.domain) \subseteq {p}
      PROVE  /\ page' \in [Pages -> Page]
             /\ edit' \in [PageRequests -> Edit] /\ \A q \in PageRequests : EditShape(edit'[q])
             /\ Rewritten(r)
  BY <1>1, <1>2, <1>5, WrittenShape DEF Rewritten
<1>6. ASSUME NEW published \in BOOLEAN, WriteUpdate(r, published), ~Refused(r)
      PROVE  /\ page' \in [Pages -> Page]
             /\ edit' \in [PageRequests -> Edit] /\ \A q \in PageRequests : EditShape(edit'[q])
             /\ Rewritten(r)
  <2> DEFINE next == page[p].version + 1
             doc == [page[p] EXCEPT !.version = next, !.published = published]
  <2>1. next \in 1 .. MaxVersion /\ next >= page[p].version
    BY <1>6, <1>p, StatusPageAssumption DEF WriteUpdate, Page
  <2>2. Written(r, p, doc)
    BY <1>6 DEF WriteUpdate
  <2> HIDE DEF next
  <2>3. doc \in Page /\ doc.live = page[p].live /\ doc.version = next
        /\ doc.verified = page[p].verified /\ doc.domain = page[p].domain
    BY <1>p, <2>1 DEF Page
  <2> HIDE DEF doc
  <2> QED BY <1>5, <2>1, <2>2, <2>3
<1>7. ASSUME WriteDelete(r), ~Refused(r)
      PROVE  /\ page' \in [Pages -> Page]
             /\ edit' \in [PageRequests -> Edit] /\ \A q \in PageRequests : EditShape(edit'[q])
             /\ Rewritten(r)
  <2> DEFINE doc == [page[p] EXCEPT !.live = FALSE]
             it == [edit[r] EXCEPT !.pc = "forget", !.version = MaxVersion,
                                   !.held = page[p].domain]
  <2>1. page' = [page EXCEPT ![p] = doc] /\ edit' = [edit EXCEPT ![r] = it]
    BY <1>7 DEF WriteDelete
  <2>2. doc \in Page /\ doc.live = FALSE /\ doc.version = page[p].version
        /\ doc.verified = page[p].verified /\ doc.domain = page[p].domain
    BY <1>p DEF Page
  <2>3. MaxVersion \in 0 .. MaxVersion /\ page[p].domain \in Domains \cup {None}
    BY <1>p, StatusPageAssumption DEF Page
  <2>4. it \in Edit /\ EditShape(it) /\ it.pc = "forget" /\ it.op = edit[r].op
        /\ it.page = p /\ it.domain = edit[r].domain
    BY <1>1, <1>2, <2>3 DEF Edit, EditShape
  <2> HIDE DEF doc, it
  <2>5. page[p].version >= page[p].version
    BY <1>p DEF Page
  <2> QED BY <1>1, <1>2, <2>1, <2>2, <2>4, <2>5, EditReplaced DEF Rewritten
<1>8. ASSUME WriteClaim(r) \/ ClearDomain(r), ~Refused(r)
      PROVE  /\ page' \in [Pages -> Page]
             /\ edit' \in [PageRequests -> Edit] /\ \A q \in PageRequests : EditShape(edit'[q])
             /\ Rewritten(r)
  <2>1. PICK domain \in Domains \cup {None} :
            Written(r, p, [page[p] EXCEPT !.domain = domain, !.verified = FALSE])
    BY <1>1, <1>8 DEF WriteClaim, ClearDomain, EditShape
  <2> DEFINE doc == [page[p] EXCEPT !.domain = domain, !.verified = FALSE]
  <2>2. doc \in Page /\ doc.live = page[p].live /\ doc.version = page[p].version
        /\ doc.verified = FALSE
    BY <1>p DEF Page
  <2>3. Written(r, p, doc)
    BY <2>1
  <2> HIDE DEF doc
  <2>4. doc.version >= page[p].version
    BY <1>p, <2>2 DEF Page
  <2> QED BY <1>5, <2>2, <2>3, <2>4
<1>9. ASSUME MarkVerified(r), ~Refused(r)
      PROVE  /\ page' \in [Pages -> Page]
             /\ edit' \in [PageRequests -> Edit] /\ \A q \in PageRequests : EditShape(edit'[q])
             /\ Rewritten(r)
  <2> DEFINE doc == [page[p] EXCEPT !.verified = TRUE]
  <2>1. /\ Written(r, p, doc) /\ page[p].domain = edit[r].domain /\ edit[r].op = "verify"
        /\ Holder(page[p].domain) \subseteq {p}
    BY <1>9 DEF MarkVerified, Claims
  <2>2. doc \in Page /\ doc.live = page[p].live /\ doc.version = page[p].version
        /\ doc.domain = page[p].domain
    BY <1>p DEF Page
  <2> HIDE DEF doc
  <2>3. doc.version >= page[p].version
    BY <1>p, <2>2 DEF Page
  <2> QED BY <1>5, <2>1, <2>2, <2>3
<1> QED BY <1>3, <1>4, <1>6, <1>7, <1>8, <1>9 DEF Writes

\* A settings request begins: only that request changes, and what DNS has
\* proven may grow by the domain it verifies.
Begun(r) ==
    /\ edit' = [edit EXCEPT ![r] = edit'[r]]
    /\ edit'[r].pc = "write"
    /\ \/ edit'[r].op # "verify" /\ proven' = proven
       \/ /\ edit'[r].domain \in Domains /\ edit'[r].page \in Pages
          /\ proven' = [proven EXCEPT ![edit'[r].page] = @ \cup {edit'[r].domain}]

Begins(r) ==
    \E a \in Processes, p \in Pages :
        \/ BeginUpdate(r, a, p) \/ BeginDelete(r, a, p) \/ BeginVerify(r, a, p)
        \/ BeginClear(r, a, p) \/ \E d \in Domains : BeginClaim(r, a, p, d)

LEMMA BeginsShape ==
    ASSUME StatusShape, NEW r \in PageRequests, Begins(r)
    PROVE  /\ edit' \in [PageRequests -> Edit] /\ \A q \in PageRequests : EditShape(edit'[q])
           /\ Begun(r)
           /\ UNCHANGED <<page, entitled, txtRecord, pageCache, hostCache, visit, forgotten>>
<1>t. page \in [Pages -> Page] /\ edit \in [PageRequests -> Edit]
  BY DEF StatusShape, StatusTypeOK
<1>0. 0 \in 0 .. MaxVersion
  BY StatusPageAssumption
<1>1. ASSUME NEW a \in Processes, NEW p \in Pages, NEW d \in Domains \cup {None},
             NEW op \in {"update", "delete", "claim", "clear"}, BeginEdit(r, a, p, op, d),
             op = "claim" => d \in Domains
      PROVE  /\ edit' \in [PageRequests -> Edit] /\ \A q \in PageRequests : EditShape(edit'[q])
             /\ Begun(r)
             /\ UNCHANGED <<page, entitled, txtRecord, pageCache, hostCache, visit, forgotten>>
  <2> DEFINE it == [IdleEdit EXCEPT !.op = op, !.process = a, !.page = p,
                                    !.domain = d, !.held = page[p].domain]
  <2>1. page[p].domain \in Domains \cup {None}
    BY <1>t DEF Page
  <2>2. it \in Edit /\ EditShape(it) /\ it.pc = "write" /\ it.op # "verify"
    BY <1>0, <1>1, <2>1 DEF IdleEdit, Edit, EditShape
  <2>3. edit' = [edit EXCEPT ![r] = it]
        /\ UNCHANGED <<page, entitled, txtRecord, pageCache, hostCache, visit, forgotten, proven>>
    BY <1>1 DEF BeginEdit, stored, ghosts
  <2> HIDE DEF it
  <2> QED BY <1>t, <2>2, <2>3, EditReplaced DEF Begun
<1>2. ASSUME NEW a \in Processes, NEW p \in Pages, BeginVerify(r, a, p)
      PROVE  /\ edit' \in [PageRequests -> Edit] /\ \A q \in PageRequests : EditShape(edit'[q])
             /\ Begun(r)
             /\ UNCHANGED <<page, entitled, txtRecord, pageCache, hostCache, visit, forgotten>>
  <2> DEFINE d == page[p].domain
             it == [IdleEdit EXCEPT !.op = "verify", !.process = a, !.page = p,
                                    !.domain = d, !.held = d]
  <2>1. d \in Domains
    BY <1>2, <1>t DEF BeginVerify, Page
  <2>2. /\ edit' = [edit EXCEPT ![r] = it] /\ proven' = [proven EXCEPT ![p] = @ \cup {d}]
        /\ UNCHANGED <<page, entitled, txtRecord, pageCache, hostCache, visit, forgotten>>
    BY <1>2 DEF BeginVerify, stored
  <2> HIDE DEF d
  <2>3. it \in Edit /\ EditShape(it) /\ it.pc = "write" /\ it.domain = d /\ it.page = p
    BY <1>0, <2>1 DEF IdleEdit, Edit, EditShape
  <2> HIDE DEF it
  <2> QED BY <1>t, <2>1, <2>2, <2>3, EditReplaced DEF Begun
<1> QED BY <1>1, <1>2 DEF Begins, BeginUpdate, BeginDelete, BeginClear, BeginClaim

LEMMA StatusShapeStep == StatusShape /\ [StatusNext]_statusVars => StatusShape'
<1> SUFFICES ASSUME StatusShape, [StatusNext]_statusVars PROVE StatusShape'
  OBVIOUS
<1>t. /\ page \in [Pages -> Page] /\ visit \in [Visits -> Visit] /\ edit \in [PageRequests -> Edit]
      /\ pageCache \in [Processes -> [Pages -> [Routes -> Entry]]]
      /\ hostCache \in [Processes -> [Domains -> Pages \cup {None, Uncached}]]
      /\ forgotten \in [Processes -> [Pages -> 0 .. MaxVersion]]
      /\ \A v \in Visits : visit[v] \in Visit /\ VisitShape(visit[v])
      /\ \A r \in PageRequests : edit[r] \in Edit /\ EditShape(edit[r])
  BY DEF StatusShape, StatusTypeOK
<1>1. ASSUME NEW v \in Visits, NEW a \in Processes, NEW p \in Pages, NEW route \in Routes,
             BeginRender(v, a, p, route)
      PROVE  StatusShape'
  <2> DEFINE n == page[p].version
             it == [IdleVisit EXCEPT !.pc = "render", !.process = a,
                     !.page = p, !.route = route, !.version = n]
  <2>1. n \in 0 .. MaxVersion
    BY <1>t DEF Page
  <2>2. visit' = [visit EXCEPT ![v] = it]
    BY <1>1 DEF BeginRender
  <2> HIDE DEF n
  <2>3. it \in Visit /\ VisitShape(it)
    BY <2>1 DEF IdleVisit, Visit, VisitShape
  <2> HIDE DEF it
  <2> QED BY <1>1, <2>2, <2>3, VisitReplaced
          DEF BeginRender, stored, ghosts, StatusShape, StatusTypeOK
<1>2. ASSUME NEW v \in Visits, RememberPage(v) PROVE StatusShape'
  <2> DEFINE it == visit[v]
             entry == [version |-> it.version, crossed |-> it.crossed]
  <2>1. entry \in Entry /\ it.process \in Processes /\ it.page \in Pages /\ it.route \in Routes
    BY <1>2, <1>t DEF RememberPage, Visit, VisitShape, Entry
  <2>2. pageCache' = [pageCache EXCEPT ![it.process][it.page][it.route] = entry]
    BY <1>2 DEF RememberPage
  <2> HIDE DEF entry
  <2>3. pageCache' \in [Processes -> [Pages -> [Routes -> Entry]]]
    BY <1>t, <2>1, <2>2
  <2> QED BY <1>2, <2>3, IdleShapes, VisitReplaced
          DEF RememberPage, stored, ghosts, StatusShape, StatusTypeOK
<1>3. ASSUME NEW v \in Visits, NEW a \in Processes, NEW d \in Domains, BeginResolve(v, a, d)
      PROVE  StatusShape'
  <2> DEFINE p == IF Holder(d) = {} THEN None ELSE CHOOSE q \in Holder(d) : TRUE
             it == [IdleVisit EXCEPT !.pc = "resolve", !.process = a, !.domain = d, !.page = p]
  <2>1. p \in Pages \cup {None}
    BY DEF Holder
  <2>2. visit' = [visit EXCEPT ![v] = it]
    BY <1>3 DEF BeginResolve
  <2> HIDE DEF p
  <2>3. 0 \in 0 .. MaxVersion
    BY StatusPageAssumption
  <2>4. it \in Visit /\ VisitShape(it)
    BY <2>1, <2>3 DEF IdleVisit, Visit, VisitShape, Routes
  <2> HIDE DEF it
  <2> QED BY <1>3, <2>2, <2>4, VisitReplaced
          DEF BeginResolve, stored, ghosts, StatusShape, StatusTypeOK
<1>4. ASSUME NEW v \in Visits, RememberHost(v) PROVE StatusShape'
  <2> DEFINE it == visit[v]
  <2>1. it.process \in Processes /\ it.domain \in Domains /\ it.page \in Pages \cup {None}
    BY <1>4, <1>t DEF RememberHost, Visit, VisitShape
  <2>2. hostCache' \in [Processes -> [Domains -> Pages \cup {None, Uncached}]]
    BY <1>4, <1>t, <2>1 DEF RememberHost
  <2> QED BY <1>4, <2>2, IdleShapes, VisitReplaced
          DEF RememberHost, stored, ghosts, StatusShape, StatusTypeOK
<1>5. ASSUME NEW a \in Processes, NEW p \in Pages, NEW route \in Routes, ExpirePage(a, p, route)
      PROVE  StatusShape'
  <2>1. pageCache' \in [Processes -> [Pages -> [Routes -> Entry]]]
    BY <1>5, <1>t, NoEntryType DEF ExpirePage
  <2> QED BY <1>5, <2>1 DEF ExpirePage, stored, ghosts, StatusShape, StatusTypeOK
<1>6. ASSUME NEW a \in Processes, NEW d \in Domains, ExpireHost(a, d) PROVE StatusShape'
  <2>1. hostCache' \in [Processes -> [Domains -> Pages \cup {None, Uncached}]]
    BY <1>6, <1>t DEF ExpireHost
  <2> QED BY <1>6, <2>1 DEF ExpireHost, stored, ghosts, StatusShape, StatusTypeOK
<1>7. ASSUME NEW r \in PageRequests, Begins(r) PROVE StatusShape'
  <2>1. proven' \in [Pages -> SUBSET Domains]
    BY <1>7, BeginsShape DEF Begun, StatusShape, StatusTypeOK
  <2> QED BY <1>7, <2>1, BeginsShape DEF StatusShape, StatusTypeOK
<1>8. ASSUME NEW r \in PageRequests, Writes(r) PROVE StatusShape'
  BY <1>8, WritesShape DEF StatusShape, StatusTypeOK
<1>9. ASSUME NEW r \in PageRequests, Forget(r) PROVE StatusShape'
  <2> DEFINE a == edit[r].process
             p == edit[r].page
             d == edit[r].held
             n == edit[r].version
  <2>1. a \in Processes /\ p \in Pages /\ d \in Domains \cup {None} /\ n \in 0 .. MaxVersion
    BY <1>9, <1>t DEF Forget, Edit, EditShape
  <2>2. pageCache' \in [Processes -> [Pages -> [Routes -> Entry]]]
    <3> DEFINE entries == [k \in Routes |-> IF k \in ForgottenRoutes THEN NoEntry
                                            ELSE pageCache[a][p][k]]
    <3>1. entries \in [Routes -> Entry]
      BY <1>t, <2>1, NoEntryType
    <3>2. pageCache' = [pageCache EXCEPT ![a][p] = entries]
      BY <1>9 DEF Forget
    <3> HIDE DEF entries
    <3> QED BY <1>t, <2>1, <3>1, <3>2
  <2>3. hostCache' \in [Processes -> [Domains -> Pages \cup {None, Uncached}]]
    BY <1>9, <1>t, <2>1 DEF Forget
  <2>4. visit' \in [Visits -> Visit] /\ \A v \in Visits : VisitShape(visit'[v])
    <3>1. ASSUME NEW v \in Visits
          PROVE  /\ [visit[v] EXCEPT !.crossed = TRUE] \in Visit
                 /\ VisitShape([visit[v] EXCEPT !.crossed = TRUE])
      BY <1>t DEF Visit, VisitShape
    <3> QED BY <1>9, <1>t, <3>1 DEF Forget
  <2>5. forgotten' \in [Processes -> [Pages -> 0 .. MaxVersion]]
    <3> DEFINE m == IF n > forgotten[a][p] THEN n ELSE forgotten[a][p]
    <3>1. m \in 0 .. MaxVersion
      BY <1>t, <2>1
    <3>2. forgotten' = [forgotten EXCEPT ![a][p] = m]
      BY <1>9 DEF Forget
    <3> HIDE DEF m
    <3> QED BY <1>t, <2>1, <3>1, <3>2
  <2>6. edit' \in [PageRequests -> Edit] /\ \A q \in PageRequests : EditShape(edit'[q])
    BY <1>9, IdleShapes, EditReplaced DEF Forget
  <2> QED BY <1>9, <2>2, <2>3, <2>4, <2>5, <2>6 DEF Forget, stored, StatusShape, StatusTypeOK
<1>10. CASE ChangePlan
  BY <1>10 DEF ChangePlan, ghosts, StatusShape, StatusTypeOK
<1>11. ASSUME NEW p \in Pages, PublishRecord(p) PROVE StatusShape'
  <2>1. txtRecord' \subseteq Pages \X Domains
    BY <1>11, <1>t DEF PublishRecord, Page, StatusShape, StatusTypeOK
  <2> QED BY <1>11, <2>1 DEF PublishRecord, ghosts, StatusShape, StatusTypeOK
<1>12. CASE UNCHANGED statusVars
  BY <1>12 DEF statusVars, StatusShape, StatusTypeOK
<1> QED
  BY <1>1, <1>2, <1>3, <1>4, <1>5, <1>6, <1>7, <1>8, <1>9, <1>10, <1>11, <1>12
     DEF StatusNext, VisitNext, EditNext, Begins, Writes

-----------------------------------------------------------------------------
(* What a process has written shows.                                       *)

\* A rendering under way that no forgetting has crossed is as new as the last
\* change the process forgot; so is the document, of which a change that is
\* still to be forgotten is a past version.
RendersAreFresh ==
    \A v \in Visits : visit[v].pc = "render" /\ ~visit[v].crossed =>
        visit[v].version >= forgotten[visit[v].process][visit[v].page]

DocumentsAreNewest ==
    /\ \A a \in Processes, p \in Pages : page[p].live => page[p].version >= forgotten[a][p]
    /\ \A r \in PageRequests : edit[r].pc = "forget" /\ page[edit[r].page].live =>
          page[edit[r].page].version >= edit[r].version

ShowsInv == OwnChangesShow /\ RendersAreFresh /\ DocumentsAreNewest

LEMMA ShowsInit == StatusInit => ShowsInv
<1> SUFFICES ASSUME StatusInit PROVE ShowsInv
  OBVIOUS
<1>1. /\ \A v \in Visits : visit[v].pc = "idle"
      /\ \A r \in PageRequests : edit[r].pc = "write"
  BY DEF StatusInit, IdleVisit, IdleEdit
<1>2. \A a \in Processes, p \in Pages, k \in Routes : pageCache[a][p][k] = NoEntry
  BY DEF StatusInit
<1>3. \A a \in Processes, p \in Pages : page[p].version >= forgotten[a][p]
  BY DEF StatusInit
<1> QED BY <1>1, <1>2, <1>3 DEF ShowsInv, OwnChangesShow, RendersAreFresh, DocumentsAreNewest

LEMMA ShowsStep ==
    StatusShape /\ StatusShape' /\ ShowsInv /\ [StatusNext]_statusVars => ShowsInv'
<1> SUFFICES ASSUME StatusShape, StatusShape', ShowsInv, [StatusNext]_statusVars PROVE ShowsInv'
  OBVIOUS
<1>t. /\ page \in [Pages -> Page] /\ visit \in [Visits -> Visit] /\ edit \in [PageRequests -> Edit]
      /\ pageCache \in [Processes -> [Pages -> [Routes -> Entry]]]
      /\ forgotten \in [Processes -> [Pages -> 0 .. MaxVersion]]
      /\ \A v \in Visits : visit[v] \in Visit /\ VisitShape(visit[v])
      /\ \A r \in PageRequests : edit[r] \in Edit /\ EditShape(edit[r])
  BY DEF StatusShape, StatusTypeOK
<1>p. \A p \in Pages : page[p].version \in Nat
  BY <1>t DEF Page
<1>i. IdleVisit.pc = "idle" /\ IdleEdit.pc = "write"
  BY DEF IdleVisit, IdleEdit
<1>1. ASSUME NEW v \in Visits, NEW a \in Processes, NEW p \in Pages, NEW route \in Routes,
             BeginRender(v, a, p, route)
      PROVE  ShowsInv'
  <2> DEFINE n == page[p].version
             it == [IdleVisit EXCEPT !.pc = "render", !.process = a,
                     !.page = p, !.route = route, !.version = n]
  <2>1. visit' = [visit EXCEPT ![v] = it] /\ page[p].live
    BY <1>1 DEF BeginRender
  <2>2. n >= forgotten[a][p]
    BY <2>1 DEF ShowsInv, DocumentsAreNewest
  <2> HIDE DEF n
  <2>3. it.version = n /\ it.process = a /\ it.page = p
    BY DEF IdleVisit
  <2> HIDE DEF it
  <2>4. RendersAreFresh'
    BY <1>1, <1>t, <2>1, <2>2, <2>3 DEF BeginRender, ghosts, ShowsInv, RendersAreFresh
  <2> QED BY <1>1, <2>4
          DEF BeginRender, stored, ghosts, ShowsInv, OwnChangesShow, DocumentsAreNewest
<1>2. ASSUME NEW v \in Visits, RememberPage(v) PROVE ShowsInv'
  <2> DEFINE it == visit[v]
             entry == [version |-> it.version, crossed |-> it.crossed]
  <2>1. it.process \in Processes /\ it.page \in Pages /\ it.route \in Routes
    BY <1>2, <1>t DEF RememberPage, Visit, VisitShape
  <2>2. entry.crossed \/ entry.version >= forgotten[it.process][it.page]
    BY <1>2 DEF RememberPage, ShowsInv, RendersAreFresh
  <2>3. /\ pageCache' = [pageCache EXCEPT ![it.process][it.page][it.route] = entry]
        /\ visit' = [visit EXCEPT ![v] = IdleVisit]
    BY <1>2 DEF RememberPage
  <2> HIDE DEF entry
  <2>4. RendersAreFresh'
    BY <1>2, <1>t, <1>i, <2>3 DEF RememberPage, ghosts, ShowsInv, RendersAreFresh
  <2>5. OwnChangesShow'
    <3> SUFFICES ASSUME NEW a \in Processes, NEW p \in Pages, NEW k \in Routes,
                        pageCache'[a][p][k] # NoEntry
                 PROVE  \/ pageCache'[a][p][k].crossed
                        \/ pageCache'[a][p][k].version >= forgotten'[a][p]
      BY DEF OwnChangesShow
    <3>1. forgotten' = forgotten
      BY <1>2 DEF RememberPage, ghosts
    <3>2. \/ pageCache'[a][p][k] = pageCache[a][p][k]
          \/ a = it.process /\ p = it.page /\ pageCache'[a][p][k] = entry
      BY <1>t, <2>1, <2>3
    <3> QED BY <2>2, <3>1, <3>2 DEF ShowsInv, OwnChangesShow
  <2> QED BY <1>2, <2>4, <2>5
          DEF RememberPage, stored, ghosts, ShowsInv, DocumentsAreNewest
<1>3. ASSUME NEW v \in Visits, NEW a \in Processes, NEW d \in Domains, BeginResolve(v, a, d)
      PROVE  ShowsInv'
  <2> DEFINE p == IF Holder(d) = {} THEN None ELSE CHOOSE q \in Holder(d) : TRUE
             it == [IdleVisit EXCEPT !.pc = "resolve", !.process = a, !.domain = d, !.page = p]
  <2>1. visit' = [visit EXCEPT ![v] = it]
    BY <1>3 DEF BeginResolve
  <2>2. it.pc = "resolve"
    BY DEF IdleVisit
  <2> HIDE DEF it
  <2>3. RendersAreFresh'
    BY <1>3, <1>t, <2>1, <2>2 DEF BeginResolve, ghosts, ShowsInv, RendersAreFresh
  <2> QED BY <1>3, <2>3
          DEF BeginResolve, stored, ghosts, ShowsInv, OwnChangesShow, DocumentsAreNewest
<1>4. ASSUME NEW v \in Visits, RememberHost(v) PROVE ShowsInv'
  <2>1. RendersAreFresh'
    BY <1>4, <1>t, <1>i DEF RememberHost, ghosts, ShowsInv, RendersAreFresh
  <2> QED BY <1>4, <2>1
          DEF RememberHost, stored, ghosts, ShowsInv, OwnChangesShow, DocumentsAreNewest
<1>5. ASSUME NEW a \in Processes, NEW p \in Pages, NEW route \in Routes, ExpirePage(a, p, route)
      PROVE  ShowsInv'
  <2>1. OwnChangesShow'
    <3> SUFFICES ASSUME NEW b \in Processes, NEW q \in Pages, NEW k \in Routes,
                        pageCache'[b][q][k] # NoEntry
                 PROVE  \/ pageCache'[b][q][k].crossed
                        \/ pageCache'[b][q][k].version >= forgotten'[b][q]
      BY DEF OwnChangesShow
    <3>1. pageCache'[b][q][k] = pageCache[b][q][k] /\ forgotten' = forgotten
      BY <1>5, <1>t DEF ExpirePage, ghosts
    <3> QED BY <3>1 DEF ShowsInv, OwnChangesShow
  <2> QED BY <1>5, <2>1
          DEF ExpirePage, stored, ghosts, ShowsInv, RendersAreFresh, DocumentsAreNewest
<1>6. ASSUME NEW r \in PageRequests, Begins(r) PROVE ShowsInv'
  <2>1. /\ edit' = [edit EXCEPT ![r] = edit'[r]] /\ edit'[r].pc = "write"
        /\ UNCHANGED <<page, pageCache, visit, forgotten>>
    BY <1>6, BeginsShape DEF Begun
  <2>2. DocumentsAreNewest'
    BY <1>t, <2>1 DEF ShowsInv, DocumentsAreNewest
  <2> QED BY <2>1, <2>2 DEF ShowsInv, OwnChangesShow, RendersAreFresh
\* Writing makes a version that is still to be forgotten.
<1>7. ASSUME NEW r \in PageRequests, Writes(r) PROVE ShowsInv'
  <2>1. UNCHANGED <<pageCache, visit, forgotten>>
    BY <1>7, WritesShape
  <2>2. DocumentsAreNewest'
    <3>1. CASE Rewritten(r)
      <4> DEFINE p == edit[r].page
      <4>1. /\ p \in Pages
            /\ \A q \in Pages \ {p} : page'[q] = page[q]
            /\ page'[p].live => page[p].live /\ edit'[r].version = page'[p].version
            /\ page'[p].version >= page[p].version
            /\ edit'[r].page = p
            /\ \A q \in PageRequests \ {r} : edit'[q] = edit[q]
        BY <3>1, <1>t DEF Rewritten
      <4>2. \A q \in Pages : page'[q].version \in Nat /\ page[q].version \in Nat
        BY <1>t DEF Page, StatusShape, StatusTypeOK
      <4>3. \A q \in Pages :
                (page'[q].live => page[q].live) /\ page'[q].version >= page[q].version
        BY <4>1, <4>2
      <4>4. ASSUME NEW a \in Processes, NEW q \in Pages, page'[q].live
            PROVE  page'[q].version >= forgotten'[a][q]
        <5>1. page[q].version >= forgotten[a][q]
          BY <4>3, <4>4 DEF ShowsInv, DocumentsAreNewest
        <5>2. forgotten[a][q] \in Nat
          BY <1>t
        <5> QED BY <2>1, <4>2, <4>3, <5>1, <5>2
      <4>5. ASSUME NEW q \in PageRequests, edit'[q].pc = "forget", page'[edit'[q].page].live
            PROVE  page'[edit'[q].page].version >= edit'[q].version
        <5>1. CASE q = r
          BY <4>1, <4>2, <4>5, <5>1
        <5>2. CASE q # r
          <6>1. edit'[q] = edit[q] /\ edit[q].page \in Pages /\ edit[q].version \in Nat
            BY <1>t, <4>1, <4>5, <5>2 DEF EditShape, Edit
          <6>2. page[edit[q].page].version >= edit[q].version
            BY <4>3, <4>5, <6>1 DEF ShowsInv, DocumentsAreNewest
          <6> QED BY <4>2, <4>3, <6>1, <6>2
        <5> QED BY <5>1, <5>2
      <4> QED BY <4>4, <4>5 DEF DocumentsAreNewest
    <3>2. CASE page' = page /\ edit' = [edit EXCEPT ![r] = IdleEdit]
      BY <1>t, <1>i, <2>1, <3>2 DEF ShowsInv, DocumentsAreNewest
    <3> QED BY <1>7, <3>1, <3>2, WritesShape
  <2> QED BY <2>1, <2>2 DEF ShowsInv, OwnChangesShow, RendersAreFresh
\* Forgetting clears the entries and crosses the renderings it makes too old.
<1>8. ASSUME NEW r \in PageRequests, Forget(r) PROVE ShowsInv'
  <2> DEFINE a == edit[r].process
             p == edit[r].page
             n == edit[r].version
             m == IF n > forgotten[a][p] THEN n ELSE forgotten[a][p]
  <2>1. a \in Processes /\ p \in Pages /\ n \in Nat /\ edit[r].pc = "forget"
    BY <1>8, <1>t DEF Forget, Edit, EditShape
  <2>2. forgotten' = [forgotten EXCEPT ![a][p] = m] /\ page' = page
    BY <1>8 DEF Forget, stored
  <2>3. page[p].live => page[p].version >= m
    BY <1>p, <2>1 DEF ShowsInv, DocumentsAreNewest
  <2> HIDE DEF m
  <2>4. /\ forgotten'[a][p] = m
        /\ \A b \in Processes, q \in Pages : b # a \/ q # p => forgotten'[b][q] = forgotten[b][q]
    BY <1>t, <2>1, <2>2
  <2>5. OwnChangesShow'
    <3> SUFFICES ASSUME NEW b \in Processes, NEW q \in Pages, NEW k \in Routes,
                        pageCache'[b][q][k] # NoEntry
                 PROVE  \/ pageCache'[b][q][k].crossed
                        \/ pageCache'[b][q][k].version >= forgotten'[b][q]
      BY DEF OwnChangesShow
    <3> DEFINE entries == [j \in Routes |-> IF j \in ForgottenRoutes THEN NoEntry
                                            ELSE pageCache[a][p][j]]
    <3>1. pageCache' = [pageCache EXCEPT ![a][p] = entries]
      BY <1>8 DEF Forget
    <3>2. entries[k] = NoEntry
      BY DEF ForgottenRoutes
    <3> HIDE DEF entries
    <3>3. (b # a \/ q # p) /\ pageCache'[b][q][k] = pageCache[b][q][k]
      BY <1>t, <2>1, <3>1, <3>2
    <3> QED BY <2>4, <3>3 DEF ShowsInv, OwnChangesShow
  <2>6. RendersAreFresh'
    <3> SUFFICES ASSUME NEW v \in Visits, visit'[v].pc = "render", ~visit'[v].crossed
                 PROVE  visit'[v].version >= forgotten'[visit'[v].process][visit'[v].page]
      BY DEF RendersAreFresh
    <3>1. [visit[v] EXCEPT !.crossed = TRUE].crossed = TRUE
      BY <1>t DEF Visit
    <3>2. visit'[v] = visit[v] /\ (visit[v].process # a \/ visit[v].page # p)
      BY <1>8, <3>1 DEF Forget
    <3>3. visit[v].process \in Processes /\ visit[v].page \in Pages
      BY <1>t, <3>2 DEF VisitShape
    <3> QED BY <2>4, <3>2, <3>3 DEF ShowsInv, RendersAreFresh
  <2>7. DocumentsAreNewest'
    <3>1. \A q \in PageRequests : edit'[q].pc = "forget" => edit'[q] = edit[q]
      BY <1>8, <1>t, <1>i DEF Forget
    <3> QED BY <2>2, <2>3, <2>4, <3>1 DEF ShowsInv, DocumentsAreNewest
  <2> QED BY <2>5, <2>6, <2>7 DEF ShowsInv
<1>9. ASSUME UNCHANGED <<page, pageCache, visit, edit, forgotten>> PROVE ShowsInv'
  BY <1>9 DEF ShowsInv, OwnChangesShow, RendersAreFresh, DocumentsAreNewest
<1>10. ASSUME \/ UNCHANGED statusVars \/ ChangePlan
              \/ \E p \in Pages : PublishRecord(p)
              \/ \E a \in Processes, d \in Domains : ExpireHost(a, d)
       PROVE  ShowsInv'
  BY <1>9, <1>10 DEF statusVars, ChangePlan, PublishRecord, ExpireHost, stored, ghosts
<1> QED
  BY <1>1, <1>2, <1>3, <1>4, <1>5, <1>6, <1>7, <1>8, <1>10
     DEF StatusNext, VisitNext, EditNext, Begins, Writes

-----------------------------------------------------------------------------
(* Hosts route where DNS said.                                             *)

UniqueHolder ==
    \A p, q \in Pages :
        /\ page[p].live /\ page[p].verified /\ page[q].live /\ page[q].verified
        /\ page[p].domain = page[q].domain /\ page[p].domain \in Domains
        => p = q

\* The domain of a verification under way is proven for its page, as is that of
\* a page somebody found for a host, in the documents or in a cache.
LookupsAreProven ==
    /\ \A p \in Pages : page[p].verified => page[p].domain \in proven[p]
    /\ \A r \in PageRequests : edit[r].op = "verify" =>
          edit[r].domain \in proven[edit[r].page]
    /\ \A v \in Visits : visit[v].pc = "resolve" /\ visit[v].page \in Pages =>
          visit[v].domain \in proven[visit[v].page]
    /\ \A a \in Processes, d \in Domains :
          hostCache[a][d] \in Pages => d \in proven[hostCache[a][d]]

LEMMA ProvenInit == StatusInit => UniqueHolder /\ LookupsAreProven
<1> SUFFICES ASSUME StatusInit PROVE UniqueHolder /\ LookupsAreProven
  OBVIOUS
<1>1. /\ \A v \in Visits : visit[v].pc = "idle"
      /\ \A r \in PageRequests : edit[r].op = "idle"
      /\ \A p \in Pages : ~page[p].verified
      /\ \A a \in Processes, d \in Domains : hostCache[a][d] \notin Pages
  BY StatusPageAssumption DEF StatusInit, IdleVisit, IdleEdit, Uncached
<1> QED BY <1>1 DEF UniqueHolder, LookupsAreProven

LEMMA ProvenStep ==
    StatusShape /\ UniqueHolder /\ LookupsAreProven /\ [StatusNext]_statusVars
        => UniqueHolder' /\ LookupsAreProven'
<1> SUFFICES ASSUME StatusShape, UniqueHolder, LookupsAreProven, [StatusNext]_statusVars
             PROVE  UniqueHolder' /\ LookupsAreProven'
  OBVIOUS
<1>t. /\ page \in [Pages -> Page] /\ visit \in [Visits -> Visit] /\ edit \in [PageRequests -> Edit]
      /\ hostCache \in [Processes -> [Domains -> Pages \cup {None, Uncached}]]
      /\ proven \in [Pages -> SUBSET Domains]
      /\ \A v \in Visits : visit[v] \in Visit /\ VisitShape(visit[v])
      /\ \A r \in PageRequests : edit[r] \in Edit /\ EditShape(edit[r])
  BY DEF StatusShape, StatusTypeOK
<1>i. IdleVisit.pc = "idle" /\ IdleEdit.op = "idle"
  BY DEF IdleVisit, IdleEdit
<1>1. ASSUME NEW v \in Visits, NEW a \in Processes, NEW p \in Pages, NEW route \in Routes,
             BeginRender(v, a, p, route)
      PROVE  UniqueHolder' /\ LookupsAreProven'
  <2> DEFINE it == [IdleVisit EXCEPT !.pc = "render", !.process = a,
                     !.page = p, !.route = route, !.version = page[p].version]
  <2>1. visit' = [visit EXCEPT ![v] = it]
    BY <1>1 DEF BeginRender
  <2>2. it.pc = "render"
    BY DEF IdleVisit
  <2> HIDE DEF it
  <2> QED BY <1>1, <1>t, <2>1, <2>2
          DEF BeginRender, stored, ghosts, UniqueHolder, LookupsAreProven
<1>2. ASSUME NEW v \in Visits, RememberPage(v) PROVE UniqueHolder' /\ LookupsAreProven'
  BY <1>2, <1>t, <1>i DEF RememberPage, stored, ghosts, UniqueHolder, LookupsAreProven
<1>3. ASSUME NEW v \in Visits, NEW a \in Processes, NEW d \in Domains, BeginResolve(v, a, d)
      PROVE  UniqueHolder' /\ LookupsAreProven'
  <2> DEFINE p == IF Holder(d) = {} THEN None ELSE CHOOSE q \in Holder(d) : TRUE
             it == [IdleVisit EXCEPT !.pc = "resolve", !.process = a, !.domain = d, !.page = p]
  <2>1. visit' = [visit EXCEPT ![v] = it]
    BY <1>3 DEF BeginResolve
  <2>2. p \in Pages => d \in proven[p]
    BY StatusPageAssumption DEF Holder, LookupsAreProven
  <2> HIDE DEF p
  <2>3. it.page = p /\ it.domain = d
    BY DEF IdleVisit
  <2> HIDE DEF it
  <2>4. ASSUME NEW w \in Visits, visit'[w].pc = "resolve", visit'[w].page \in Pages
        PROVE  visit'[w].domain \in proven[visit'[w].page]
    BY <1>t, <2>1, <2>2, <2>3, <2>4 DEF LookupsAreProven
  <2> QED BY <1>3, <2>4 DEF BeginResolve, stored, ghosts, UniqueHolder, LookupsAreProven
<1>4. ASSUME NEW v \in Visits, RememberHost(v) PROVE UniqueHolder' /\ LookupsAreProven'
  <2> DEFINE b == visit[v].process
             e == visit[v].domain
             q == visit[v].page
  <2>1. b \in Processes /\ e \in Domains /\ (q \in Pages => e \in proven[q])
    BY <1>4, <1>t DEF RememberHost, VisitShape, LookupsAreProven
  <2>2. /\ hostCache' = [hostCache EXCEPT ![b][e] = q]
        /\ visit' = [visit EXCEPT ![v] = IdleVisit]
    BY <1>4 DEF RememberHost
  <2>3. ASSUME NEW a \in Processes, NEW d \in Domains, hostCache'[a][d] \in Pages
        PROVE  d \in proven[hostCache'[a][d]]
    <3>1. hostCache'[a][d] = hostCache[a][d] \/ (a = b /\ d = e /\ hostCache'[a][d] = q)
      BY <1>t, <2>1, <2>2
    <3> QED BY <2>1, <2>3, <3>1 DEF LookupsAreProven
  <2> QED BY <1>4, <1>t, <1>i, <2>2, <2>3
          DEF RememberHost, stored, ghosts, UniqueHolder, LookupsAreProven
<1>5. ASSUME NEW a \in Processes, NEW d \in Domains, ExpireHost(a, d)
      PROVE  UniqueHolder' /\ LookupsAreProven'
  <2>1. \A b \in Processes, e \in Domains :
            hostCache'[b][e] \in Pages => hostCache'[b][e] = hostCache[b][e]
    BY <1>5, <1>t, StatusPageAssumption DEF ExpireHost, Uncached
  <2> QED BY <1>5, <2>1 DEF ExpireHost, stored, ghosts, UniqueHolder, LookupsAreProven
<1>6. ASSUME NEW r \in PageRequests, Begins(r) PROVE UniqueHolder' /\ LookupsAreProven'
  <2>1. /\ edit' = [edit EXCEPT ![r] = edit'[r]]
        /\ UNCHANGED <<page, hostCache, visit>>
        /\ \A p \in Pages : proven[p] \subseteq proven'[p]
        /\ edit'[r].op = "verify" => edit'[r].domain \in proven'[edit'[r].page]
    BY <1>6, <1>t, BeginsShape DEF Begun
  <2>2. ASSUME NEW q \in PageRequests, edit'[q].op = "verify"
        PROVE  edit'[q].domain \in proven'[edit'[q].page]
    <3>1. CASE q = r
      BY <2>1, <2>2, <3>1
    <3>2. CASE q # r
      <4>1. edit'[q] = edit[q] /\ edit[q].page \in Pages
        BY <1>t, <2>1, <2>2, <3>2 DEF EditShape
      <4> QED BY <2>1, <2>2, <4>1 DEF LookupsAreProven
    <3> QED BY <3>1, <3>2
  <2>3. UniqueHolder'
    BY <2>1 DEF UniqueHolder
  <2>4. LookupsAreProven'
    BY <2>1, <2>2 DEF LookupsAreProven
  <2> QED BY <2>3, <2>4
\* A page becomes verified for the domain that was looked up, if none holds it.
<1>7. ASSUME NEW r \in PageRequests, Writes(r) PROVE UniqueHolder' /\ LookupsAreProven'
  <2>1. UNCHANGED <<hostCache, visit, proven>>
    BY <1>7, WritesShape
  <2>2. CASE Rewritten(r)
    <3> DEFINE p == edit[r].page
    <3>1. /\ p \in Pages
          /\ \A q \in Pages \ {p} : page'[q] = page[q]
          /\ page'[p].live => page[p].live
          /\ page'[p].verified =>
               \/ page'[p].domain = page[p].domain /\ page[p].verified
               \/ edit[r].op = "verify" /\ page'[p].domain = edit[r].domain
                  /\ Holder(page'[p].domain) \subseteq {p}
          /\ edit'[r].op = edit[r].op /\ edit'[r].domain = edit[r].domain /\ edit'[r].page = p
          /\ \A q \in PageRequests \ {r} : edit'[q] = edit[q]
      BY <2>2, <1>t DEF Rewritten
    <3>2. \A q \in Pages : page'[q].verified => page'[q].domain \in proven[q]
      BY <3>1 DEF LookupsAreProven
    <3>3. \A q \in PageRequests : edit'[q].op = "verify" => edit'[q].domain \in proven[edit'[q].page]
      BY <3>1 DEF LookupsAreProven
    <3>4. UniqueHolder'
      BY <3>1 DEF UniqueHolder, Holder
    <3> QED BY <2>1, <3>2, <3>3, <3>4 DEF LookupsAreProven
  <2>3. CASE page' = page /\ edit' = [edit EXCEPT ![r] = IdleEdit]
    BY <1>t, <1>i, <2>1, <2>3 DEF UniqueHolder, LookupsAreProven
  <2> QED BY <1>7, <2>2, <2>3, WritesShape
<1>8. ASSUME NEW r \in PageRequests, Forget(r) PROVE UniqueHolder' /\ LookupsAreProven'
  <2>1. \A v \in Visits : /\ visit'[v].pc = visit[v].pc /\ visit'[v].page = visit[v].page
                          /\ visit'[v].domain = visit[v].domain
    BY <1>8, <1>t DEF Forget, Visit
  <2>2. \A q \in PageRequests : edit'[q].op = "verify" => edit'[q] = edit[q]
    BY <1>8, <1>t, <1>i DEF Forget
  <2>3. \A b \in Processes, e \in Domains :
            hostCache'[b][e] \in Pages => hostCache'[b][e] = hostCache[b][e]
    BY <1>8, <1>t, StatusPageAssumption DEF Forget, Uncached
  <2>4. UNCHANGED <<page, proven>>
    BY <1>8 DEF Forget, stored
  <2>5. UniqueHolder'
    BY <2>4 DEF UniqueHolder
  <2>6. LookupsAreProven'
    BY <2>1, <2>2, <2>3, <2>4 DEF LookupsAreProven
  <2> QED BY <2>5, <2>6
<1>9. ASSUME UNCHANGED <<page, hostCache, visit, edit, proven>>
      PROVE  UniqueHolder' /\ LookupsAreProven'
  BY <1>9 DEF UniqueHolder, LookupsAreProven
<1>10. ASSUME \/ UNCHANGED statusVars \/ ChangePlan
              \/ \E p \in Pages : PublishRecord(p)
              \/ \E a \in Processes, p \in Pages, route \in Routes : ExpirePage(a, p, route)
       PROVE  UniqueHolder' /\ LookupsAreProven'
  BY <1>9, <1>10 DEF statusVars, ChangePlan, PublishRecord, ExpirePage, stored, ghosts
<1> QED
  BY <1>1, <1>2, <1>3, <1>4, <1>5, <1>6, <1>7, <1>8, <1>10
     DEF StatusNext, VisitNext, EditNext, Begins, Writes

-----------------------------------------------------------------------------
(* The theorems.                                                           *)

LEMMA StatusInvariant ==
    StatusSpec => [](StatusShape /\ ShowsInv /\ UniqueHolder /\ LookupsAreProven)
BY StatusShapeInit, StatusShapeStep, ShowsInit, ShowsStep, ProvenInit, ProvenStep, PTL
   DEF StatusSpec

\* The state of pages, caches, visits and settings requests is well typed.
THEOREM StatusTypeOKAlways == StatusSpec => []StatusTypeOK
BY StatusInvariant, PTL DEF StatusShape

\* A process does not go on showing what it changed itself, unless it was
\* rendering the page when it changed it (ChangesShowAtOnce has no exception, and
\* does not hold).
THEOREM OwnChangesShowAlways == StatusSpec => []OwnChangesShow
BY StatusInvariant, PTL DEF ShowsInv

\* Hosts route where DNS said, and no two pages hold one verified domain.
THEOREM RoutesAreProvenAlways == StatusSpec => []RoutesAreProven
<1>1. UniqueHolder /\ LookupsAreProven => RoutesAreProven
  <2> SUFFICES ASSUME UniqueHolder, LookupsAreProven PROVE RoutesAreProven
    OBVIOUS
  <2>1. ASSUME NEW d \in Domains PROVE Cardinality(Holder(d)) <= 1
    <3>1. CASE Holder(d) = {}
      BY <3>1, FS_EmptySet
    <3>2. CASE Holder(d) # {}
      <4>1. PICK p \in Holder(d) : TRUE
        BY <3>2
      <4>2. Holder(d) = {p}
        BY <2>1, <4>1 DEF UniqueHolder, Holder
      <4>3. Cardinality({p}) = 1
        BY FS_Singleton
      <4> QED BY <4>2, <4>3
    <3> QED BY <3>1, <3>2
  <2> QED BY <2>1 DEF RoutesAreProven, LookupsAreProven
<1> QED BY <1>1, StatusInvariant, PTL

-----------------------------------------------------------------------------
(* Admission.                                                              *)

\* What a request carries, by the way it came and the place it has got to.
CallShape(it) ==
    /\ it.pc # "idle" => it.process \in ApiProcesses
    /\ it.pc \in {"key", "quota"} => it.by = "key"
    /\ it.pc # "idle" /\ it.by = "key" =>
          it.key \in ApiKeys /\ it.wants \in {"read", "website"}
    /\ it.pc # "idle" /\ it.wants \in {"apiKey", "rotation"} => it.key \in ApiKeys
    /\ it.pc # "idle" /\ it.wants = "website" => it.url \in Urls
    /\ it.pc \in {"count", "insert"} => it.wants \in {"website", "apiKey"}
    /\ it.pc # "idle" /\ it.by = "session" => it.wants # "read"
    /\ it.pc = "rotate" => it.wants = "rotation"
    /\ it.pc = "quota" => it.plan = "agency"

AdmissionShape ==
    /\ AdmissionTypeOK
    /\ \A q \in Calls : CallShape(call[q])

Window == [count: Nat, resetAt: Nat]

\* Numbers the proofs use of the constants.
LEMMA AdmissionConstants ==
    /\ KeyLimit \in Nat /\ KeyLimit >= 1 /\ WindowLength \in Nat /\ WindowLength >= 1
    /\ SweepInterval \in Nat /\ MaxClock \in Nat /\ MaxRotations \in Nat /\ MaxRotations >= 1
    /\ \A p \in OrgPlans : PlanLimits[p] \in [websites: Nat, apiKeys: Nat, perDay: Nat]
BY ApiAdmissionAssumption DEF OrgPlans

LEMMA IdleCallType == IdleCall \in Call /\ CallShape(IdleCall) /\ IdleCall.pc = "idle"
<1>1. 0 \in 0 .. MaxRotations
  BY AdmissionConstants
<1> QED BY <1>1 DEF IdleCall, Call, CallShape, OrgPlans

LEMMA CallReplaced ==
    ASSUME AdmissionShape, NEW q \in Calls, NEW it \in Call, CallShape(it),
           call' = [call EXCEPT ![q] = it]
    PROVE  call' \in [Calls -> Call] /\ \A o \in Calls : CallShape(call'[o])
BY DEF AdmissionShape, AdmissionTypeOK

LEMMA RefusedCall ==
    ASSUME AdmissionShape, NEW q \in Calls, Refuse(q)
    PROVE  /\ call' \in [Calls -> Call] /\ \A o \in Calls : CallShape(call'[o])
           /\ call'[q].pc = "idle" /\ \A o \in Calls \ {q} : call'[o] = call[o]
BY IdleCallType, CallReplaced DEF Refuse, AdmissionShape, AdmissionTypeOK

\* A request goes on to a place its way leads to.
LEMMA CallGoesOn ==
    ASSUME AdmissionShape, NEW q \in Calls, Go(q, "organization") \/ Go(q, "count") \/ Go(q, "insert"),
           call[q].pc \in {"key", "quota", "count"},
           Go(q, "count") => call[q].wants # "read",
           Go(q, "insert") => call[q].pc = "count"
    PROVE  /\ call' \in [Calls -> Call] /\ \A o \in Calls : CallShape(call'[o])
           /\ \A o \in Calls \ {q} : call'[o] = call[o]
<1>1. call[q] \in Call /\ CallShape(call[q])
  BY DEF AdmissionShape, AdmissionTypeOK
<1>2. ASSUME NEW pc \in {"organization", "count", "insert"}, Go(q, pc),
             pc = "count" => call[q].wants # "read", pc = "insert" => call[q].pc = "count"
      PROVE  /\ call' \in [Calls -> Call] /\ \A o \in Calls : CallShape(call'[o])
             /\ \A o \in Calls \ {q} : call'[o] = call[o]
  <2> DEFINE it == [call[q] EXCEPT !.pc = pc]
  <2>1. it \in Call /\ CallShape(it)
    BY <1>1, <1>2 DEF Call, CallShape
  <2>2. call' = [call EXCEPT ![q] = it]
    BY <1>2 DEF Go
  <2> HIDE DEF it
  <2> QED BY <2>1, <2>2, CallReplaced DEF AdmissionShape, AdmissionTypeOK
<1> QED BY <1>2

LEMMA NoWindowType == NoWindow \in Window /\ NoWindow.resetAt = 0 /\ NoWindow.count = 0
BY DEF NoWindow, Window

\* A sweep forgets windows that are over and no other.
LEMMA SweepForgets ==
    ASSUME AdmissionShape, NEW a \in ApiProcesses, NEW b \in Buckets
    PROVE  /\ Sweep(a) \in [Buckets -> Window]
           /\ \/ Sweep(a)[b] = windows[a][b]
              \/ windows[a][b].resetAt <= clock /\ Sweep(a)[b] = NoWindow
<1>1. windows[a] \in [Buckets -> Window]
  BY DEF AdmissionShape, AdmissionTypeOK, Window
<1> QED BY <1>1, NoWindowType DEF Sweep

\* What consuming from a bucket does to the windows of the process.
LEMMA ConsumeShape ==
    ASSUME AdmissionShape, NEW a \in ApiProcesses, NEW b \in Buckets, Consume(a, b)
    PROVE  /\ windows' \in [ApiProcesses -> [Buckets -> Window]]
           /\ lastSweep' \in [ApiProcesses -> 0 .. MaxClock]
           /\ \A c \in ApiProcesses \ {a} : windows'[c] = windows[c]
           /\ windows'[a][b] = Counted(a, b)
           /\ IF windows[a][b].resetAt <= clock
              THEN Counted(a, b) = [count |-> 1, resetAt |-> clock + WindowLength]
              ELSE Counted(a, b) = [count |-> windows[a][b].count + 1,
                                    resetAt |-> windows[a][b].resetAt]
           /\ \A o \in Buckets \ {b} :
                 \/ windows'[a][o] = windows[a][o]
                 \/ windows[a][o].resetAt <= clock /\ windows'[a][o].resetAt = 0
<1>t. /\ windows \in [ApiProcesses -> [Buckets -> Window]] /\ clock \in 0 .. MaxClock
      /\ lastSweep \in [ApiProcesses -> 0 .. MaxClock]
  BY DEF AdmissionShape, AdmissionTypeOK, Window
<1>1. Sweep(a) \in [Buckets -> Window]
  BY SweepForgets
<1>2. windows[a][b] \in Window /\ clock \in Nat
  BY <1>t, AdmissionConstants
<1>3. IF windows[a][b].resetAt <= clock
      THEN Counted(a, b) = [count |-> 1, resetAt |-> clock + WindowLength]
      ELSE Counted(a, b) = [count |-> windows[a][b].count + 1,
                            resetAt |-> windows[a][b].resetAt]
  <2>1. CASE windows[a][b].resetAt <= clock
    <3>1. Sweep(a)[b].resetAt <= clock
      BY <1>2, <2>1, NoWindowType, SweepForgets
    <3> QED BY <2>1, <3>1 DEF Counted
  <2>2. CASE ~(windows[a][b].resetAt <= clock)
    <3>1. Sweep(a)[b] = windows[a][b]
      BY <2>2, SweepForgets
    <3> QED BY <1>2, <2>2, <3>1 DEF Counted, Window
  <2> QED BY <2>1, <2>2
<1>4. Counted(a, b) \in Window
  <2>1. clock + WindowLength \in Nat /\ windows[a][b].count + 1 \in Nat
    BY <1>2, AdmissionConstants DEF Window
  <2> QED BY <1>2, <1>3, <2>1 DEF Window
<1>5. windows' = [windows EXCEPT ![a] = [Sweep(a) EXCEPT ![b] = Counted(a, b)]]
      /\ lastSweep' \in {lastSweep, [lastSweep EXCEPT ![a] = clock]}
  BY DEF Consume
<1>6. \A o \in Buckets \ {b} :
          \/ windows'[a][o] = windows[a][o]
          \/ windows[a][o].resetAt <= clock /\ windows'[a][o].resetAt = 0
  BY <1>t, <1>1, <1>5, SweepForgets, NoWindowType
<1> QED BY <1>t, <1>1, <1>3, <1>4, <1>5, <1>6

LEMMA AdmissionShapeInit == AdmissionInit => AdmissionShape
<1> SUFFICES ASSUME AdmissionInit PROVE AdmissionShape
  OBVIOUS
<1>1. 0 \in 0 .. MaxClock /\ 0 \in 0 .. MaxRotations
  BY AdmissionConstants
<1>2. NoKey \in ApiKeyDoc
  BY <1>1 DEF NoKey, ApiKeyDoc
<1>3. windows \in [ApiProcesses -> [Buckets -> Window]]
  BY NoWindowType DEF AdmissionInit
<1>4. call \in [Calls -> Call] /\ \A q \in Calls : CallShape(call[q])
  BY IdleCallType DEF AdmissionInit
<1>5. admitted \in [ApiProcesses -> [ApiKeys -> Seq(0 .. MaxClock)]]
  <2>1. <<>> \in Seq(0 .. MaxClock)
    OBVIOUS
  <2> QED BY <2>1 DEF AdmissionInit
<1> QED BY <1>1, <1>2, <1>3, <1>4, <1>5
   DEF AdmissionInit, AdmissionShape, AdmissionTypeOK, OrgPlans, Window

\* A request arrives: it is let in as "fields", or refused and nothing is kept.
LEMMA ArriveShape ==
    ASSUME AdmissionShape, NEW q \in Calls, NEW a \in ApiProcesses, NEW fields \in Call,
           CallShape(fields), Arrive(q, a, fields)
    PROVE  /\ AdmissionShape'
           /\ call[q].pc = "idle"
           /\ call' = call \/ call' = [call EXCEPT ![q] = fields]
<1>1. "address" \in Buckets
  BY DEF Buckets
<1>2. /\ windows' \in [ApiProcesses -> [Buckets -> Window]]
      /\ lastSweep' \in [ApiProcesses -> 0 .. MaxClock]
  BY <1>1, ConsumeShape DEF Arrive
<1>3. call' = call \/ call' = [call EXCEPT ![q] = fields]
  BY DEF Arrive
<1>4. call' \in [Calls -> Call] /\ \A o \in Calls : CallShape(call'[o])
  BY <1>3, CallReplaced DEF AdmissionShape, AdmissionTypeOK
<1> QED BY <1>2, <1>3, <1>4
        DEF Arrive, documents, admissionHistory, AdmissionShape, AdmissionTypeOK, Window

\* Every arrival is one of these.
LEMMA ArrivalsShape ==
    ASSUME AdmissionShape, Arrivals
    PROVE  \E q \in Calls, a \in ApiProcesses, fields \in Call :
               /\ Arrive(q, a, fields) /\ CallShape(fields)
               /\ fields.pc \in {"key", "organization"}
<1>0. 0 \in 0 .. MaxRotations
  BY AdmissionConstants
<1>1. ASSUME NEW q \in Calls, NEW a \in ApiProcesses, NEW k \in ApiKeys,
             NEW s \in 1 .. MaxRotations, NEW wants \in {"read", "website"},
             NEW url \in Urls \cup {None}, wants = "website" => url \in Urls,
             ArriveWithKey(q, a, k, s, wants, url)
      PROVE  \E fields \in Call : /\ Arrive(q, a, fields) /\ CallShape(fields)
                                  /\ fields.pc \in {"key", "organization"}
  <2> DEFINE it == [IdleCall EXCEPT !.pc = "key", !.by = "key", !.process = a, !.key = k,
                         !.secret = s, !.wants = wants, !.url = url]
  <2>1. s \in 0 .. MaxRotations
    BY AdmissionConstants
  <2>2. it \in Call /\ CallShape(it) /\ it.pc = "key"
    BY <1>1, <2>1 DEF IdleCall, Call, CallShape, OrgPlans
  <2>3. Arrive(q, a, it)
    BY <1>1 DEF ArriveWithKey
  <2> HIDE DEF it
  <2> QED BY <2>2, <2>3
<1>2. ASSUME NEW q \in Calls, NEW a \in ApiProcesses, NEW k \in ApiKeys \cup {None},
             NEW wants \in {"website", "apiKey", "rotation"}, NEW url \in Urls \cup {None},
             wants = "website" => url \in Urls, wants # "website" => k \in ApiKeys,
             ArriveWithSession(q, a, wants, k, url)
      PROVE  \E fields \in Call : /\ Arrive(q, a, fields) /\ CallShape(fields)
                                  /\ fields.pc \in {"key", "organization"}
  <2> DEFINE it == [IdleCall EXCEPT !.pc = "organization", !.process = a, !.wants = wants,
                      !.key = k, !.url = url]
  <2>1. it \in Call /\ CallShape(it) /\ it.pc = "organization"
    BY <1>0, <1>2 DEF IdleCall, Call, CallShape, OrgPlans
  <2>2. Arrive(q, a, it)
    BY <1>2 DEF ArriveWithSession
  <2> HIDE DEF it
  <2> QED BY <2>1, <2>2
<1> QED BY <1>1, <1>2 DEF Arrivals

LEMMA AdmissionShapeStep == AdmissionShape /\ [AdmissionNext]_admissionVars => AdmissionShape'
<1> SUFFICES ASSUME AdmissionShape, [AdmissionNext]_admissionVars PROVE AdmissionShape'
  OBVIOUS
<1>t. /\ clock \in 0 .. MaxClock /\ orgPlan \in OrgPlans /\ usage \in [Days -> Nat]
      /\ served \in [Days -> Nat] /\ entitledTo \in [Resources -> Nat]
      /\ admitted \in [ApiProcesses -> [ApiKeys -> Seq(0 .. MaxClock)]]
      /\ apiKey \in [ApiKeys -> ApiKeyDoc]
      /\ \A q \in Calls : call[q] \in Call /\ CallShape(call[q])
  BY DEF AdmissionShape, AdmissionTypeOK
<1>1. CASE Arrivals
  BY <1>1, ArrivalsShape, ArriveShape
<1>2. ASSUME NEW q \in Calls, AuthenticateKey(q) PROVE AdmissionShape'
  <2>1. call' \in [Calls -> Call] /\ \A o \in Calls : CallShape(call'[o])
    <3>1. CASE Refuse(q)
      BY <3>1, RefusedCall
    <3>2. CASE Go(q, "organization")
      <4> DEFINE it == [call[q] EXCEPT !.pc = "organization"]
      <4>1. it \in Call /\ CallShape(it)
        BY <1>2, <1>t DEF AuthenticateKey, Call, CallShape
      <4>2. call' = [call EXCEPT ![q] = it]
        BY <3>2 DEF Go
      <4> HIDE DEF it
      <4> QED BY <4>1, <4>2, CallReplaced
    <3> QED BY <1>2, <3>1, <3>2 DEF AuthenticateKey
  <2> QED BY <1>2, <2>1
          DEF AuthenticateKey, documents, budgets, admissionHistory, AdmissionShape, AdmissionTypeOK
<1>3. ASSUME NEW q \in Calls, ReadOrganization(q) PROVE AdmissionShape'
  <2> DEFINE a == call[q].process
             k == call[q].key
  <2>0. UNCHANGED <<clock, documents, usage, served, entitledTo>> /\ call[q].pc = "organization"
    BY <1>3 DEF ReadOrganization
  <2>1. CASE call[q].by = "session"
    <3> DEFINE pc == IF call[q].wants = "rotation" THEN "rotate" ELSE "count"
               it == [call[q] EXCEPT !.plan = orgPlan, !.pc = pc]
    <3>1. call' = [call EXCEPT ![q] = it] /\ UNCHANGED <<budgets, admitted>>
      BY <1>3, <2>1 DEF ReadOrganization
    <3>2. /\ pc \in {"rotate", "count"} /\ (pc = "count" => call[q].wants # "rotation")
          /\ pc = "rotate" => call[q].wants = "rotation"
      OBVIOUS
    <3> HIDE DEF pc
    <3>3. it \in Call /\ CallShape(it)
      BY <1>t, <2>0, <2>1, <3>2 DEF Call, CallShape
    <3> HIDE DEF it
    <3> QED BY <2>0, <3>1, <3>3, CallReplaced
            DEF documents, budgets, AdmissionShape, AdmissionTypeOK
  <2>2. CASE call[q].by # "session" /\ ~HasApiAccess(orgPlan)
    <3>1. Refuse(q) /\ UNCHANGED <<budgets, admitted>>
      BY <1>3, <2>2 DEF ReadOrganization
    <3> QED BY <2>0, <3>1, RefusedCall
            DEF documents, budgets, AdmissionShape, AdmissionTypeOK
  <2>3. CASE call[q].by # "session" /\ HasApiAccess(orgPlan)
    <3>1. a \in ApiProcesses /\ k \in ApiKeys /\ k \in Buckets /\ call[q].by = "key"
      BY <1>t, <2>0, <2>3 DEF CallShape, Call, Buckets
    <3>2. /\ Consume(a, k)
          /\ \/ /\ call' = [call EXCEPT ![q].plan = orgPlan, ![q].pc = "quota"]
                /\ admitted' = [admitted EXCEPT ![a][k] = Append(@, clock)]
             \/ Refuse(q) /\ UNCHANGED admitted
      BY <1>3, <2>3 DEF ReadOrganization
    <3>3. /\ windows' \in [ApiProcesses -> [Buckets -> Window]]
          /\ lastSweep' \in [ApiProcesses -> 0 .. MaxClock]
      BY <3>1, <3>2, ConsumeShape
    <3>4. call' \in [Calls -> Call] /\ \A o \in Calls : CallShape(call'[o])
      <4> DEFINE it == [call[q] EXCEPT !.plan = orgPlan, !.pc = "quota"]
      <4>1. it \in Call /\ CallShape(it)
        BY <1>t, <2>0, <2>3, <3>1 DEF Call, CallShape, HasApiAccess
      <4>2. call' = [call EXCEPT ![q] = it] \/ Refuse(q)
        BY <3>2
      <4> HIDE DEF it
      <4> QED BY <4>1, <4>2, CallReplaced, RefusedCall
    <3>5. admitted' \in [ApiProcesses -> [ApiKeys -> Seq(0 .. MaxClock)]]
      <4>1. Append(admitted[a][k], clock) \in Seq(0 .. MaxClock)
        <5>1. admitted[a][k] \in Seq(0 .. MaxClock) /\ clock \in 0 .. MaxClock
          BY <1>t, <3>1
        <5> QED BY <5>1
      <4> DEFINE times == Append(admitted[a][k], clock)
                 row == [admitted[a] EXCEPT ![k] = times]
      <4>2. row \in [ApiKeys -> Seq(0 .. MaxClock)]
        BY <1>t, <3>1, <4>1
      <4>3. admitted' \in {admitted, [admitted EXCEPT ![a] = row]}
        BY <3>2
      <4> HIDE DEF row
      <4> QED BY <1>t, <3>1, <4>2, <4>3
    <3> QED BY <2>0, <3>3, <3>4, <3>5 DEF documents, AdmissionShape, AdmissionTypeOK, Window
  <2> QED BY <2>1, <2>2, <2>3
<1>4. ASSUME NEW q \in Calls, CountAgainstQuota(q) PROVE AdmissionShape'
  <2>1. usage' = [usage EXCEPT ![Today] = usage[Today] + 1]
        /\ served' \in {served, [served EXCEPT ![Today] = served[Today] + 1]}
    BY <1>4 DEF CountAgainstQuota
  <2>2. usage' \in [Days -> Nat] /\ served' \in [Days -> Nat]
    <3>1. \A d \in Days : usage[d] + 1 \in Nat /\ served[d] + 1 \in Nat
      BY <1>t
    <3>2. CASE Today \in Days
      <4>1. usage[Today] + 1 \in Nat /\ served[Today] + 1 \in Nat
        BY <3>1, <3>2
      <4> QED BY <1>t, <2>1, <4>1
    <3>3. CASE Today \notin Days
      BY <1>t, <2>1, <3>3
    <3> QED BY <3>2, <3>3
  <2>3. call' \in [Calls -> Call] /\ \A o \in Calls : CallShape(call'[o])
    <3>1. \/ Refuse(q)
          \/ Go(q, "count") /\ call[q].wants # "read"
      BY <1>4 DEF CountAgainstQuota
    <3>2. CASE Go(q, "count") /\ call[q].wants # "read"
      <4> DEFINE it == [call[q] EXCEPT !.pc = "count"]
      <4>1. it \in Call /\ CallShape(it)
        BY <1>4, <1>t, <3>2 DEF CountAgainstQuota, Call, CallShape
      <4>2. call' = [call EXCEPT ![q] = it]
        BY <3>2 DEF Go
      <4> HIDE DEF it
      <4> QED BY <4>1, <4>2, CallReplaced
    <3> QED BY <3>1, <3>2, RefusedCall
  <2> QED BY <1>4, <2>2, <2>3
          DEF CountAgainstQuota, documents, budgets, AdmissionShape, AdmissionTypeOK
<1>5. ASSUME NEW q \in Calls, AssertWithinLimit(q) PROVE AdmissionShape'
  <2> DEFINE x == ResourceOf(call[q].wants)
             limit == LimitsFor(call[q].plan)[x]
  <2>1. limit \in Nat /\ x \in Resources
    BY <1>t, AdmissionConstants DEF LimitsFor, ResourceOf, Resources, Call
  <2>2. entitledTo' \in [Resources -> Nat]
    BY <1>5, <1>t, <2>1 DEF AssertWithinLimit
  <2>3. call' \in [Calls -> Call] /\ \A o \in Calls : CallShape(call'[o])
    <3>1. CASE Go(q, "insert")
      <4> DEFINE it == [call[q] EXCEPT !.pc = "insert"]
      <4>1. it \in Call /\ CallShape(it)
        BY <1>5, <1>t DEF AssertWithinLimit, Call, CallShape
      <4>2. call' = [call EXCEPT ![q] = it]
        BY <3>1 DEF Go
      <4> HIDE DEF it
      <4> QED BY <4>1, <4>2, CallReplaced
    <3> QED BY <1>5, <3>1, RefusedCall DEF AssertWithinLimit
  <2> QED BY <1>5, <2>2, <2>3
          DEF AssertWithinLimit, documents, budgets, AdmissionShape, AdmissionTypeOK
<1>6. ASSUME NEW q \in Calls, CreateWebsite(q) PROVE AdmissionShape'
  <2>1. call[q].url \in Urls
    BY <1>6, <1>t DEF CreateWebsite, CallShape
  <2> QED BY <1>6, <2>1, RefusedCall
          DEF CreateWebsite, budgets, admissionHistory, AdmissionShape, AdmissionTypeOK
<1>7. ASSUME NEW q \in Calls, IssueKey(q) PROVE AdmissionShape'
  <2>1. PICK scopes \in SUBSET {"monitors:read", "monitors:write"} :
            apiKey' = [apiKey EXCEPT ![call[q].key] =
                         [state |-> "active", secret |-> 1, scopes |-> scopes]]
    BY <1>7 DEF IssueKey
  <2>2. [state |-> "active", secret |-> 1, scopes |-> scopes] \in ApiKeyDoc
    BY AdmissionConstants DEF ApiKeyDoc
  <2>3. apiKey' \in [ApiKeys -> ApiKeyDoc]
    BY <1>t, <2>1, <2>2
  <2> QED BY <1>7, <2>3, RefusedCall
          DEF IssueKey, budgets, admissionHistory, AdmissionShape, AdmissionTypeOK
<1>8. ASSUME NEW q \in Calls, RotateKey(q) PROVE AdmissionShape'
  <2> DEFINE k == call[q].key
             n == apiKey[k].secret + 1
             doc == [apiKey[k] EXCEPT !.secret = n]
  <2>1. k \in ApiKeys /\ apiKey[k].secret < MaxRotations
    BY <1>8, <1>t DEF RotateKey, CallShape, Call
  <2>2. n \in 0 .. MaxRotations
    BY <1>t, <2>1, AdmissionConstants DEF ApiKeyDoc
  <2>3. apiKey' = apiKey \/ apiKey' = [apiKey EXCEPT ![k] = doc]
    BY <1>8 DEF RotateKey
  <2> HIDE DEF n
  <2>4. doc \in ApiKeyDoc
    BY <1>t, <2>1, <2>2 DEF ApiKeyDoc
  <2> HIDE DEF doc
  <2>5. apiKey' \in [ApiKeys -> ApiKeyDoc]
    BY <1>t, <2>3, <2>4
  <2> QED BY <1>8, <2>5, RefusedCall
          DEF RotateKey, budgets, admissionHistory, AdmissionShape, AdmissionTypeOK
<1>9. ASSUME NEW k \in ApiKeys, NEW state \in {"revoked", "expired"}, EndKey(k, state)
      PROVE  AdmissionShape'
  <2>1. apiKey' \in [ApiKeys -> ApiKeyDoc]
    BY <1>9, <1>t DEF EndKey, ApiKeyDoc
  <2> QED BY <1>9, <2>1 DEF EndKey, budgets, admissionHistory, AdmissionShape, AdmissionTypeOK
<1>10. ASSUME NEW u \in Urls, DeleteWebsite(u) PROVE AdmissionShape'
  BY <1>10 DEF DeleteWebsite, budgets, admissionHistory, AdmissionShape, AdmissionTypeOK
<1>11. CASE SwitchPlan
  BY <1>11 DEF SwitchPlan, budgets, admissionHistory, AdmissionShape, AdmissionTypeOK
<1>12. CASE Tick
  <2>1. clock' \in 0 .. MaxClock
    BY <1>12, <1>t, AdmissionConstants DEF Tick
  <2> QED BY <1>12, <2>1
          DEF Tick, documents, budgets, admissionHistory, AdmissionShape, AdmissionTypeOK
<1>13. CASE UNCHANGED admissionVars
  BY <1>13 DEF admissionVars, AdmissionShape, AdmissionTypeOK
<1> QED
  BY <1>1, <1>2, <1>3, <1>4, <1>5, <1>6, <1>7, <1>8, <1>9, <1>10, <1>11, <1>12, <1>13
     DEF AdmissionNext

-----------------------------------------------------------------------------
(* Counting before writing.                                                *)

\* The calls that were counted for a resource and have not written yet.
Inserting(x) == {q \in Calls : call[q].pc = "insert" /\ ResourceOf(call[q].wants) = x}

\* Every call that is about to write was counted with room for one more.
Overshoot(x) ==
    IF entitledTo[x] > 0
    THEN Used(x) + Cardinality(Inserting(x)) <= entitledTo[x] + Cardinality(Calls) - 1
    ELSE Used(x) = 0 /\ Inserting(x) = {}

OvershootInv ==
    /\ IsFiniteSet(site) /\ IsFiniteSet(ActiveKeys)
    /\ \A x \in Resources : Overshoot(x)

LEMMA OneElementMore ==
    ASSUME NEW S, IsFiniteSet(S), NEW e
    PROVE  /\ IsFiniteSet(S \cup {e}) /\ Cardinality(S \cup {e}) \in Nat
           /\ Cardinality(S) \in Nat /\ Cardinality(S \cup {e}) <= Cardinality(S) + 1
<1>1. IsFiniteSet(S \cup {e})
  BY FS_AddElement
<1>2. Cardinality(S \cup {e}) \in Nat /\ Cardinality(S) \in Nat
  BY <1>1, FS_CardinalityType
<1>3. Cardinality(S \cup {e}) = Cardinality(S) \/ Cardinality(S \cup {e}) = Cardinality(S) + 1
  BY FS_AddElement
<1> QED BY <1>1, <1>2, <1>3

LEMMA CountsAreNumbers ==
    ASSUME OvershootInv, NEW x \in Resources
    PROVE  /\ Used(x) \in Nat /\ IsFiniteSet(Inserting(x))
           /\ Cardinality(Inserting(x)) \in Nat /\ Cardinality(Calls) \in Nat
           /\ Cardinality(Inserting(x)) <= Cardinality(Calls)
<1>1. IsFiniteSet(Inserting(x)) /\ Cardinality(Inserting(x)) <= Cardinality(Calls)
  BY ApiAdmissionAssumption, FS_Subset DEF Inserting
<1>2. Cardinality(Inserting(x)) \in Nat /\ Cardinality(Calls) \in Nat
  BY <1>1, ApiAdmissionAssumption, FS_CardinalityType
<1>3. Used(x) \in Nat
  BY FS_CardinalityType DEF OvershootInv, Used
<1> QED BY <1>1, <1>2, <1>3

\* A step that adds nothing and counts nobody.
LEMMA NothingCounted ==
    ASSUME AdmissionShape, OvershootInv, entitledTo' = entitledTo,
           site' \subseteq site, ActiveKeys' \subseteq ActiveKeys,
           \A x \in Resources : Inserting(x)' \subseteq Inserting(x)
    PROVE  OvershootInv'
<1>1. IsFiniteSet(site') /\ IsFiniteSet(ActiveKeys') /\ OvershootInv
  BY FS_Subset DEF OvershootInv
<1>2. \A x \in Resources : Used(x)' <= Used(x) /\ Used(x)' \in Nat
  BY <1>1, FS_Subset, FS_CardinalityType DEF OvershootInv, Used
<1>3. ASSUME NEW x \in Resources PROVE Overshoot(x)'
  <2>1. /\ Cardinality(Inserting(x)') <= Cardinality(Inserting(x))
        /\ Cardinality(Inserting(x)') \in Nat
    BY CountsAreNumbers, FS_Subset, FS_CardinalityType
  <2>2. entitledTo[x] \in Nat
    BY DEF AdmissionShape, AdmissionTypeOK
  <2>3. CASE entitledTo[x] > 0
    <3>1. Used(x) + Cardinality(Inserting(x)) <= entitledTo[x] + Cardinality(Calls) - 1
      BY <2>3 DEF OvershootInv, Overshoot
    <3>2. Used(x)' + Cardinality(Inserting(x)') <= entitledTo[x] + Cardinality(Calls) - 1
      BY <1>2, <2>1, <2>2, <3>1, CountsAreNumbers
    <3> QED BY <2>3, <3>2 DEF Overshoot
  <2>4. CASE ~(entitledTo[x] > 0)
    <3>1. Used(x) = 0 /\ Inserting(x) = {}
      BY <2>4 DEF OvershootInv, Overshoot
    <3>2. Used(x)' = 0 /\ Inserting(x)' = {}
      BY <1>2, <3>1
    <3> QED BY <2>4, <3>2 DEF Overshoot
  <2> QED BY <2>3, <2>4
<1> QED BY <1>1, <1>3 DEF OvershootInv

\* A call that leaves the handlers, or goes anywhere but on to write.
LEMMA NobodyInserts ==
    ASSUME AdmissionShape, NEW q \in Calls,
           \A o \in Calls \ {q} : call'[o] = call[o],
           call'[q].pc = "insert" => call'[q] = call[q]
    PROVE  \A x \in Resources : Inserting(x)' \subseteq Inserting(x)
BY DEF Inserting

\* A counted call writes: one more of its resource, one fewer about to.
LEMMA OneInserted ==
    ASSUME AdmissionShape, OvershootInv, NEW q \in Calls, NEW y \in Resources,
           q \in Inserting(y), \A x \in Resources : Inserting(x)' = Inserting(x) \ {q},
           entitledTo' = entitledTo,
           IsFiniteSet(site'), IsFiniteSet(ActiveKeys'),
           Used(y)' \in Nat, Used(y)' <= Used(y) + 1,
           \A x \in Resources \ {y} : Used(x)' = Used(x)
    PROVE  OvershootInv'
<1>1. ASSUME NEW x \in Resources PROVE Overshoot(x)'
  <2>1. CASE x = y
    <3>1. Cardinality(Inserting(y)') = Cardinality(Inserting(y)) - 1
          /\ Cardinality(Inserting(y)) \in Nat /\ Cardinality(Calls) \in Nat /\ Used(y) \in Nat
      BY CountsAreNumbers, FS_RemoveElement
    <3>2. entitledTo[y] > 0
          /\ Used(y) + Cardinality(Inserting(y)) <= entitledTo[y] + Cardinality(Calls) - 1
      BY DEF OvershootInv, Overshoot
    <3>3. entitledTo[y] \in Nat
      BY DEF AdmissionShape, AdmissionTypeOK
    <3>4. Used(y)' + Cardinality(Inserting(y)') <= entitledTo[y] + Cardinality(Calls) - 1
      BY <3>1, <3>2, <3>3
    <3> QED BY <2>1, <3>2, <3>4 DEF Overshoot
  <2>2. CASE x # y
    <3>1. q \notin Inserting(x)
      BY <2>2 DEF Inserting
    <3>2. Inserting(x)' = Inserting(x) /\ Used(x)' = Used(x)
      BY <2>2, <3>1
    <3>3. Overshoot(x)
      BY DEF OvershootInv
    <3> QED BY <3>2, <3>3 DEF Overshoot
  <2> QED BY <2>1, <2>2
<1> QED BY <1>1 DEF OvershootInv

LEMMA OvershootStep ==
    AdmissionShape /\ OvershootInv /\ [AdmissionNext]_admissionVars => OvershootInv'
<1> SUFFICES ASSUME AdmissionShape, OvershootInv, [AdmissionNext]_admissionVars
             PROVE  OvershootInv'
  OBVIOUS
<1>t. /\ call \in [Calls -> Call] /\ entitledTo \in [Resources -> Nat]
      /\ apiKey \in [ApiKeys -> ApiKeyDoc]
      /\ \A q \in Calls : call[q] \in Call /\ CallShape(call[q])
  BY DEF AdmissionShape, AdmissionTypeOK
<1>r. ASSUME UNCHANGED call PROVE \A x \in Resources : Inserting(x)' \subseteq Inserting(x)
  BY <1>r DEF Inserting
<1>k. ASSUME UNCHANGED apiKey PROVE ActiveKeys' = ActiveKeys
  BY <1>k DEF ActiveKeys
<1>1. CASE Arrivals
  <2>1. PICK q \in Calls, a \in ApiProcesses, fields \in Call :
            Arrive(q, a, fields) /\ CallShape(fields) /\ fields.pc \in {"key", "organization"}
    BY <1>1, ArrivalsShape
  <2>2. call' = call \/ call' = [call EXCEPT ![q] = fields]
    BY <2>1, ArriveShape
  <2>3. \A x \in Resources : Inserting(x)' \subseteq Inserting(x)
    BY <1>t, <1>r, <2>1, <2>2, NobodyInserts
  <2> QED BY <1>k, <2>1, <2>3, NothingCounted DEF Arrive, documents, admissionHistory
<1>2. ASSUME NEW q \in Calls,
             AuthenticateKey(q) \/ ReadOrganization(q) \/ CountAgainstQuota(q) \/ RotateKey(q)
      PROVE  OvershootInv'
  <2>1. /\ site' = site /\ entitledTo' = entitledTo
        /\ apiKey' = apiKey \/ RotateKey(q)
    BY <1>2 DEF AuthenticateKey, ReadOrganization, CountAgainstQuota, RotateKey, documents,
                admissionHistory
  <2>2. ActiveKeys' \subseteq ActiveKeys
    <3>1. CASE apiKey' = apiKey
      BY <3>1, <1>k
    <3>2. CASE RotateKey(q) /\ apiKey' # apiKey
      <4> DEFINE doc == [apiKey[call[q].key] EXCEPT !.secret = apiKey[call[q].key].secret + 1]
      <4>1. apiKey' = [apiKey EXCEPT ![call[q].key] = doc]
        BY <3>2 DEF RotateKey
      <4>2. call[q].key \in ApiKeys
        BY <1>t, <3>2 DEF RotateKey, CallShape
      <4>3. doc.state = apiKey[call[q].key].state
        BY <1>t, <4>2 DEF ApiKeyDoc
      <4> HIDE DEF doc
      <4> QED BY <1>t, <4>1, <4>2, <4>3 DEF ActiveKeys
    <3> QED BY <2>1, <3>1, <3>2
  <2>3. call'[q].pc # "insert" /\ \A o \in Calls \ {q} : call'[o] = call[o]
    <3>1. CASE Refuse(q)
      BY <3>1, RefusedCall
    <3>2. CASE Go(q, "organization") \/ Go(q, "count")
      BY <1>t, <3>2 DEF Go, Call
    <3>3. CASE /\ ~Refuse(q) /\ ReadOrganization(q)
      <4>1. PICK pc \in {"quota", "rotate", "count"} :
                call' = [call EXCEPT ![q] = [call[q] EXCEPT !.plan = orgPlan, !.pc = pc]]
        BY <3>3 DEF ReadOrganization
      <4>2. [call[q] EXCEPT !.plan = orgPlan, !.pc = pc].pc = pc
        BY <1>t DEF Call
      <4> QED BY <1>t, <4>1, <4>2
    <3> QED BY <1>2, <3>1, <3>2, <3>3 DEF AuthenticateKey, CountAgainstQuota, RotateKey
  <2>4. \A x \in Resources : Inserting(x)' \subseteq Inserting(x)
    BY <2>3, NobodyInserts
  <2> QED BY <2>1, <2>2, <2>4, NothingCounted
\* Counted with room for one more, whatever others are about to write.
<1>3. ASSUME NEW q \in Calls, AssertWithinLimit(q) PROVE OvershootInv'
  <2> DEFINE y == ResourceOf(call[q].wants)
             limit == LimitsFor(call[q].plan)[y]
             top == IF limit > entitledTo[y] THEN limit ELSE entitledTo[y]
  <2>1. /\ entitledTo' = [entitledTo EXCEPT ![y] = top] /\ call[q].pc = "count"
        /\ UNCHANGED <<site, apiKey>>
    BY <1>3 DEF AssertWithinLimit, documents
  <2>2. limit \in Nat /\ y \in Resources /\ entitledTo[y] \in Nat
    BY <1>t, AdmissionConstants DEF LimitsFor, ResourceOf, Resources, Call
  <2>3. top \in Nat /\ top >= limit /\ top >= entitledTo[y]
    BY <2>2
  <2>4. ActiveKeys' = ActiveKeys /\ IsFiniteSet(site) /\ IsFiniteSet(ActiveKeys)
    BY <1>k, <2>1 DEF OvershootInv
  <2>5. \A x \in Resources : Used(x)' = Used(x)
    BY <2>1, <2>4 DEF Used
  <2>6. \A o \in Calls \ {q} : call'[o] = call[o]
    BY <1>3 DEF AssertWithinLimit, Go, Refuse, AdmissionShape, AdmissionTypeOK
  <2>7. ASSUME NEW x \in Resources PROVE Overshoot(x)'
    <3>1. CASE x # y
      <4>1. Inserting(x)' = Inserting(x)
        <5>1. q \notin Inserting(x) /\ q \notin Inserting(x)'
          <6>1. call'[q].pc = "insert" => ResourceOf(call'[q].wants) = y
            BY <1>3, <1>t, RefusedCall DEF AssertWithinLimit, Go, Call
          <6> QED BY <2>1, <3>1, <6>1 DEF Inserting
        <5> QED BY <2>6, <5>1 DEF Inserting
      <4>2. entitledTo'[x] = entitledTo[x] /\ Overshoot(x)
        BY <1>t, <2>1, <3>1 DEF OvershootInv
      <4> QED BY <2>5, <4>1, <4>2 DEF Overshoot
    <3>2. CASE x = y
      <4>1. entitledTo'[x] = top
        BY <1>t, <2>1, <2>2, <3>2
      <4>n. /\ Used(x) \in Nat /\ Cardinality(Calls) \in Nat /\ IsFiniteSet(Calls)
            /\ Cardinality(Inserting(x)) \in Nat
        BY CountsAreNumbers, ApiAdmissionAssumption
      <4>2. CASE WithinLimit(y, limit)
        <5>1. Cardinality(Inserting(x)') \in Nat /\ Cardinality(Inserting(x)') <= Cardinality(Calls)
          <6>1. Inserting(x)' \subseteq Calls
            BY DEF Inserting
          <6> QED BY <4>n, <6>1, FS_Subset, FS_CardinalityType
        <5>2. Used(x) + 1 <= limit
          BY <3>2, <4>2 DEF WithinLimit
        <5>3. top > 0 /\ Used(x) + Cardinality(Inserting(x)') <= top + Cardinality(Calls) - 1
          BY <2>2, <2>3, <4>n, <5>1, <5>2
        <5> QED BY <2>5, <4>1, <5>3 DEF Overshoot
      <4>3. CASE ~WithinLimit(y, limit)
        <5>1. Refuse(q)
          BY <1>3, <4>3 DEF AssertWithinLimit
        <5>2. Inserting(x)' = Inserting(x)
          BY <2>1, <5>1, <2>6, RefusedCall DEF Inserting
        <5>3. Overshoot(x)
          BY DEF OvershootInv
        <5>4. CASE entitledTo[x] > 0
          <6>1. Used(x) + Cardinality(Inserting(x)) <= entitledTo[x] + Cardinality(Calls) - 1
            BY <5>3, <5>4 DEF Overshoot
          <6>2. top > 0 /\ Used(x) + Cardinality(Inserting(x)) <= top + Cardinality(Calls) - 1
            BY <2>2, <2>3, <3>2, <4>n, <5>4, <6>1
          <6> QED BY <2>5, <4>1, <5>2, <6>2 DEF Overshoot
        <5>5. CASE ~(entitledTo[x] > 0)
          <6>1. Used(x) = 0 /\ Inserting(x) = {}
            BY <5>3, <5>5 DEF Overshoot
          <6>2. Cardinality(Inserting(x)) = 0 /\ Cardinality(Calls) >= 1
            <7>1. {q} \subseteq Calls /\ Cardinality({q}) = 1
              BY FS_Singleton
            <7> QED BY <4>n, <6>1, <7>1, FS_EmptySet, FS_Subset
          <6>3. top > 0 => Used(x) + Cardinality(Inserting(x)) <= top + Cardinality(Calls) - 1
            BY <2>3, <4>n, <6>1, <6>2
          <6> QED BY <2>5, <4>1, <5>2, <6>1, <6>3 DEF Overshoot
        <5> QED BY <5>4, <5>5
      <4> QED BY <4>2, <4>3
    <3> QED BY <3>1, <3>2
  <2> QED BY <2>1, <2>4, <2>7 DEF OvershootInv
<1>4. ASSUME NEW q \in Calls, CreateWebsite(q) \/ IssueKey(q)
      PROVE  \A x \in Resources : Inserting(x)' = Inserting(x) \ {q}
  <2>1. Refuse(q)
    BY <1>4 DEF CreateWebsite, IssueKey
  <2> QED BY <2>1, RefusedCall DEF Inserting
<1>5. ASSUME NEW q \in Calls, CreateWebsite(q) PROVE OvershootInv'
  <2> DEFINE y == "websites"
  <2>1. q \in Inserting(y) /\ y \in Resources
    BY <1>5 DEF CreateWebsite, Inserting, ResourceOf, Resources
  <2>2. /\ site' = site \cup {call[q].url} /\ apiKey' = apiKey /\ entitledTo' = entitledTo
    BY <1>5 DEF CreateWebsite, admissionHistory
  <2>3. /\ IsFiniteSet(site') /\ Cardinality(site') \in Nat
        /\ Cardinality(site') <= Cardinality(site) + 1
    <3>1. IsFiniteSet(site)
      BY DEF OvershootInv
    <3> QED BY <2>2, <3>1, OneElementMore
  <2>4. ActiveKeys' = ActiveKeys /\ IsFiniteSet(ActiveKeys)
    BY <1>k, <2>2 DEF OvershootInv
  <2>5. \A x \in Resources \ {y} : Used(x)' = Used(x)
    BY <2>4 DEF Used
  <2>6. Used(y)' \in Nat /\ Used(y)' <= Used(y) + 1
    BY <2>3 DEF Used
  <2> QED BY <1>4, <1>5, <2>1, <2>2, <2>3, <2>4, <2>5, <2>6, OneInserted
<1>6. ASSUME NEW q \in Calls, IssueKey(q) PROVE OvershootInv'
  <2> DEFINE y == "apiKeys"
  <2>1. q \in Inserting(y) /\ y \in Resources
    BY <1>6 DEF IssueKey, Inserting, ResourceOf, Resources
  <2>2. /\ site' = site /\ entitledTo' = entitledTo
        /\ \A k \in ApiKeys : k # call[q].key => apiKey'[k] = apiKey[k]
    BY <1>6, <1>t DEF IssueKey, admissionHistory
  <2>3. ActiveKeys' \subseteq ActiveKeys \cup {call[q].key} /\ IsFiniteSet(ActiveKeys)
    BY <2>2 DEF ActiveKeys, OvershootInv
  <2>4. /\ IsFiniteSet(ActiveKeys') /\ Cardinality(ActiveKeys') \in Nat
        /\ Cardinality(ActiveKeys') <= Cardinality(ActiveKeys) + 1
    <3>1. /\ IsFiniteSet(ActiveKeys \cup {call[q].key})
          /\ Cardinality(ActiveKeys \cup {call[q].key}) \in Nat
          /\ Cardinality(ActiveKeys \cup {call[q].key}) <= Cardinality(ActiveKeys) + 1
      BY <2>3, OneElementMore
    <3>2. /\ IsFiniteSet(ActiveKeys') /\ Cardinality(ActiveKeys') \in Nat
          /\ Cardinality(ActiveKeys') <= Cardinality(ActiveKeys \cup {call[q].key})
      BY <2>3, <3>1, FS_Subset, FS_CardinalityType
    <3>3. Cardinality(ActiveKeys) \in Nat
      BY <2>3, FS_CardinalityType
    <3> QED BY <3>1, <3>2, <3>3
  <2>5. \A x \in Resources \ {y} : Used(x)' = Used(x)
    BY <2>2 DEF Used, Resources
  <2>6. Used(y)' \in Nat /\ Used(y)' <= Used(y) + 1
    BY <2>4 DEF Used
  <2>7. IsFiniteSet(site')
    BY <2>2 DEF OvershootInv
  <2> QED BY <1>4, <1>6, <2>1, <2>2, <2>4, <2>5, <2>6, <2>7, OneInserted
<1>7. ASSUME NEW k \in ApiKeys, NEW state \in {"revoked", "expired"}, EndKey(k, state)
      PROVE  OvershootInv'
  <2>1. ActiveKeys' \subseteq ActiveKeys
    BY <1>7, <1>t DEF EndKey, ActiveKeys, ApiKeyDoc
  <2> QED BY <1>7, <1>r, <2>1, NothingCounted DEF EndKey, admissionHistory
<1>8. ASSUME NEW u \in Urls, DeleteWebsite(u) PROVE OvershootInv'
  BY <1>8, <1>k, <1>r, NothingCounted DEF DeleteWebsite, admissionHistory
<1>9. CASE SwitchPlan \/ Tick \/ UNCHANGED admissionVars
  BY <1>9, <1>k, <1>r, NothingCounted DEF SwitchPlan, Tick, admissionVars, documents, admissionHistory
<1> QED
  BY <1>1, <1>2, <1>3, <1>5, <1>6, <1>7, <1>8, <1>9 DEF AdmissionNext

LEMMA OvershootInit == AdmissionInit => OvershootInv
<1> SUFFICES ASSUME AdmissionInit PROVE OvershootInv
  OBVIOUS
<1>1. site = {} /\ ActiveKeys = {} /\ \A x \in Resources : Inserting(x) = {} /\ entitledTo[x] = 0
  BY DEF AdmissionInit, ActiveKeys, NoKey, Inserting, IdleCall
<1> QED BY <1>1, FS_EmptySet DEF OvershootInv, Overshoot, Used

LEMMA OvershootIsBoundedByInv == AdmissionShape /\ OvershootInv => OvershootIsBounded
<1> SUFFICES ASSUME AdmissionShape, OvershootInv, NEW x \in Resources, entitledTo[x] > 0
             PROVE  Used(x) <= entitledTo[x] + Cardinality(Calls) - 1
  BY DEF OvershootIsBounded
<1>1. Used(x) + Cardinality(Inserting(x)) <= entitledTo[x] + Cardinality(Calls) - 1
  BY DEF OvershootInv, Overshoot
<1>2. entitledTo[x] \in Nat
  BY DEF AdmissionShape, AdmissionTypeOK
<1> QED BY <1>1, <1>2, CountsAreNumbers

-----------------------------------------------------------------------------
(* Quotas and budgets.                                                     *)

\* What passed a day's quota was counted in the database first.
QuotaHolds ==
    \A d \in Days : served[d] <= usage[d] /\ served[d] <= PlanLimits["agency"].perDay

Smaller(m, n) == IF m <= n THEN m ELSE n

\* The times a process let a key pass, against its window.  While the window
\* runs, the last "m" times may lie in it, the KeyLimit before them are older
\* than its beginning, and those before them older by a whole window more.
BudgetShape(times, w, now) ==
    LET m == Smaller(w.count, KeyLimit) IN
    /\ \A j \in 1 .. Len(times) : times[j] <= now
    /\ \A j \in 1 .. Len(times) :
          j + 2 * KeyLimit <= Len(times) => times[j + 2 * KeyLimit] - times[j] > WindowLength
    /\ IF w.resetAt <= now
       THEN /\ \A j \in 1 .. Len(times) : times[j] < now
            /\ \A j \in 1 .. Len(times) :
                  j + KeyLimit <= Len(times) => times[j] + WindowLength < now
       ELSE /\ w.count >= 1 /\ w.resetAt <= now + WindowLength
            /\ \A j \in 1 .. Len(times) :
                  j + KeyLimit + m <= Len(times) => times[j] + 2 * WindowLength < w.resetAt
            /\ \A j \in 1 .. Len(times) :
                  j + m <= Len(times) => times[j] + WindowLength < w.resetAt

BudgetInv ==
    \A a \in ApiProcesses, k \in ApiKeys : BudgetShape(admitted[a][k], windows[a][k], clock)

Times == Seq(Nat)

LEMMA SmallerIs ==
    ASSUME NEW m \in Nat, NEW n \in Nat
    PROVE  Smaller(m, n) \in Nat /\ Smaller(m, n) <= n /\ (m <= n => Smaller(m, n) = m)
           /\ (m > n => Smaller(m, n) = n)
BY DEF Smaller

\* A budget whose window is over, or forgotten, is held by any window that is over.
LEMMA BudgetExpires ==
    ASSUME NEW times \in Times, NEW w \in Window, NEW now \in Nat, NEW later \in Nat,
           now <= later, BudgetShape(times, w, now), w.resetAt <= later,
           NEW v \in Window, v.resetAt <= later
    PROVE  BudgetShape(times, v, later)
<1> DEFINE m == Smaller(w.count, KeyLimit)
<1>n. /\ m \in Nat /\ m <= KeyLimit /\ KeyLimit \in Nat /\ WindowLength \in Nat
      /\ w.resetAt \in Nat /\ Len(times) \in Nat /\ \A j \in 1 .. Len(times) : times[j] \in Nat
  <2>1. KeyLimit \in Nat /\ WindowLength \in Nat
    BY AdmissionConstants
  <2>2. w.resetAt \in Nat /\ w.count \in Nat
    BY DEF Window
  <2>3. m \in Nat /\ m <= KeyLimit
    BY <2>1, <2>2, SmallerIs
  <2>4. Len(times) \in Nat /\ \A j \in 1 .. Len(times) : times[j] \in Nat
    BY DEF Times
  <2> QED BY <2>1, <2>2, <2>3, <2>4
<1>1. \A j \in 1 .. Len(times) : times[j] <= later
  BY <1>n DEF BudgetShape
<1>2. \A j \in 1 .. Len(times) : j + KeyLimit <= Len(times) => times[j] + WindowLength < later
  <2> SUFFICES ASSUME NEW j \in 1 .. Len(times), j + KeyLimit <= Len(times)
               PROVE  times[j] + WindowLength < later
    OBVIOUS
  <2>1. CASE w.resetAt <= now
    <3>1. times[j] + WindowLength < now
      BY <2>1 DEF BudgetShape
    <3> QED BY <1>n, <3>1
  <2>2. CASE ~(w.resetAt <= now)
    <3>1. j + m <= Len(times)
      BY <1>n
    <3>2. times[j] + WindowLength < w.resetAt
      BY <2>2, <3>1 DEF BudgetShape
    <3> HIDE DEF m
    <3> QED BY <1>n, <3>2
  <2> QED BY <2>1, <2>2
<1>3. \A j \in 1 .. Len(times) : times[j] < later
  <2>1. CASE w.resetAt <= now
    <3>1. \A j \in 1 .. Len(times) : times[j] < now
      BY <2>1 DEF BudgetShape
    <3> QED BY <1>n, <3>1
  <2>2. CASE ~(w.resetAt <= now)
    <3>1. \A j \in 1 .. Len(times) : times[j] <= now
      BY DEF BudgetShape
    <3> QED BY <1>n, <2>2, <3>1
  <2> QED BY <2>1, <2>2
<1> QED BY <1>1, <1>2, <1>3 DEF BudgetShape

\* Time passes while the window runs.
LEMMA BudgetRuns ==
    ASSUME NEW times \in Times, NEW w \in Window, NEW now \in Nat, NEW later \in Nat,
           now <= later, BudgetShape(times, w, now), later < w.resetAt
    PROVE  BudgetShape(times, w, later)
<1>n. /\ WindowLength \in Nat /\ w.resetAt \in Nat
      /\ \A j \in 1 .. Len(times) : times[j] \in Nat
  BY AdmissionConstants DEF Window, Times
<1>1. ~(w.resetAt <= now) /\ ~(w.resetAt <= later)
  BY <1>n
<1>2. w.resetAt <= later + WindowLength /\ \A j \in 1 .. Len(times) : times[j] <= later
  BY <1>n, <1>1 DEF BudgetShape
<1> QED BY <1>1, <1>2 DEF BudgetShape

\* One more is let pass, in a new window or in the one that runs.
LEMMA BudgetLetsPass ==
    ASSUME NEW times \in Times, NEW w \in Window, NEW now \in Nat,
           BudgetShape(times, w, now), NEW v \in Window,
           IF w.resetAt <= now
           THEN v = [count |-> 1, resetAt |-> now + WindowLength]
           ELSE v = [count |-> w.count + 1, resetAt |-> w.resetAt] /\ v.count <= KeyLimit
    PROVE  BudgetShape(Append(times, now), v, now)
<1> DEFINE more == Append(times, now)
           n == Len(times)
           m == Smaller(w.count, KeyLimit)
           l == Smaller(v.count, KeyLimit)
<1>w. /\ w.count \in Nat /\ w.resetAt \in Nat /\ v.count \in Nat /\ v.resetAt \in Nat
      /\ n \in Nat /\ \A j \in 1 .. n : times[j] \in Nat
  BY DEF Window, Times
<1>n. /\ m \in Nat /\ m <= KeyLimit /\ KeyLimit \in Nat /\ KeyLimit >= 1 /\ l \in Nat
      /\ WindowLength \in Nat /\ WindowLength >= 1 /\ w.count \in Nat /\ w.resetAt \in Nat
      /\ n \in Nat /\ \A j \in 1 .. n : times[j] \in Nat
  BY <1>w, AdmissionConstants, SmallerIs
<1>1. /\ Len(more) = n + 1 /\ more[n + 1] = now
      /\ \A j \in 1 .. n : more[j] = times[j]
  BY DEF Times
<1>2. /\ \A j \in 1 .. n : times[j] <= now
      /\ \A j \in 1 .. n : j + 2 * KeyLimit <= n => times[j + 2 * KeyLimit] - times[j] > WindowLength
  BY DEF BudgetShape
<1>3. v.resetAt > now
  BY <1>n
<1>4. /\ l = IF w.resetAt <= now THEN 1 ELSE m + 1
      /\ ~(w.resetAt <= now) => m + 1 <= KeyLimit
  <2>1. CASE w.resetAt <= now
    <3>1. v.count = 1
      BY <2>1
    <3>2. Smaller(1, KeyLimit) = 1
      BY <1>n, SmallerIs
    <3> QED BY <2>1, <3>1, <3>2
  <2>2. CASE ~(w.resetAt <= now)
    <3>1. v.count = w.count + 1 /\ v.count <= KeyLimit
      BY <2>2
    <3>2. w.count <= KeyLimit /\ v.count \in Nat
      BY <1>n, <3>1
    <3>3. m = w.count /\ l = v.count
      BY <1>n, <3>1, <3>2, SmallerIs
    <3> QED BY <2>2, <3>1, <3>3
  <2> QED BY <2>1, <2>2
\* What is more than a limit back is older than a window, and twice that two.
<1>5. \A j \in 1 .. n : j + KeyLimit + l <= n + 1 => times[j] + 2 * WindowLength < v.resetAt
  <2> SUFFICES ASSUME NEW j \in 1 .. n, j + KeyLimit + l <= n + 1
               PROVE  times[j] + 2 * WindowLength < v.resetAt
    OBVIOUS
  <2>1. CASE w.resetAt <= now
    <3>1. j + KeyLimit <= n
      BY <1>n, <1>4, <2>1
    <3>2. times[j] + WindowLength < now
      BY <2>1, <3>1 DEF BudgetShape
    <3>3. v.resetAt = now + WindowLength
      BY <2>1
    <3> QED BY <1>n, <3>2, <3>3
  <2>2. CASE ~(w.resetAt <= now)
    <3> HIDE DEF m, l
    <3>1. j + KeyLimit + m <= n
      BY <1>n, <1>4, <2>2
    <3> USE DEF m
    <3>2. times[j] + 2 * WindowLength < w.resetAt
      BY <2>2, <3>1 DEF BudgetShape
    <3> QED BY <2>2, <3>2
  <2> QED BY <2>1, <2>2
<1>6. \A j \in 1 .. n : j + l <= n + 1 => times[j] + WindowLength < v.resetAt
  <2> SUFFICES ASSUME NEW j \in 1 .. n, j + l <= n + 1
               PROVE  times[j] + WindowLength < v.resetAt
    OBVIOUS
  <2>1. CASE w.resetAt <= now
    <3>1. v.resetAt = now + WindowLength
      BY <2>1
    <3>2. times[j] < now
      BY <2>1 DEF BudgetShape
    <3> QED BY <1>n, <3>1, <3>2
  <2>2. CASE ~(w.resetAt <= now)
    <3> HIDE DEF m, l
    <3>1. j + m <= n
      BY <1>n, <1>4, <2>2
    <3> USE DEF m
    <3>2. times[j] + WindowLength < w.resetAt
      BY <2>2, <3>1 DEF BudgetShape
    <3> QED BY <2>2, <3>2
  <2> QED BY <2>1, <2>2
<1>7. ASSUME NEW j \in 1 .. n, j + 2 * KeyLimit = n + 1 PROVE now - times[j] > WindowLength
  <2>1. CASE w.resetAt <= now
    <3>1. j + KeyLimit <= n
      BY <1>n, <1>7
    <3>2. times[j] + WindowLength < now
      BY <2>1, <3>1 DEF BudgetShape
    <3> QED BY <1>n, <3>2
  <2>2. CASE ~(w.resetAt <= now)
    <3>1. j + KeyLimit + l <= n + 1
      <4> HIDE DEF m, l
      <4> QED BY <1>n, <1>4, <1>7, <2>2
    <3>2. times[j] + 2 * WindowLength < w.resetAt
      BY <1>5, <2>2, <3>1
    <3>3. w.resetAt <= now + WindowLength
      BY <2>2 DEF BudgetShape
    <3> QED BY <1>n, <3>2, <3>3
  <2> QED BY <2>1, <2>2
<1>8. v.count >= 1 /\ v.resetAt <= now + WindowLength /\ ~(v.resetAt <= now)
  <2>1. CASE w.resetAt <= now
    BY <1>n, <2>1
  <2>2. CASE ~(w.resetAt <= now)
    <3>1. w.resetAt <= now + WindowLength
      BY <2>2 DEF BudgetShape
    <3> QED BY <1>n, <2>2, <3>1
  <2> QED BY <2>1, <2>2
<1>9. \A j \in 1 .. n + 1 : j \in 1 .. n \/ j = n + 1
  BY <1>n
<1>10. \A j \in 1 .. Len(more) : more[j] <= now
  BY <1>n, <1>1, <1>2, <1>9
<1>11. \A j \in 1 .. Len(more) :
          j + 2 * KeyLimit <= Len(more) => more[j + 2 * KeyLimit] - more[j] > WindowLength
  <2> SUFFICES ASSUME NEW j \in 1 .. n + 1, j + 2 * KeyLimit <= n + 1
               PROVE  more[j + 2 * KeyLimit] - more[j] > WindowLength
    BY <1>1
  <2> HIDE DEF more
  <2>1. j \in 1 .. n /\ more[j] = times[j]
    BY <1>n, <1>1
  <2>2. CASE j + 2 * KeyLimit = n + 1
    BY <1>1, <1>7, <2>1, <2>2
  <2>3. CASE j + 2 * KeyLimit <= n
    <3>1. j + 2 * KeyLimit \in 1 .. n
      BY <1>n, <2>1, <2>3
    <3> QED BY <1>1, <1>2, <2>1, <2>3, <3>1
  <2>4. j + 2 * KeyLimit = n + 1 \/ j + 2 * KeyLimit <= n
    <3> HIDE DEF n
    <3> QED BY <1>n
  <2> QED BY <2>2, <2>3, <2>4
<1>12. \A j \in 1 .. Len(more) : j + KeyLimit + l <= Len(more) => more[j] + 2 * WindowLength < v.resetAt
  <2> HIDE DEF more, l
  <2>1. \A j \in 1 .. n + 1 : j + KeyLimit + l <= n + 1 => j \in 1 .. n
    BY <1>n
  <2> QED BY <1>1, <1>5, <2>1
<1>13. l >= 1
  <2> HIDE DEF m, l
  <2> QED BY <1>n, <1>4
<1>14. \A j \in 1 .. Len(more) : j + l <= Len(more) => more[j] + WindowLength < v.resetAt
  <2> HIDE DEF more, l
  <2>1. \A j \in 1 .. n + 1 : j + l <= n + 1 => j \in 1 .. n
    BY <1>n, <1>13
  <2> QED BY <1>1, <1>6, <2>1
<1>15. BudgetShape(more, v, now)
  <2> HIDE DEF more
  <2> QED BY <1>8, <1>10, <1>11, <1>12, <1>14 DEF BudgetShape
<1> QED BY <1>15

\* A request that is refused consumes all the same.
LEMMA BudgetRefuses ==
    ASSUME NEW times \in Times, NEW w \in Window, NEW now \in Nat,
           BudgetShape(times, w, now), ~(w.resetAt <= now), w.count + 1 > KeyLimit,
           NEW v \in Window, v = [count |-> w.count + 1, resetAt |-> w.resetAt]
    PROVE  BudgetShape(times, v, now)
<1>1. v.resetAt = w.resetAt /\ v.count = w.count + 1 /\ v.count \in Nat /\ w.count \in Nat
  BY DEF Window
<1>2. v.count >= 1 /\ w.count >= KeyLimit /\ v.count > KeyLimit
  BY <1>1, AdmissionConstants
<1>3. Smaller(v.count, KeyLimit) = KeyLimit /\ Smaller(w.count, KeyLimit) = KeyLimit
  BY <1>1, <1>2, AdmissionConstants DEF Smaller
<1> QED BY <1>1, <1>2, <1>3 DEF BudgetShape

BudgetsInv == QuotaHolds /\ BudgetInv

LEMMA BudgetsInit == AdmissionInit => BudgetsInv
<1> SUFFICES ASSUME AdmissionInit PROVE BudgetsInv
  OBVIOUS
<1>1. QuotaHolds
  <2>1. PlanLimits["agency"].perDay \in Nat
    BY AdmissionConstants DEF OrgPlans
  <2> QED BY <2>1 DEF AdmissionInit, QuotaHolds
<1>2. ASSUME NEW a \in ApiProcesses, NEW k \in ApiKeys
      PROVE  BudgetShape(admitted[a][k], windows[a][k], clock)
  <2>1. k \in Buckets
    BY DEF Buckets
  <2>2. admitted[a][k] = <<>> /\ windows[a][k] = NoWindow /\ clock = 0
    BY <2>1 DEF AdmissionInit
  <2> QED BY <2>2, NoWindowType DEF BudgetShape
<1> QED BY <1>1, <1>2 DEF BudgetsInv, BudgetInv

LEMMA SequencesOfMore == ASSUME NEW S, NEW T, S \subseteq T PROVE Seq(S) \subseteq Seq(T)
<1> SUFFICES ASSUME NEW s \in Seq(S) PROVE s \in Seq(T)
  OBVIOUS
<1>1. s \in [1 .. Len(s) -> S] /\ Len(s) \in Nat
  OBVIOUS
<1>2. \A i \in 1 .. Len(s) : s[i] \in T
  BY <1>1
<1>3. s = [i \in 1 .. Len(s) |-> s[i]]
  BY <1>1
<1> QED BY <1>1, <1>2, <1>3

LEMMA BudgetTypes ==
    ASSUME AdmissionShape, NEW a \in ApiProcesses, NEW k \in ApiKeys
    PROVE  /\ k \in Buckets /\ clock \in Nat /\ admitted[a][k] \in Times
           /\ windows[a][k] \in Window
<1>1. k \in Buckets
  BY DEF Buckets
<1>2. clock \in Nat /\ admitted[a][k] \in Seq(0 .. MaxClock) /\ windows[a][k] \in Window
  BY <1>1, AdmissionConstants DEF AdmissionShape, AdmissionTypeOK, Window
<1>3. 0 .. MaxClock \subseteq Nat
  BY AdmissionConstants
<1>4. Seq(0 .. MaxClock) \subseteq Times
  BY <1>3, SequencesOfMore DEF Times
<1> QED BY <1>1, <1>2, <1>4

\* Buckets of others: their windows stay, or are over and forgotten.
LEMMA OtherBudgets ==
    ASSUME AdmissionShape, AdmissionShape', BudgetInv, NEW a \in ApiProcesses, NEW b \in Buckets,
           Consume(a, b), clock' = clock,
           NEW c \in ApiProcesses, NEW k \in ApiKeys, c # a \/ k # b,
           admitted'[c][k] = admitted[c][k]
    PROVE  BudgetShape(admitted'[c][k], windows'[c][k], clock')
<1>t. /\ k \in Buckets /\ clock \in Nat /\ admitted[c][k] \in Times
      /\ windows[c][k] \in Window
  BY BudgetTypes
<1>t2. windows'[c][k] \in Window
  BY <1>t DEF AdmissionShape, AdmissionTypeOK, Window
<1>1. BudgetShape(admitted[c][k], windows[c][k], clock)
  BY DEF BudgetInv
<1>2. \/ windows'[c][k] = windows[c][k]
      \/ windows[c][k].resetAt <= clock /\ windows'[c][k].resetAt = 0
  BY <1>t, ConsumeShape
<1>3. CASE windows'[c][k] = windows[c][k]
  BY <1>1, <1>3
<1>4. CASE windows[c][k].resetAt <= clock /\ windows'[c][k].resetAt = 0
  BY <1>t, <1>t2, <1>1, <1>4, BudgetExpires
<1> QED BY <1>2, <1>3, <1>4

LEMMA BudgetsStep ==
    AdmissionShape /\ BudgetsInv /\ [AdmissionNext]_admissionVars => BudgetsInv'
<1> SUFFICES ASSUME AdmissionShape, BudgetsInv, [AdmissionNext]_admissionVars
             PROVE  BudgetsInv'
  OBVIOUS
<1>s. AdmissionShape'
  BY AdmissionShapeStep
<1>t. /\ call \in [Calls -> Call] /\ usage \in [Days -> Nat] /\ served \in [Days -> Nat]
      /\ admitted \in [ApiProcesses -> [ApiKeys -> Seq(0 .. MaxClock)]]
      /\ \A q \in Calls : call[q] \in Call /\ CallShape(call[q])
  BY DEF AdmissionShape, AdmissionTypeOK
<1>k. ASSUME UNCHANGED <<windows, admitted, clock>> PROVE BudgetInv'
  BY <1>k DEF BudgetsInv, BudgetInv
<1>q. ASSUME UNCHANGED <<usage, served>> PROVE QuotaHolds'
  BY <1>q DEF BudgetsInv, QuotaHolds
<1>1. CASE Arrivals
  <2>1. PICK q \in Calls, a \in ApiProcesses, fields \in Call : Arrive(q, a, fields)
    BY <1>1, ArrivalsShape
  <2>2. /\ Consume(a, "address") /\ clock' = clock /\ admitted' = admitted
        /\ UNCHANGED <<usage, served>>
    BY <2>1 DEF Arrive, admissionHistory
  <2>3. "address" \in Buckets /\ "address" \notin ApiKeys
    BY ApiAdmissionAssumption DEF Buckets
  <2>4. BudgetInv'
    BY <1>s, <2>2, <2>3, OtherBudgets DEF BudgetsInv, BudgetInv
  <2> QED BY <1>q, <2>2, <2>4 DEF BudgetsInv
<1>2. ASSUME NEW q \in Calls, ReadOrganization(q) PROVE BudgetsInv'
  <2> DEFINE a == call[q].process
             k == call[q].key
  <2>0. UNCHANGED <<clock, usage, served>> /\ call[q].pc = "organization"
    BY <1>2 DEF ReadOrganization
  <2>1. CASE UNCHANGED <<windows, admitted>>
    BY <1>k, <1>q, <2>0, <2>1 DEF BudgetsInv
  <2>2. CASE ~UNCHANGED <<windows, admitted>>
    <3>1. /\ call[q].by # "session" /\ Consume(a, k)
          /\ IF Allowed(a, k, KeyLimit)
             THEN admitted' = [admitted EXCEPT ![a][k] = Append(@, clock)]
             ELSE UNCHANGED admitted
      BY <1>2, <2>2 DEF ReadOrganization, budgets
    <3>2. a \in ApiProcesses /\ k \in ApiKeys /\ k \in Buckets
      BY <1>t, <2>0, <3>1 DEF CallShape, Call, Buckets
    <3>3. \A c \in ApiProcesses, o \in ApiKeys :
              c # a \/ o # k => admitted'[c][o] = admitted[c][o]
      BY <1>t, <3>1, <3>2
    <3>4. \A c \in ApiProcesses, o \in ApiKeys :
              c # a \/ o # k => BudgetShape(admitted'[c][o], windows'[c][o], clock')
      BY <1>s, <2>0, <3>1, <3>2, <3>3, OtherBudgets DEF BudgetsInv
    <3>5. BudgetShape(admitted'[a][k], windows'[a][k], clock')
      <4> DEFINE times == admitted[a][k]
                 w == windows[a][k]
                 v == windows'[a][k]
      <4>1. times \in Times /\ w \in Window /\ clock \in Nat
        BY <3>2, BudgetTypes
      <4>2. BudgetShape(times, w, clock)
        BY <3>2 DEF BudgetsInv, BudgetInv
      <4>3. /\ v = Counted(a, k)
            /\ IF w.resetAt <= clock
               THEN v = [count |-> 1, resetAt |-> clock + WindowLength]
               ELSE v = [count |-> w.count + 1, resetAt |-> w.resetAt]
        BY <3>1, <3>2, ConsumeShape
      <4>4. v \in Window
        BY <1>s, <3>2 DEF AdmissionShape, AdmissionTypeOK, Window
      <4>5. CASE Allowed(a, k, KeyLimit)
        <5>1. admitted'[a][k] = Append(times, clock)
          BY <1>t, <3>1, <3>2, <4>5
        <5>2. ~(w.resetAt <= clock) => v.count <= KeyLimit
          <6>1. v.count = 1 \/ v.count <= KeyLimit
            BY <4>3, <4>5 DEF Allowed
          <6> QED BY <6>1, AdmissionConstants
        <5>3. BudgetShape(Append(times, clock), v, clock)
          <6> HIDE DEF times, w, v
          <6> QED BY <4>1, <4>2, <4>3, <4>4, <5>2, BudgetLetsPass
        <5> QED BY <2>0, <5>1, <5>3
      <4>6. CASE ~Allowed(a, k, KeyLimit)
        <5>1. admitted'[a][k] = times
          BY <3>1, <4>6
        <5>2. v.count # 1 /\ ~(v.count <= KeyLimit)
          BY <4>3, <4>6 DEF Allowed
        <5>3. ~(w.resetAt <= clock) /\ v = [count |-> w.count + 1, resetAt |-> w.resetAt]
          BY <4>3, <5>2
        <5>4. w.count + 1 > KeyLimit
          <6>1. v.count = w.count + 1
            BY <5>3
          <6>2. w.count \in Nat
            BY <4>1 DEF Window
          <6> QED BY <5>2, <6>1, <6>2, AdmissionConstants
        <5>5. BudgetShape(times, v, clock)
          <6> HIDE DEF times, w, v
          <6> QED BY <4>1, <4>2, <4>4, <5>3, <5>4, BudgetRefuses
        <5> QED BY <2>0, <5>1, <5>5
      <4> QED BY <4>5, <4>6
    <3>6. BudgetInv'
      BY <3>4, <3>5 DEF BudgetInv
    <3> QED BY <1>q, <2>0, <3>6 DEF BudgetsInv
  <2> QED BY <2>1, <2>2
<1>3. ASSUME NEW q \in Calls, CountAgainstQuota(q) PROVE BudgetsInv'
  <2> DEFINE used == usage[Today] + 1
             more == served[Today] + 1
  <2>1. /\ UNCHANGED <<windows, admitted, clock>> /\ call[q].pc = "quota"
        /\ usage' = [usage EXCEPT ![Today] = used]
        /\ \/ served' = served
           \/ served' = [served EXCEPT ![Today] = more] /\ ~OverQuota(used, call[q].plan)
    BY <1>3 DEF CountAgainstQuota, budgets
  <2>2. call[q].plan = "agency"
    BY <1>t, <2>1 DEF CallShape
  <2>n. PlanLimits["agency"].perDay \in Nat
    BY AdmissionConstants DEF OrgPlans
  <2>3. ASSUME NEW d \in Days
        PROVE  served'[d] <= usage'[d] /\ served'[d] <= PlanLimits["agency"].perDay
    <3>1. /\ served[d] <= usage[d] /\ served[d] <= PlanLimits["agency"].perDay
          /\ served[d] \in Nat /\ usage[d] \in Nat
      BY <1>t DEF BudgetsInv, QuotaHolds
    <3>2. CASE d # Today
      BY <1>t, <2>1, <3>1, <3>2
    <3>3. CASE d = Today
      <4>1. usage'[d] = usage[d] + 1
        BY <1>t, <2>1, <3>3
      <4>2. CASE served'[d] = served[d]
        BY <3>1, <4>1, <4>2
      <4>3. CASE served'[d] # served[d]
        <5>1. served'[d] = served[d] + 1 /\ ~OverQuota(usage[d] + 1, "agency")
          BY <1>t, <2>1, <2>2, <3>3, <4>3
        <5>2. usage[d] + 1 <= PlanLimits["agency"].perDay
          BY <2>n, <3>1, <5>1 DEF OverQuota, LimitsFor
        <5> QED BY <2>n, <3>1, <4>1, <5>1, <5>2
      <4> QED BY <4>2, <4>3
    <3> QED BY <3>2, <3>3
  <2>4. QuotaHolds'
    BY <2>3 DEF QuotaHolds
  <2> QED BY <1>k, <2>1, <2>4 DEF BudgetsInv
<1>4. CASE Tick
  <2>1. /\ UNCHANGED <<windows, admitted, usage, served>> /\ clock' = clock + 1
    BY <1>4 DEF Tick, budgets, admissionHistory
  <2>2. ASSUME NEW a \in ApiProcesses, NEW k \in ApiKeys
        PROVE  BudgetShape(admitted[a][k], windows[a][k], clock')
    <3>1. /\ admitted[a][k] \in Times /\ windows[a][k] \in Window /\ clock \in Nat
          /\ windows[a][k].resetAt \in Nat
      BY BudgetTypes DEF Window
    <3>2. clock' \in Nat /\ clock <= clock'
      BY <2>1, <3>1
    <3>3. BudgetShape(admitted[a][k], windows[a][k], clock)
      BY DEF BudgetsInv, BudgetInv
    <3>4. CASE windows[a][k].resetAt <= clock'
      BY <3>1, <3>2, <3>3, <3>4, BudgetExpires
    <3>5. CASE ~(windows[a][k].resetAt <= clock')
      <4>1. clock' < windows[a][k].resetAt
        BY <3>1, <3>2, <3>5
      <4> QED BY <3>1, <3>2, <3>3, <4>1, BudgetRuns
    <3> QED BY <3>4, <3>5
  <2>3. BudgetInv'
    BY <2>1, <2>2 DEF BudgetInv
  <2> QED BY <1>q, <2>1, <2>3 DEF BudgetsInv
<1>5. ASSUME NEW q \in Calls,
             \/ AuthenticateKey(q) \/ AssertWithinLimit(q) \/ CreateWebsite(q) \/ IssueKey(q)
             \/ RotateKey(q)
      PROVE  BudgetsInv'
  <2>1. UNCHANGED <<windows, admitted, clock, usage, served>>
    BY <1>5 DEF AuthenticateKey, AssertWithinLimit, CreateWebsite, IssueKey, RotateKey, budgets,
                admissionHistory
  <2> QED BY <1>k, <1>q, <2>1 DEF BudgetsInv
<1>6. CASE \/ \E k \in ApiKeys, state \in {"revoked", "expired"} : EndKey(k, state)
           \/ \E u \in Urls : DeleteWebsite(u)
           \/ SwitchPlan
           \/ UNCHANGED admissionVars
  <2>1. UNCHANGED <<windows, admitted, clock, usage, served>>
    BY <1>6 DEF EndKey, DeleteWebsite, SwitchPlan, admissionVars, budgets, admissionHistory
  <2> QED BY <1>k, <1>q, <2>1 DEF BudgetsInv
<1> QED BY <1>1, <1>2, <1>3, <1>4, <1>5, <1>6 DEF AdmissionNext

LEMMA BudgetsHoldByInv == BudgetsInv => QuotaIsExact /\ BudgetAtMostDoubled
BY DEF BudgetsInv, QuotaHolds, BudgetInv, BudgetShape, QuotaIsExact, BudgetAtMostDoubled

-----------------------------------------------------------------------------
\* Windows, quotas, keys, websites and the calls in flight have the types the
\* limiter and the schemas give them.
THEOREM AdmissionTypeOKAlways == AdmissionSpec => []AdmissionTypeOK
<1>1. AdmissionShape => AdmissionTypeOK
  BY DEF AdmissionShape
<1> QED BY AdmissionShapeInit, AdmissionShapeStep, <1>1, PTL DEF AdmissionSpec

\* Requests that overlap exceed the limit of a plan by their number at most.
THEOREM OvershootIsBoundedAlways == AdmissionSpec => []OvershootIsBounded
BY AdmissionShapeInit, AdmissionShapeStep, OvershootInit, OvershootStep, OvershootIsBoundedByInv,
   PTL DEF AdmissionSpec

\* The daily quota is exact, for any number of processes, keys and requests.
THEOREM QuotaIsExactAlways == AdmissionSpec => []QuotaIsExact
BY AdmissionShapeInit, AdmissionShapeStep, BudgetsInit, BudgetsStep, BudgetsHoldByInv,
   PTL DEF AdmissionSpec

\* A process admits a key at most twice as often as its limit says within a
\* window's length, for any limit, window and sweep interval.
THEOREM BudgetAtMostDoubledAlways == AdmissionSpec => []BudgetAtMostDoubled
BY AdmissionShapeInit, AdmissionShapeStep, BudgetsInit, BudgetsStep, BudgetsHoldByInv,
   PTL DEF AdmissionSpec

-----------------------------------------------------------------------------
(* All that answers requests.                                              *)

\* Every component's state has the type its documents and variables have.
THEOREM RequestsTypesAlways == RequestsSpec => []RequestsTypeOK
<1>1. BillingTypeOK /\ MemberTypeOK /\ StatusTypeOK /\ AdmissionTypeOK => RequestsTypeOK
  BY DEF RequestsTypeOK
<1> QED BY <1>1, BillingTypeOKAlways, MemberTypeOKAlways, StatusTypeOKAlways, AdmissionTypeOKAlways,
           PTL DEF RequestsSpec

=============================================================================
