----------------------------- MODULE Memberships -----------------------------
(***************************************************************************)
(* Members, invitations and clients of one organization.  Requests read,   *)
(* decide and write in separate database calls, so the checks of one may   *)
(* be overtaken by the writes of another, and a request may die between    *)
(* two of its writes.                                                      *)
(*                                                                         *)
(* A user stands for an account and its address.  A request that is        *)
(* refused changes nothing and is not an action.                           *)
(***************************************************************************)
EXTENDS Shared

CONSTANTS
    Users,         \* accounts; one of them created the organization
    Founder,
    Clients,       \* client documents
    InvitedRoles,  \* the roles the invite flow hands out that occur
    MaxMembers,    \* the seats of the plan
    MemberRequests \* API requests that can be in flight

AssignableRoles == {"admin", "member"}
InternalRoles == {"owner"} \cup AssignableRoles
Roles == InternalRoles \cup {"client"}

ASSUME MembershipAssumption ==
    /\ None \notin Users \cup Clients \cup Roles \cup MemberRequests
    /\ "website" \notin Users
    /\ Founder \in Users
    /\ InvitedRoles \subseteq AssignableRoles
    /\ MaxMembers \in Nat

VARIABLES
    membership,   \* organization_members, by user
    invitation,   \* pending invitation of each address
    client,       \* clients
    siteClient,   \* the client a website is assigned to
    request,      \* requests in flight
    raced,        \* history: requests that counted the owners while another that
                  \* had counted them was about to take one away
    unswept,      \* history: clients archived without the sweep of contacts
    late          \* history: users and websites bound to a client being closed

memberVars == <<membership, invitation, client, siteClient, request,
                raced, unswept, late>>

Website == "website"

NoMember == [role |-> None, client |-> None]
NoInvitation == [role |-> None, client |-> None]

Operations == {"idle", "invite", "accept", "role", "remove", "archive", "delete", "assign"}

\* "live" says that the document the request read by id still exists, "swept"
\* that the archiving read a client already archived.
Request == [op: Operations, pc: {"check", "write", "mark", "sweep", "detach", "drop"},
            user: Users \cup {None}, role: Roles \cup {None},
            client: Clients \cup {None}, live: BOOLEAN, swept: BOOLEAN]

IdleRequest == [op |-> "idle", pc |-> "check", user |-> None, role |-> None,
                client |-> None, live |-> TRUE, swept |-> FALSE]

IsMember(u) == membership[u].role # None
Members == {u \in Users : IsMember(u)}
Owners == {u \in Users : membership[u].role = "owner"}
ContactsOf(c) == {u \in Users : membership[u].role = "client" /\ membership[u].client = c}
CanInvite == \E u \in Users : membership[u].role \in {"owner", "admin"}

MemberInit ==
    /\ membership = [u \in Users |-> IF u = Founder
                                     THEN [role |-> "owner", client |-> None] ELSE NoMember]
    /\ invitation = [u \in Users |-> NoInvitation]
    /\ client = [c \in Clients |-> "none"]
    /\ siteClient = None
    /\ request = [r \in MemberRequests |-> IdleRequest]
    /\ raced = {}
    /\ unswept = {}
    /\ late = {}

-----------------------------------------------------------------------------
memberHistory == <<raced, unswept, late>>

Start(r, fields) ==
    /\ request[r].op = "idle"
    /\ request' = [request EXCEPT ![r] = fields]

In(r, op, pc) == request[r].op = op /\ request[r].pc = pc

Finish(r) == request' = [request EXCEPT ![r] = IdleRequest]
Step(r, pc) == request' = [request EXCEPT ![r].pc = pc]

\* Requests other than r that hold a document of user u by its id lose it.
Lose(reqs, r, ops, users) ==
    [q \in MemberRequests |-> IF q # r /\ reqs[q].op \in ops /\ reqs[q].user \in users
                              THEN [reqs[q] EXCEPT !.live = FALSE] ELSE reqs[q]]

MemberOps == {"role", "remove"}

\* The other requests that are past their checks and about to take the role of
\* one of the given users.
Rivals(r, users) ==
    {q \in MemberRequests \ {r} :
        /\ request[q].op \in MemberOps /\ request[q].pc = "write" /\ request[q].live
        /\ request[q].user \in users /\ request[q].role # "owner"}

\* The client is archived or deleted, or its deletion is under way.
Closing(c) ==
    /\ c # None
    /\ \/ client[c] # "active"
       \/ \E q \in MemberRequests : request[q].op = "delete" /\ request[q].client = c

-----------------------------------------------------------------------------
(* Invitations.                                                            *)

\* invite: seats and membership are checked, then the pending invitation of the
\* address is written.
BeginInvite(r, u, role) ==
    /\ CanInvite /\ Cardinality(Members) < MaxMembers /\ ~IsMember(u)
    /\ Start(r, [IdleRequest EXCEPT !.op = "invite", !.pc = "write", !.user = u, !.role = role])
    /\ UNCHANGED <<membership, invitation, client, siteClient, memberHistory>>

\* inviteContact: the client must be active; no seat is counted.
BeginInviteContact(r, c, u) ==
    /\ CanInvite /\ client[c] = "active" /\ ~IsMember(u)
    /\ Start(r, [IdleRequest EXCEPT !.op = "invite", !.pc = "write", !.user = u,
                                    !.role = "client", !.client = c])
    /\ UNCHANGED <<membership, invitation, client, siteClient, memberHistory>>

\* upsertInvitation refreshes the pending one of the address.
WriteInvitation(r) ==
    /\ In(r, "invite", "write")
    /\ invitation' = [invitation EXCEPT ![request[r].user] =
                         [role |-> request[r].role, client |-> request[r].client]]
    /\ Finish(r)
    /\ UNCHANGED <<membership, client, siteClient, memberHistory>>

RevokeInvitation(u) ==
    /\ CanInvite /\ invitation[u] # NoInvitation
    /\ invitation' = [invitation EXCEPT ![u] = NoInvitation]
    /\ request' = Lose(request, None, {"accept"}, {u})
    /\ UNCHANGED <<membership, client, siteClient, memberHistory>>

\* accept: the pending invitation is read, with whether its user is a member.
BeginAccept(r, u) ==
    /\ invitation[u] # NoInvitation
    /\ Start(r, [IdleRequest EXCEPT !.op = "accept", !.user = u,
                                    !.pc = IF IsMember(u) THEN "mark" ELSE "write",
                                    !.role = invitation[u].role,
                                    !.client = invitation[u].client])
    /\ UNCHANGED <<membership, invitation, client, siteClient, memberHistory>>

\* addMember; the unique index makes a second membership an error.
AddMember(r) ==
    LET u == request[r].user  c == request[r].client IN
    /\ In(r, "accept", "write")
    /\ IF IsMember(u)
       THEN Finish(r) /\ UNCHANGED <<membership, late>>
       ELSE /\ Step(r, "mark")
            /\ membership' = [membership EXCEPT ![u] = [role |-> request[r].role, client |-> c]]
            /\ late' = IF Closing(c) THEN late \cup {u} ELSE late \ {u}
    /\ UNCHANGED <<invitation, client, siteClient, raced, unswept>>

MarkAccepted(r) ==
    LET u == request[r].user IN
    /\ In(r, "accept", "mark")
    /\ IF request[r].live /\ invitation[u] # NoInvitation
       THEN /\ invitation' = [invitation EXCEPT ![u] = NoInvitation]
            /\ request' = Lose([request EXCEPT ![r] = IdleRequest], r, {"accept"}, {u})
       ELSE Finish(r) /\ UNCHANGED invitation
    /\ UNCHANGED <<membership, client, siteClient, memberHistory>>

-----------------------------------------------------------------------------
(* Roles and removal, by an owner.                                         *)

\* The target is read; the last owner's role is counted in a call of its own.
BeginMemberChange(r, op, u, role) ==
    /\ membership[u].role \in InternalRoles
    /\ op = "role" => Owners \ {u} # {}     \* nobody changes their own role
    /\ op = "remove" => Owners # {} /\ role = None
    /\ LET loses == membership[u].role = "owner" /\ role # "owner"
       IN Start(r, [IdleRequest EXCEPT !.op = op, !.pc = IF loses THEN "check" ELSE "write",
                                       !.user = u, !.role = role])
    /\ UNCHANGED <<membership, invitation, client, siteClient, memberHistory>>

\* History: who counts along with another, and whom it counts along with.
RacedBy(r) == IF Rivals(r, Owners) = {} THEN {} ELSE {r} \cup Rivals(r, Owners)

\* Mutant: a role that is lost by demotion is not counted.
AssertNotLastOwnerOnRemoval(r) ==
    /\ request[r].op \in MemberOps /\ request[r].pc = "check"
    /\ IF request[r].op = "remove" /\ Cardinality(Owners) <= 1
       THEN Finish(r) /\ UNCHANGED raced
       ELSE Step(r, "write") /\ raced' = raced \cup RacedBy(r)
    /\ UNCHANGED <<membership, invitation, client, siteClient, unswept, late>>

\* assertNotLastOwner
AssertNotLastOwner(r) ==
    /\ request[r].op \in MemberOps /\ request[r].pc = "check"
    /\ IF Cardinality(Owners) <= 1
       THEN Finish(r) /\ UNCHANGED raced
       ELSE Step(r, "write") /\ raced' = raced \cup RacedBy(r)
    /\ UNCHANGED <<membership, invitation, client, siteClient, unswept, late>>

\* A member promoted after it was read as something else escapes the check.
UpdateRole(r) ==
    LET u == request[r].user IN
    /\ In(r, "role", "write")
    /\ IF request[r].live
       THEN /\ membership' = [membership EXCEPT ![u].role = request[r].role]
            /\ raced' = (raced \cup IF request[r].role = "owner" THEN Rivals(r, {u}) ELSE {}) \ {r}
       ELSE UNCHANGED membership /\ raced' = raced \ {r}
    /\ Finish(r)
    /\ UNCHANGED <<invitation, client, siteClient, unswept, late>>

RemoveMember(r) ==
    LET u == request[r].user IN
    /\ In(r, "remove", "write")
    /\ IF request[r].live
       THEN /\ membership' = [membership EXCEPT ![u] = NoMember]
            /\ request' = Lose([request EXCEPT ![r] = IdleRequest], r, MemberOps, {u})
       ELSE Finish(r) /\ UNCHANGED membership
    /\ raced' = raced \ {r}
    /\ UNCHANGED <<invitation, client, siteClient, unswept, late>>

-----------------------------------------------------------------------------
(* Clients.                                                                *)

CreateClient(c) ==
    /\ CanInvite /\ client[c] = "none"
    /\ client' = [client EXCEPT ![c] = "active"]
    /\ UNCHANGED <<membership, invitation, siteClient, request, memberHistory>>

RestoreClient(c) ==
    /\ CanInvite /\ client[c] = "archived"
    /\ client' = [client EXCEPT ![c] = "active"]
    /\ UNCHANGED <<membership, invitation, siteClient, request, memberHistory>>

RevokeContact(u) ==
    /\ CanInvite /\ membership[u].role = "client"
    /\ membership' = [membership EXCEPT ![u] = NoMember]
    /\ request' = Lose(request, None, MemberOps, {u})
    /\ UNCHANGED <<invitation, client, siteClient, memberHistory>>

\* update with status "archived": read, write the status, revoke all access.
BeginArchive(r, c) ==
    /\ CanInvite /\ client[c] \in {"active", "archived"}
    /\ Start(r, [IdleRequest EXCEPT !.op = "archive", !.pc = "write", !.client = c,
                                    !.swept = client[c] = "archived"])
    /\ UNCHANGED <<membership, invitation, client, siteClient, memberHistory>>

ArchiveClient(r) ==
    LET c == request[r].client IN
    /\ In(r, "archive", "write")
    /\ IF client[c] = "deleted"
       THEN Finish(r) /\ UNCHANGED <<client, unswept>>
       ELSE /\ client' = [client EXCEPT ![c] = "archived"]
            /\ IF request[r].swept THEN Finish(r) ELSE Step(r, "sweep")
            /\ unswept' = IF request[r].swept /\ client[c] = "active"
                          THEN unswept \cup {c} ELSE unswept
    /\ UNCHANGED <<membership, invitation, siteClient, raced, late>>

\* delete: revoke all access, detach the websites, delete the client.
BeginDeleteClient(r, c) ==
    /\ CanInvite /\ client[c] \in {"active", "archived"}
    /\ Start(r, [IdleRequest EXCEPT !.op = "delete", !.pc = "sweep", !.client = c])
    /\ UNCHANGED <<membership, invitation, client, siteClient, memberHistory>>

\* Mutant: access is revoked when the client is deleted only.
RevokeAllAccessOnDeletion(r) ==
    LET c == request[r].client
        users == IF request[r].op = "delete" THEN ContactsOf(c) ELSE {}
    IN /\ request[r].op \in {"archive", "delete"} /\ request[r].pc = "sweep"
       /\ membership' = [u \in Users |-> IF u \in users THEN NoMember ELSE membership[u]]
       /\ request' = Lose([request EXCEPT ![r] = IF request[r].op = "archive" THEN IdleRequest
                                                 ELSE [request[r] EXCEPT !.pc = "detach"]],
                          r, MemberOps, users)
       /\ unswept' = unswept \ {c}
       /\ UNCHANGED <<invitation, client, siteClient, raced, late>>

RevokeAllAccess(r) ==
    LET c == request[r].client IN
    /\ request[r].op \in {"archive", "delete"} /\ request[r].pc = "sweep"
    /\ membership' = [u \in Users |-> IF u \in ContactsOf(c) THEN NoMember ELSE membership[u]]
    /\ request' = Lose([request EXCEPT ![r] = IF request[r].op = "archive" THEN IdleRequest
                                              ELSE [request[r] EXCEPT !.pc = "detach"]],
                       r, MemberOps, ContactsOf(c))
    /\ unswept' = unswept \ {c}
    /\ UNCHANGED <<invitation, client, siteClient, raced, late>>

\* Mutant: a client is deleted without detaching its websites.
DetachNothing(r) ==
    /\ In(r, "delete", "detach")
    /\ Step(r, "drop")
    /\ UNCHANGED <<membership, invitation, client, siteClient, memberHistory>>

DetachClient(r) ==
    /\ In(r, "delete", "detach")
    /\ siteClient' = IF siteClient = request[r].client THEN None ELSE siteClient
    /\ Step(r, "drop")
    /\ UNCHANGED <<membership, invitation, client, memberHistory>>

DeleteClient(r) ==
    LET c == request[r].client IN
    /\ In(r, "delete", "drop")
    /\ client' = [client EXCEPT ![c] = "deleted"]
    /\ Finish(r)
    /\ UNCHANGED <<membership, invitation, siteClient, memberHistory>>

\* A website is assigned to a client that was seen to exist.
BeginAssignWebsite(r, c) ==
    /\ CanInvite /\ client[c] \in {"active", "archived"}
    /\ Start(r, [IdleRequest EXCEPT !.op = "assign", !.pc = "write", !.client = c])
    /\ UNCHANGED <<membership, invitation, client, siteClient, memberHistory>>

AssignWebsite(r) ==
    LET c == request[r].client IN
    /\ In(r, "assign", "write")
    /\ siteClient' = c
    /\ late' = IF Closing(c) THEN late \cup {Website} ELSE late \ {Website}
    /\ Finish(r)
    /\ UNCHANGED <<membership, invitation, client, raced, unswept>>

\* The process dies, or a call fails, between two calls of a request.
RequestDies(r) ==
    /\ request[r].op # "idle"
    /\ unswept' = IF In(r, "archive", "sweep") THEN unswept \cup {request[r].client} ELSE unswept
    /\ raced' = raced \ {r}
    /\ Finish(r)
    /\ UNCHANGED <<membership, invitation, client, siteClient, late>>

-----------------------------------------------------------------------------
\* Accepting is the same for members and contacts.
InvitationNext ==
    \/ \E r \in MemberRequests : WriteInvitation(r)
    \/ \E u \in Users : RevokeInvitation(u)
    \/ \E r \in MemberRequests, u \in Users : BeginAccept(r, u)
    \/ \E r \in MemberRequests : AddMember(r)
    \/ \E r \in MemberRequests : MarkAccepted(r)
    \/ \E r \in MemberRequests : RequestDies(r)

StaffNext ==
    \/ \E r \in MemberRequests, u \in Users, role \in InvitedRoles : BeginInvite(r, u, role)
    \/ \E r \in MemberRequests, u \in Users, role \in {"owner", "client"} \cup InvitedRoles :
         BeginMemberChange(r, "role", u, role)
    \/ \E r \in MemberRequests, u \in Users : BeginMemberChange(r, "remove", u, None)
    \/ \E r \in MemberRequests : AssertNotLastOwner(r)
    \/ \E r \in MemberRequests : UpdateRole(r)
    \/ \E r \in MemberRequests : RemoveMember(r)

ClientNext ==
    \/ \E c \in Clients : CreateClient(c)
    \/ \E c \in Clients : RestoreClient(c)
    \/ \E u \in Users : RevokeContact(u)
    \/ \E r \in MemberRequests, c \in Clients, u \in Users : BeginInviteContact(r, c, u)
    \/ \E r \in MemberRequests, c \in Clients : BeginArchive(r, c)
    \/ \E r \in MemberRequests : ArchiveClient(r)
    \/ \E r \in MemberRequests, c \in Clients : BeginDeleteClient(r, c)
    \/ \E r \in MemberRequests : RevokeAllAccess(r)
    \/ \E r \in MemberRequests : DetachClient(r)
    \/ \E r \in MemberRequests : DeleteClient(r)
    \/ \E r \in MemberRequests, c \in Clients : BeginAssignWebsite(r, c)
    \/ \E r \in MemberRequests : AssignWebsite(r)

MemberNext == InvitationNext \/ StaffNext \/ ClientNext

MemberSpec == MemberInit /\ [][MemberNext]_memberVars

MemberTypeOK ==
    /\ membership \in [Users -> [role: Roles \cup {None}, client: Clients \cup {None}]]
    /\ invitation \in [Users -> [role: Roles \cup {None}, client: Clients \cup {None}]]
    /\ client \in [Clients -> {"none", "active", "archived", "deleted"}]
    /\ siteClient \in Clients \cup {None}
    /\ request \in [MemberRequests -> Request]
    /\ raced \subseteq MemberRequests
    /\ unswept \subseteq Clients
    /\ late \subseteq Users \cup {Website}

-----------------------------------------------------------------------------
(* Properties.                                                             *)

\* "An organization must always keep at least one owner" (assertNotLastOwner).
AlwaysAnOwner == Owners # {}

\* What the check achieves: the last owner is only ever demoted or removed by a
\* request that counted the owners while another one, past its own count, was
\* about to take an owner away.  A request that counted alone never is the one,
\* however promotions, demotions and removals are ordered around it.
OwnerRemains ==
    [][Owners # {} /\ Owners' = {} =>
          \E r \in raced : request[r].op \in MemberOps /\ request'[r].op = "idle"]_memberVars

\* A contact who accepted while the client was active has no access once the
\* client is archived and its sweep has run (update: "Archiving closes the
\* portal"); a sweep that was cut off, or skipped on a stale read, is not made up
\* for, and an invitation still pending admits a contact afterwards.
ArchivedClientIsClosed ==
    \A c \in Clients : client[c] = "archived" =>
        \/ c \in unswept
        \/ \E r \in MemberRequests : In(r, "archive", "sweep") /\ request[r].client = c
        \/ ContactsOf(c) \subseteq late

\* Nothing bound to a client outlives its deletion, except what was bound while
\* the deletion ran or after it.
NothingOutlivesDeletion ==
    \A c \in Clients : client[c] = "deleted" =>
        /\ ContactsOf(c) \subseteq late
        /\ siteClient = c => Website \in late
=============================================================================
