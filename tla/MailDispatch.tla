---------------------------- MODULE MailDispatch ----------------------------
(***************************************************************************)
(* One alert and the mails it becomes: who wants it, one record and one    *)
(* mail for each of them, retries of a transient failure, and how it went. *)
(* Any number of jobs may dispatch the same alert, one after another or at *)
(* the same time; the unique index on the records keeps them apart.        *)
(*                                                                         *)
(* The provider may accept a mail without its answer being heard.          *)
(***************************************************************************)
EXTENDS Shared

CONSTANTS
    Members,            \* members of the organization
    Dispatchers,        \* dispatches of the alert, in all processes
    MailAttempts,       \* NOTIFICATION_MAX_ATTEMPTS
    MaxMailFaults       \* bound: crashes and database faults

ASSUME MailDispatchAssumption == MailAttempts \in Nat \ {0} /\ MaxMailFaults \in Nat

VARIABLES
    member,       \* users.emailVerified and what notification_settings say
    mailer,       \* email provider: configured or not
    record,       \* notifications of this alert, by recipient
    dispatch,     \* dispatches under way
    sends,        \* history: messages handed to the provider, by recipient
    accepted,     \* history: messages the provider accepted
    unheard,      \* history: accepted ones whose answer was not heard
    mailFaults    \* history: faults so far

mailVars == <<member, mailer, record, dispatch, sends, accepted, unheard, mailFaults>>

\* "unset": no preference stored.
Member == [verified: BOOLEAN, prefers: {"unset", "on", "off"}]

Record == [status: {"none", "pending", "sent", "failed"}, attempts: 0 .. MailAttempts]

Dispatch == [pc: {"idle", "next", "send", "sent", "failed"}, left: SUBSET Members,
             to: Members \cup {None}, attempt: 0 .. MailAttempts]

IdleDispatch == [pc |-> "idle", left |-> {}, to |-> None, attempt |-> 0]

MailInit ==
    /\ member \in [Members -> Member]
    /\ mailer \in BOOLEAN
    /\ record = [u \in Members |-> [status |-> "none", attempts |-> 0]]
    /\ dispatch = [d \in Dispatchers |-> IdleDispatch]
    /\ sends = [u \in Members |-> 0]
    /\ accepted = [u \in Members |-> 0]
    /\ unheard = [u \in Members |-> 0]
    /\ mailFaults = 0

MailHistory == <<sends, accepted, unheard, mailFaults>>

\* A verified address, and no stored preference means notified.
Wants(u) == member[u].verified /\ member[u].prefers # "off"

ResolveRecipients(d) ==
    /\ dispatch[d].pc = "idle"
    /\ dispatch' = [dispatch EXCEPT ![d] =
           [IdleDispatch EXCEPT !.pc = "next", !.left = {u \in Members : Wants(u)}]]
    /\ UNCHANGED <<member, mailer, record, MailHistory>>

\* Mutant: any alert that is not recorded as sent is mailed again.
UnlessSent(u) == record[u].status # "sent"

\* The unique index lets the first record of an alert and recipient in.
Unrecorded(u) == record[u].status = "none"

CreatePending(d, u) ==
    /\ dispatch[d].pc = "next" /\ u \in dispatch[d].left
    /\ IF Unrecorded(u)
       THEN /\ record' = [record EXCEPT ![u].status = "pending"]
            /\ dispatch' = [dispatch EXCEPT ![d].pc = "send", ![d].left = @ \ {u}, ![d].to = u,
                                            ![d].attempt = 1]
       ELSE /\ dispatch' = [dispatch EXCEPT ![d].left = @ \ {u}]
            /\ UNCHANGED record
    /\ UNCHANGED <<member, mailer, MailHistory>>

DispatchEnds(d) ==
    /\ dispatch[d].pc = "next" /\ dispatch[d].left = {}
    /\ dispatch' = [dispatch EXCEPT ![d] = IdleDispatch]
    /\ UNCHANGED <<member, mailer, record, MailHistory>>

\* Mutant: one attempt too many.
AttemptFailedLate(d) ==
    LET next == dispatch[d].attempt + 1
    IN  dispatch' = IF dispatch[d].attempt <= MailAttempts
                    THEN [dispatch EXCEPT ![d].attempt = next]
                    ELSE [dispatch EXCEPT ![d].pc = "failed"]

\* A transient failure is tried again until the attempts are used up.
AttemptFailed(d) ==
    LET next == dispatch[d].attempt + 1
    IN  dispatch' = IF dispatch[d].attempt < MailAttempts
                    THEN [dispatch EXCEPT ![d].attempt = next]
                    ELSE [dispatch EXCEPT ![d].pc = "failed"]

\* The answers of the provider: accepted, or an error it reports or the transport throws.
SendMail(d) ==
    /\ dispatch[d].pc = "send" /\ mailer
    /\ LET u == dispatch[d].to
       IN  /\ sends' = [sends EXCEPT ![u] = @ + 1]
           /\ \/ /\ accepted' = [accepted EXCEPT ![u] = @ + 1]
                 /\ dispatch' = [dispatch EXCEPT ![d].pc = "sent"]
                 /\ UNCHANGED unheard
              \/ AttemptFailed(d) /\ UNCHANGED <<accepted, unheard>>
              \/ /\ accepted' = [accepted EXCEPT ![u] = @ + 1]
                 /\ unheard' = [unheard EXCEPT ![u] = @ + 1]
                 /\ AttemptFailed(d)
    /\ UNCHANGED <<member, mailer, record, mailFaults>>

\* Without a provider the first attempt is the last.
SendNowhere(d) ==
    /\ dispatch[d].pc = "send" /\ ~mailer
    /\ dispatch' = [dispatch EXCEPT ![d].pc = "failed"]
    /\ UNCHANGED <<member, mailer, record, MailHistory>>

\* markSent, markFailed.
MarkRecord(d) ==
    /\ dispatch[d].pc \in {"sent", "failed"}
    /\ record' = [record EXCEPT ![dispatch[d].to] =
                     [status |-> dispatch[d].pc, attempts |-> dispatch[d].attempt]]
    /\ dispatch' = [dispatch EXCEPT ![d] =
           [IdleDispatch EXCEPT !.pc = "next", !.left = dispatch[d].left]]
    /\ UNCHANGED <<member, mailer, MailHistory>>

\* The process stops, or a database call throws out of the dispatch: what is left is not
\* mailed by it.
DispatchStops(d) ==
    /\ dispatch[d].pc # "idle"
    /\ mailFaults < MaxMailFaults
    /\ mailFaults' = mailFaults + 1
    /\ dispatch' = [dispatch EXCEPT ![d] = IdleDispatch]
    /\ UNCHANGED <<member, mailer, record, sends, accepted, unheard>>

ChangePreference(u) ==
    /\ member' = [member EXCEPT ![u].prefers = IF @ = "off" THEN "on" ELSE "off"]
    /\ UNCHANGED <<mailer, record, dispatch, MailHistory>>

MailNext ==
    \/ \E d \in Dispatchers : ResolveRecipients(d) \/ DispatchEnds(d) \/ SendMail(d)
                              \/ SendNowhere(d) \/ MarkRecord(d) \/ DispatchStops(d)
    \/ \E d \in Dispatchers, u \in Members : CreatePending(d, u)
    \/ \E u \in Members : ChangePreference(u)

MailSpec == MailInit /\ [][MailNext]_mailVars

-----------------------------------------------------------------------------
MailTypeOK ==
    /\ member \in [Members -> Member] /\ mailer \in BOOLEAN
    /\ record \in [Members -> Record]
    /\ dispatch \in [Dispatchers -> Dispatch]
    /\ sends \in [Members -> Nat] /\ accepted \in [Members -> Nat] /\ unheard \in [Members -> Nat]
    /\ mailFaults \in 0 .. MaxMailFaults

\* dispatchToRecipients, sendWithRetries: however many jobs dispatch an alert, a person gets
\* it once, and again only after a mail the provider took without being heard; the attempts
\* of all of them together stay within the limit; nobody with an unverified address gets any;
\* and a record says "sent" of a mail that was accepted, and "failed" only when none was heard
\* to be.
AlertMailedOnce ==
    \A u \in Members :
        /\ accepted[u] <= 1 + unheard[u]
        /\ sends[u] <= MailAttempts
        /\ sends[u] > 0 => member[u].verified
        /\ record[u].status = "sent" => accepted[u] > unheard[u]
        /\ record[u].status = "failed" => accepted[u] = unheard[u]
=============================================================================
