------------------------------ MODULE Accounts ------------------------------
(***************************************************************************)
(* Remind's copy of Silicon Accounts: the table accounts, written by      *)
(* signed events, by lookups and by accepted tokens, and the sharing of   *)
(* reminders, whose rules depend on it.                                    *)
(*                                                                         *)
(* Silicon Accounts is outside: it changes an account, sends an event of  *)
(* it at least once and in any order, and answers a lookup with what it   *)
(* shows at that moment, or not at all.  A process that handles an event  *)
(* or refreshes an account reads first, commits later and stores what it  *)
(* read later still; a sharing request is admitted, checked and committed *)
(* at three different moments.                                             *)
(*                                                                         *)
(* Public ids are left out: they are kept by the rules of the custodian.  *)
(***************************************************************************)
EXTENDS Integers, FiniteSets

CONSTANTS
    Carbons,    \* accounts of people
    Silicons,   \* accounts of agents; a Silicon may have a custodian
    NoOne,      \* custodian_uuid IS NULL
    Known,      \* the accounts Remind has a row of at the start
    FirstCustodian,
    Handlers,   \* webhook handlers, API requests and refresh loops
    Requests,   \* sharing requests
    Granule,    \* instants per second: a token's iat has whole seconds
    LookupTtl,  \* accounts_lookup_ttl
    MaxTime     \* bound: the number of stamped steps

None == -1
Members == Carbons \cup Silicons
Custodians == Carbons \cup {NoOne}
Times == 0 .. MaxTime

ASSUME AccountsAssumption ==
    /\ Carbons \cap Silicons = {} /\ Silicons # {}
    /\ NoOne \notin Members
    /\ Known \subseteq Members
    /\ FirstCustodian \in [Silicons -> Custodians]
    /\ Granule \in Nat \ {0}
    /\ LookupTtl \in Nat
    /\ MaxTime \in Nat

VARIABLES
    clock,     \* the last instant something was stamped with
    upstream,  \* Silicon Accounts' own state
    sent,      \* the events it has sent, each may arrive any number of times
    tokens,    \* the access tokens it has issued
    acct,      \* table accounts
    receipts,  \* internal_event_receipts
    grants,    \* reminder_viewers, active rows
    allowed,   \* silicon_allowances, active rows
    handling,  \* what each process is doing
    req        \* what each sharing request is doing

upstreamVars == <<upstream, sent, tokens>>
sharingVars == <<grants, allowed, req>>
accountsVars == <<clock, upstreamVars, acct, receipts, sharingVars, handling>>
----------------------------------------------------------------------------
Status == {"none", "active", "access_removed", "deleted"}
EventTypes == {"custodian_changed", "updated", "signed_out", "access_removed", "deleted"}

\* An account's row; profile is the version of the displayed name and photo.
Rows == [status : Status, custodian : Custodians, custodianAt : Times \cup {None},
         profile : Nat \cup {None}, version : Nat, revoked : Times \cup {None},
         iat : Times \cup {None}, lookedUp : Times \cup {None}]

NoRow == [status |-> "none", custodian |-> NoOne, custodianAt |-> None, profile |-> None,
          version |-> 0, revoked |-> None, iat |-> None, lookedUp |-> None]

RemoteRows == [custodian : Custodians, version : Nat, member : BOOLEAN, deleted : BOOLEAN]

\* An event carries what was so when it occurred; instants name events.
Events == [type : EventTypes, subject : Members, at : Times,
           custodian : Custodians, version : Nat]

\* What a reread found: the lookup's answer and the user base's.
Rereads == [summary : {"none", "active", "deleted"}, custodian : Custodians,
            member : Nat \cup {None}]
NothingRead == [summary |-> "none", custodian |-> NoOne, member |-> None]

Handlings == [pc : {"idle", "apply", "summary", "member"}, subject : Members,
              event : SUBSET Events, reread : Rereads]

\* A grant or an allowance: whose it is, for whom, and who made it.
Entries == [of : Silicons, for : Members, by : Members]

SharingRequests ==
    [pc : {"idle", "admitted", "checked"},
     kind : {"grant", "revoke", "allow", "disallow"}, entry : Entries, circle : SUBSET Members]

\* The variables have their types, and nothing is known of an account without a row.
AccountsTypeOK ==
    /\ clock \in Times
    /\ upstream \in [Members -> RemoteRows]
    /\ sent \subseteq Events
    /\ tokens \subseteq [subject : Members, iat : Times]
    /\ acct \in [Members -> Rows]
    /\ \A a \in Members : acct[a].status = "none" => acct[a] = NoRow
    /\ receipts \subseteq sent
    /\ grants \subseteq Entries
    /\ allowed \subseteq Entries
    /\ handling \in [Handlers -> Handlings]
    /\ req \in [Requests -> SharingRequests]

NoHandling == [pc |-> "idle", subject |-> CHOOSE a \in Members : TRUE, event |-> {},
               reread |-> NothingRead]
NoRequest == [pc |-> "idle", kind |-> "grant", entry |-> CHOOSE x \in Entries : TRUE,
              circle |-> {}]

CustodianAtStart(a) == IF a \in Silicons THEN FirstCustodian[a] ELSE NoOne

AccountsInit ==
    /\ clock = 0
    /\ upstream = [a \in Members |->
          [custodian |-> CustodianAtStart(a), version |-> 0, member |-> TRUE, deleted |-> FALSE]]
    /\ sent = {}
    /\ tokens = {}
    /\ acct = [a \in Members |->
          IF a \in Known
          THEN [NoRow EXCEPT !.status = "active", !.custodian = CustodianAtStart(a),
                             !.custodianAt = 0, !.profile = 0, !.lookedUp = 0, !.iat = 0]
          ELSE NoRow]
    /\ receipts = {}
    /\ grants = {}
    /\ allowed = {}
    /\ handling = [p \in Handlers |-> NoHandling]
    /\ req = [q \in Requests |-> NoRequest]
----------------------------------------------------------------------------
(* Silicon Accounts *)

Later(x, y) == IF x < y THEN y ELSE x
Second(t) == t \div Granule

\* Something happens at an instant of its own.
Stamp ==
    /\ clock < MaxTime
    /\ clock' = clock + 1

Send(type, a, row) ==
    /\ Stamp
    /\ ~upstream[a].deleted
    /\ upstream' = [upstream EXCEPT ![a] = row]
    /\ sent' = sent \cup {[type |-> type, subject |-> a, at |-> clock + 1,
                           custodian |-> row.custodian, version |-> row.version]}
    /\ UNCHANGED <<tokens, acct, receipts, sharingVars, handling>>

RemoteCustodian(s, c) ==
    /\ c # upstream[s].custodian
    /\ Send("custodian_changed", s, [upstream[s] EXCEPT !.custodian = c])

RemoteUpdate(a) == Send("updated", a, [upstream[a] EXCEPT !.version = @ + 1])

RemoteSignOut(a) == Send("signed_out", a, upstream[a])

RemoteAccessRemoved(a) == Send("access_removed", a, [upstream[a] EXCEPT !.member = FALSE])

RemoteDelete(a) == Send("deleted", a, [upstream[a] EXCEPT !.member = FALSE, !.deleted = TRUE])

\* The account signs in to Remind and gets a token.
RemoteSignIn(a) ==
    /\ Stamp
    /\ ~upstream[a].deleted
    /\ upstream' = [upstream EXCEPT ![a].member = TRUE]
    /\ tokens' = tokens \cup {[subject |-> a, iat |-> Second(clock + 1) * Granule]}
    /\ UNCHANGED <<sent, acct, receipts, sharingVars, handling>>

\* The lookup and the user base are read together; each may fail.  The lookup
\* of a deleted account says so, or finds none.
LookupAnswers(a) ==
    LET summaries == {"none"} \cup {IF upstream[a].deleted THEN "deleted" ELSE "active"}
        members   == {None} \cup (IF upstream[a].member THEN {upstream[a].version} ELSE {})
    IN  {[summary |-> s, custodian |-> IF s = "none" THEN NoOne ELSE upstream[a].custodian,
          member |-> m] : s \in summaries, m \in members}
----------------------------------------------------------------------------
(* Writes to accounts *)

\* A row after account.deleted: anonymised, and refused from now on.
Deleted(row, at) ==
    [row EXCEPT !.status = "deleted", !.custodian = NoOne, !.profile = None,
                !.revoked = Later(@, at)]

\* Mutant of Fenced: only what was made for the previous custodian ends.
FencedGrants(entries, s, new) == {x \in entries : x.of = s => x.for # acct[s].custodian}

\* The trigger on custodian_uuid: what the previous custodian made, and what was
\* made for it, ends with its custody.
Fenced(entries, s, new) ==
    LET old == acct[s].custodian
    IN  IF old = NoOne \/ old = new THEN entries
        ELSE {x \in entries : x.of = s => x.for # old /\ x.by # old}

\* Every entry a deleted account is part of ends.
Without(entries, a) == {x \in entries : x.of # a /\ x.for # a}

\* Mutant of Ensured: an event of an unknown account writes to no row.
NotEnsured(row) == row

\* ensure_account: the row of an account that is first heard of.
Ensured(row) == IF row.status = "none" THEN [row EXCEPT !.status = "active"] ELSE row

\* The row of a becomes `row`; the trigger runs when its custodian changes.
WriteRow(a, row) ==
    /\ acct' = [acct EXCEPT ![a] = row]
    /\ grants' = Fenced(grants, a, row.custodian)
    /\ allowed' = Fenced(allowed, a, row.custodian)

WriteDeleted(a, at) ==
    /\ acct' = [acct EXCEPT ![a] = Deleted(Ensured(@), at)]
    /\ grants' = Without(grants, a)
    /\ allowed' = Without(allowed, a)

KeepAccount == UNCHANGED <<acct, grants, allowed>>

\* custodian.changed without a lookup: the event's own data, if nothing newer
\* was observed.
TakeCustodian(row, e) ==
    IF row.custodianAt < e.at /\ e.custodian # NoOne /\ e.subject \in Silicons
    THEN [row EXCEPT !.custodian = e.custodian, !.custodianAt = e.at] ELSE row

\* account.updated without the user base: the event's own data, if its version is newer.
TakeProfile(row, e) ==
    IF row.version >= e.version THEN row
    ELSE [TakeCustodian(row, e) EXCEPT !.profile = e.version, !.version = e.version,
                                       !.custodianAt = Later(row.custodianAt, e.at)]

\* Mutant of Suspends: a removal that arrives late ends a newer sign-in.
SuspendsAlways(row, at) == row.status = "active"

\* Mutant of Suspends: the UPDATE does not look at the status.
SuspendsAny(row, at) == row.iat <= at

\* membership.access_removed suspends unless a newer token was accepted.
Suspends(row, at) == row.status = "active" /\ row.iat <= at

Cut(row, at) == [row EXCEPT !.revoked = Later(@, at)]

\* apply_payload: the event's effect, in the transaction of its receipt.
ApplyPayload(e, reread) ==
    LET a == e.subject
        row == Ensured(acct[a])
    IN  CASE e.type = "custodian_changed" ->
               IF reread.summary # "none" THEN KeepAccount ELSE
               IF e.custodian = NoOne THEN KeepAccount ELSE WriteRow(a, TakeCustodian(row, e))
          [] e.type = "updated" ->
               IF reread.member # None THEN KeepAccount ELSE WriteRow(a, TakeProfile(row, e))
          [] e.type = "signed_out" -> WriteRow(a, Cut(row, e.at))
          [] e.type = "access_removed" ->
               WriteRow(a, IF Suspends(row, e.at)
                        THEN [Cut(row, e.at) EXCEPT !.status = "access_removed"]
                        ELSE Cut(row, e.at))
          [] e.type = "deleted" -> WriteDeleted(a, e.at)
----------------------------------------------------------------------------
(* Handling events *)

Turn(p, t) == handling' = [handling EXCEPT ![p] = t]

\* A data event is read again before the transaction; others carry all they need.
StartEvent(p, e, reread) ==
    /\ handling[p].pc = "idle"
    /\ reread \in IF e.type \in {"custodian_changed", "updated"} THEN LookupAnswers(e.subject)
                                                                 ELSE {NothingRead}
    /\ Turn(p, [pc |-> "apply", subject |-> e.subject, event |-> {e}, reread |-> reread])
    /\ UNCHANGED <<clock, upstreamVars, acct, receipts, sharingVars>>

\* ON CONFLICT (source, event_id) DO NOTHING returns no row.
IsDuplicate(e) == e \in receipts

\* The receipt and the effect commit together; the reread is stored afterwards.
ApplyEvent(p) ==
    /\ handling[p].pc = "apply"
    /\ \E e \in handling[p].event :
          IF IsDuplicate(e)
          THEN /\ Turn(p, NoHandling)
               /\ KeepAccount
               /\ UNCHANGED receipts
          ELSE /\ ApplyPayload(e, handling[p].reread)
               /\ receipts' = receipts \cup {e}
               /\ Turn(p, [handling[p] EXCEPT !.pc = "summary", !.event = {}])
    /\ UNCHANGED <<clock, upstreamVars, req>>

\* apply_summary: authoritative, stamped with the time of the write.
StoreSummary(p) ==
    LET a == handling[p].subject
        found == handling[p].reread
    IN  /\ handling[p].pc = "summary"
        /\ Turn(p, [handling[p] EXCEPT !.pc = "member"])
        /\ \/ found.summary = "none" /\ KeepAccount /\ UNCHANGED clock
           \/ found.summary = "deleted" /\ WriteDeleted(a, clock + 1) /\ Stamp
           \/ /\ found.summary = "active"
              /\ Stamp
              /\ IF acct[a].status = "deleted" THEN KeepAccount
                 ELSE WriteRow(a, [Ensured(acct[a]) EXCEPT
                        !.custodian = found.custodian, !.custodianAt = clock + 1,
                        !.lookedUp = clock + 1])
        /\ UNCHANGED <<upstreamVars, receipts, req>>

\* apply_member: the displayed profile of an account that is not deleted.
StoreMember(p) ==
    LET a == handling[p].subject
        found == handling[p].reread.member
    IN  /\ handling[p].pc = "member"
        /\ Turn(p, NoHandling)
        /\ acct' = IF found # None /\ acct[a].status \notin {"none", "deleted"}
                   THEN [acct EXCEPT ![a].profile = found] ELSE acct
        /\ UNCHANGED <<clock, upstreamVars, receipts, sharingVars>>

\* The process dies or its next database call fails; the sender tries again.
Die(p) ==
    /\ handling[p].pc # "idle"
    /\ Turn(p, NoHandling)
    /\ UNCHANGED <<clock, upstreamVars, acct, receipts, sharingVars>>
----------------------------------------------------------------------------
(* Tokens and refreshes *)

Stale(row) == row.lookedUp = None \/ clock - row.lookedUp >= LookupTtl

\* token_is_current: not of a deleted account, issued after the second of the cutoff.
IsCurrent(row, iat) ==
    row.status # "deleted" /\ (row.revoked = None \/ Second(iat) > Second(row.revoked))

\* A verified token: a new one ends a suspension.  The first one of an account,
\* and one of a stale row, is followed by a reread.
AcceptToken(p, t, reread) ==
    LET row == acct[t.subject]
    IN  /\ handling[p].pc = "idle"
        /\ IsCurrent(row, t.iat)
        /\ acct' = [acct EXCEPT ![t.subject] =
              [row EXCEPT !.status = "active", !.iat = Later(@, t.iat)]]
        /\ IF Stale(row) \/ (row.iat = None /\ row.status # "none")
           THEN /\ reread \in LookupAnswers(t.subject)
                /\ Turn(p, [NoHandling EXCEPT !.pc = "summary", !.subject = t.subject,
                                            !.reread = reread])
           ELSE reread = NothingRead /\ UNCHANGED handling
        /\ UNCHANGED <<clock, upstreamVars, receipts, sharingVars>>

\* A lookup from the worker's loop, before a permission is used, or of an account
\* that someone names: any account at any time.  An unknown one is not stored; one
\* that is no longer found is deleted.
Lookup(p, a) ==
    /\ handling[p].pc = "idle"
    /\ Turn(p, [NoHandling EXCEPT !.pc = "summary", !.subject = a,
          !.reread = [summary |-> IF upstream[a].deleted THEN "deleted" ELSE "active",
                      custodian |-> upstream[a].custodian, member |-> None]])
    /\ UNCHANGED <<clock, upstreamVars, acct, receipts, sharingVars>>
----------------------------------------------------------------------------
(* Sharing *)

Follow(q, r) == req' = [req EXCEPT ![q] = r]

\* The Silicons whose custody decides what a caller sees.
Related(a) ==
    {s \in Silicons : acct[s].status \notin {"none", "deleted"} /\
        \/ acct[s].custodian = a
        \/ acct[a].custodian # NoOne /\ (s = a \/ acct[s].custodian = acct[a].custodian)}

Manages(a, s) == a = s \/ (acct[s].custodian = a /\ acct[s].status = "active")

\* A Silicon, its custodian and the custodian's other Silicons.
Circle(s) ==
    {s} \cup (IF acct[s].custodian = NoOne THEN {}
              ELSE {acct[s].custodian} \cup
                   {x \in Silicons : acct[x].custodian = acct[s].custodian})

\* The caller is resolved from its token and manages the Silicon now, as far as
\* rows that are not stale tell.
Admit(q, kind, x) ==
    /\ req[q].pc = "idle"
    /\ acct[x.by].status = "active"
    /\ \A s \in Related(x.by) : ~Stale(acct[s])
    /\ Manages(x.by, x.of)
    /\ kind \in {"grant", "allow"} => x.for \notin {x.of, x.by}
    /\ Follow(q, [pc |-> "admitted", kind |-> kind, entry |-> x, circle |-> {}])
    /\ UNCHANGED <<clock, upstreamVars, acct, receipts, grants, allowed, handling>>

\* silicon_not_open: a Silicon outside the circle has allowed the owner or the caller.
MayReceive(x) ==
    \/ x.for \in Carbons
    \/ x.for \in Circle(x.of)
    \/ \E y \in allowed : y.of = x.for /\ y.for \in {x.of, x.by}

\* The other account exists and may receive; a withdrawal reads the circle.
Check(q) ==
    LET x == req[q].entry
    IN  /\ req[q].pc = "admitted"
        /\ req[q].kind \in {"grant", "allow"} => acct[x.for].status \notin {"none", "deleted"}
        /\ req[q].kind = "grant" => MayReceive(x)
        /\ Follow(q, [req[q] EXCEPT !.pc = "checked",
                                    !.circle = IF req[q].kind = "disallow" THEN Circle(x.of) ELSE {}])
        /\ UNCHANGED <<clock, upstreamVars, acct, receipts, grants, allowed, handling>>

\* The request is refused, or its process dies.
Refuse(q) ==
    /\ req[q].pc # "idle"
    /\ Follow(q, NoRequest)
    /\ UNCHANGED <<clock, upstreamVars, acct, receipts, grants, allowed, handling>>

\* INSERT ... ON CONFLICT DO NOTHING on the pair of accounts.
Added(entries, x) ==
    IF \E y \in entries : y.of = x.of /\ y.for = x.for THEN entries ELSE entries \cup {x}

Removed(entries, x) == {y \in entries : ~(y.of = x.of /\ y.for = x.for)}

\* The grants an allowance made possible: from outside the circle, of the account
\* or made by it.
MadePossible(y, x, circle) == y.for = x.of /\ y.of \notin circle /\ x.for \in {y.of, y.by}

Commit(q) ==
    LET x == req[q].entry
        kind == req[q].kind
    IN  /\ req[q].pc = "checked"
        /\ grants' = CASE kind = "grant" -> Added(grants, x)
                       [] kind = "revoke" -> Removed(grants, x)
                       [] kind = "disallow" ->
                             {y \in grants : ~MadePossible(y, x, req[q].circle)}
                       [] OTHER -> grants
        /\ allowed' = CASE kind = "allow" -> Added(allowed, x)
                        [] kind = "disallow" -> Removed(allowed, x)
                        [] OTHER -> allowed
        /\ Follow(q, NoRequest)
        /\ UNCHANGED <<clock, upstreamVars, acct, receipts, handling>>
----------------------------------------------------------------------------
RemoteNext ==
    \/ \E s \in Silicons, c \in Custodians : RemoteCustodian(s, c)
    \/ \E a \in Members :
          \/ RemoteUpdate(a) \/ RemoteSignOut(a) \/ RemoteAccessRemoved(a)
          \/ RemoteDelete(a) \/ RemoteSignIn(a)

ProcessNext ==
    \E p \in Handlers :
        \/ \E e \in sent : \E reread \in LookupAnswers(e.subject) \cup {NothingRead} :
              StartEvent(p, e, reread)
        \/ ApplyEvent(p) \/ StoreSummary(p) \/ StoreMember(p) \/ Die(p)
        \/ \E t \in tokens : \E reread \in LookupAnswers(t.subject) \cup {NothingRead} :
              AcceptToken(p, t, reread)
        \/ \E a \in Members : Lookup(p, a)

SharingNext ==
    \E q \in Requests :
        \/ \E kind \in {"grant", "revoke", "allow", "disallow"}, x \in Entries : Admit(q, kind, x)
        \/ Check(q) \/ Refuse(q) \/ Commit(q)

AccountsNext == RemoteNext \/ ProcessNext \/ SharingNext

AccountsSpec == AccountsInit /\ [][AccountsNext]_accountsVars
----------------------------------------------------------------------------
(* Properties *)

Removals(a) == {e \in receipts : e.type = "access_removed" /\ e.subject = a}

\* Access follows the latest of removals and sign-ins, whatever the order in which
\* Remind learns of them: an active account has signed in after every removal that
\* was handled, and a suspended one has not signed in after all of them.
AccessFollowsSignIns ==
    \A a \in Members :
        /\ acct[a].status = "active" => \A e \in Removals(a) : acct[a].iat > e.at
        /\ acct[a].status = "access_removed" => \E e \in Removals(a) : acct[a].iat <= e.at

StatusMoves ==
    {<<"none", "active">>, <<"none", "access_removed">>, <<"none", "deleted">>,
     <<"active", "access_removed">>, <<"access_removed", "active">>,
     <<"active", "deleted">>, <<"access_removed", "deleted">>}

\* Deletion is final, and statuses change only as the core (Lifecycle) takes for
\* granted, whatever events, lookups and tokens arrive late.
DeletionIsFinal ==
    [][\A a \in Members : acct'[a].status # acct[a].status =>
          <<acct[a].status, acct'[a].status>> \in StatusMoves]_accountsVars

\* A grant or an allowance that its Silicon or the Silicon's present custodian made,
\* between accounts that are not deleted.
Delegated(x) ==
    /\ x.by \in {x.of, acct[x.of].custodian}
    /\ acct[x.of].status # "deleted" /\ acct[x.for].status # "deleted"

\* A change of custody or a deletion ends the delegation it is the end of, whether an event
\* brings it or a lookup: a grant or an allowance that is in order never stays behind out of
\* order.  Only a request that was checked before may still store one afterwards.
DelegationEnds ==
    [][\A x \in grants' \cup allowed' :
          \/ Delegated(x)'
          \/ x \in grants \cup allowed /\ ~Delegated(x)
          \/ \E q \in Requests : req[q].pc = "checked" /\ req[q].entry = x /\ req'[q] = NoRequest
      ]_accountsVars

\* "Custodian changes learned by webhook OR authoritative lookup end delegation made by the
\* previous custodian" (migration 0011): who made a grant or an allowance of a Silicon is
\* the Silicon or its present custodian.
DelegationIsCurrent ==
    \A x \in grants \cup allowed :
        acct[x.of].status # "deleted" => x.by \in {x.of, acct[x.of].custodian}


\* "Data events re-read the account and store its current state, so their arrival
\* order does not matter": with every event handled, the custodian is the real one.
ArrivalOrderDoesNotMatter ==
    (receipts = sent /\ \A p \in Handlers : handling[p].pc = "idle") =>
        \A s \in Silicons : acct[s].status = "active" => acct[s].custodian = upstream[s].custodian
=============================================================================
