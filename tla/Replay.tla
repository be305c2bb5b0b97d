------------------------------- MODULE Replay -------------------------------
(***************************************************************************)
(* Requests with an Idempotency-Key: creating a reminder, under the limit  *)
(* of reminders that one account keeps, and changing one, under its        *)
(* version.                                                                *)
(*                                                                         *)
(* A request first looks for the stored answer without a lock, validates    *)
(* what it was asked, and then makes its change in one transaction: it     *)
(* deletes the expired record of its key, reserves the key by inserting a   *)
(* record, applies the change and completes the record.  A row that an      *)
(* open transaction inserted or deleted makes others that want it wait;     *)
(* `held` names the transaction.  What an open transaction wrote shows      *)
(* when it commits, so that an abort only gives up what it held.            *)
(*                                                                         *)
(* A client repeats a request as often as it likes, also one whose answer  *)
(* it never got.  Left out: the owner's account row (module Api has it),   *)
(* several reminders in one change, and reminders that are purged.         *)
(***************************************************************************)
EXTENDS Naturals, Sequences

CONSTANTS
    Clients,    \* requests in progress
    Owners,     \* accounts
    Targets,    \* reminders that a change may name
    Asks,       \* requests: owner, op, target, key, what is asked, and until when it is valid
    Limit,      \* reminders that an account may keep
    KeepAnswer, \* how long an answer can be repeated
    MaxTime,    \* bound: the clock stops here
    MaxEffects  \* bound: changes made

NoClient == "nobody"

ASSUME ReplayAssumption ==
    /\ NoClient \notin Clients /\ Asks # {}
    /\ \A a \in Asks : /\ a.op \in {"create", "change"}
                       /\ a.owner \in Owners /\ a.until \in Nat
                       /\ a.op = "change" => a.target \in Targets
    /\ Owners \cap Targets = {}
    /\ Limit \in Nat /\ KeepAnswer \in Nat \ {0} /\ MaxTime \in Nat /\ MaxEffects \in Nat

VARIABLES
    clock,
    record,    \* idempotency_records: the answer stored for a key
    held,      \* which open transaction holds a key, an account's capacity or a reminder
    retained,  \* how many reminders an account has
    version,   \* the version of each reminder
    client,    \* what each request is doing
    effects    \* history: the changes made, in the order of their commits

replayVars == <<clock, record, held, retained, version, client, effects>>
tables == <<record, retained, version, effects>>
----------------------------------------------------------------------------
ScopeOf(a) == <<a.owner, a.op, a.target, a.key>>
Scopes == {ScopeOf(a) : a \in Asks}

Numbers == 0 .. MaxEffects
Records == [ask : Asks, effect : Numbers, expires : Nat]
NoRecord == [effect |-> 0]

Effects == [ask : Asks, at : 0 .. MaxTime, expires : Nat, seen : Numbers]

Doing == {"idle", "find", "check", "delete", "insert", "select", "apply", "commit",
          "answered", "refused"}

\* due: the answer that the client's earlier request stored; now: the clock of the request.
Requests == [pc : Doing, ask : Asks, now : 0 .. MaxTime, due : Numbers, seen : Numbers,
             answer : Numbers]
NoRequest == [pc |-> "idle", ask |-> CHOOSE a \in Asks : TRUE, now |-> 0, due |-> 0, seen |-> 0,
              answer |-> 0]

\* The variables have their types; nobody holds anything outside a transaction.
ReplayTypeOK ==
    /\ clock \in 0 .. MaxTime
    /\ record \in [Scopes -> Records \cup {NoRecord}]
    /\ held \in [Scopes \cup Owners \cup Targets -> Clients \cup {NoClient}]
    /\ retained \in [Owners -> Nat]
    /\ version \in [Targets -> Numbers]
    /\ client \in [Clients -> Requests]
    /\ effects \in Seq(Effects) /\ Len(effects) <= MaxEffects
    /\ \A c \in Clients, l \in DOMAIN held :
          held[l] = c => client[c].pc \in {"insert", "apply", "commit"}

ReplayInit ==
    /\ clock = 0
    /\ record = [s \in Scopes |-> NoRecord]
    /\ held = [l \in Scopes \cup Owners \cup Targets |-> NoClient]
    /\ retained = [o \in Owners |-> 0]
    /\ version = [t \in Targets |-> 0]
    /\ client = [c \in Clients |-> NoRequest]
    /\ effects = <<>>
----------------------------------------------------------------------------
Live(s) == record[s] # NoRecord /\ record[s].expires > clock
Expired(s) == record[s] # NoRecord /\ record[s].expires <= clock

Free(l) == held[l] = NoClient
Hold(c, l) == held' = [held EXCEPT ![l] = c]

\* Mutant of Release: the account's lock is the session's, which outlives its transaction.
ReleaseRows(c) ==
    held' = [l \in DOMAIN held |-> IF held[l] = c /\ l \notin Owners THEN NoClient ELSE held[l]]

Release(c) == held' = [l \in DOMAIN held |-> IF held[l] = c THEN NoClient ELSE held[l]]

Turn(c, pc) == client' = [client EXCEPT ![c].pc = pc]
Answer(c, n) ==
    client' = [client EXCEPT ![c] =
        [NoRequest EXCEPT !.pc = "answered", !.ask = client[c].ask, !.due = client[c].due, !.answer = n]]
Refuse(c) ==
    /\ client' = [client EXCEPT ![c] = [NoRequest EXCEPT !.pc = "refused", !.due = client[c].due]]
    /\ Release(c)

Deadline(c) == client[c].now + KeepAnswer

\* Mutant of SameRequest: the fingerprint of the request is not compared.
AnyRequest(r, a) == TRUE

SameRequest(r, a) == r.ask = a

\* The stored answer is given to the same request and refused to another.
Give(c, s) ==
    IF SameRequest(record[s], client[c].ask) THEN Answer(c, record[s].effect) /\ UNCHANGED held
                                            ELSE Refuse(c)

Send(c, a) ==
    /\ client[c].pc \in {"idle", "answered", "refused"}
    /\ client' = [client EXCEPT ![c] =
          [NoRequest EXCEPT !.pc = "find", !.ask = a, !.now = clock,
                            !.due = IF Live(ScopeOf(a)) /\ record[ScopeOf(a)].ask = a
                                    THEN record[ScopeOf(a)].effect ELSE 0]]
    /\ UNCHANGED <<clock, held, tables>>

\* Mutant of Found: the answer is looked up only by the reservation.
NeverFound(s) == FALSE

Found(s) == Live(s)

Find(c) ==
    LET s == ScopeOf(client[c].ask)
    IN  /\ client[c].pc = "find"
        /\ \/ Deadline(c) <= clock /\ Refuse(c)
           \/ Deadline(c) > clock /\ Found(s) /\ Give(c, s)
           \/ Deadline(c) > clock /\ ~Found(s) /\ Turn(c, "check") /\ UNCHANGED held
        /\ UNCHANGED <<clock, tables>>

\* What is asked may no longer be possible: a time that has passed, for one.
Check(c) ==
    LET a == client[c].ask
    IN  /\ client[c].pc = "check"
        /\ \/ a.until <= client[c].now /\ Refuse(c)
           \/ /\ a.until > client[c].now
              /\ client' = [client EXCEPT ![c].pc = "delete",
                               ![c].seen = IF a.op = "change" THEN version[a.target] ELSE 0]
              /\ UNCHANGED held
        /\ UNCHANGED <<clock, tables>>
----------------------------------------------------------------------------
(* The transaction *)

\* Mutant of Outdated: the record is deleted before it expires.
OutdatedAlways(s) == record[s] # NoRecord

Outdated(s) == Expired(s)

Delete(c) ==
    LET s == ScopeOf(client[c].ask)
    IN  /\ client[c].pc = "delete"
        /\ \/ Deadline(c) <= clock /\ Refuse(c)
           \/ /\ Deadline(c) > clock
              /\ \/ Outdated(s) /\ Free(s) /\ Hold(c, s)
                 \/ ~Outdated(s) /\ UNCHANGED held
              /\ Turn(c, "insert")
        /\ UNCHANGED <<clock, tables>>

\* Mutant of Reserves: nothing is inserted, the key is only read.
ReservesUnseen(c, s) == record[s] = NoRecord \/ held[s] = c

\* The insertion waits for an open transaction that wants the key, and fails if there is
\* a record then.
Reserves(c, s) == held[s] = c \/ (Free(s) /\ record[s] = NoRecord)

Insert(c) ==
    LET s == ScopeOf(client[c].ask)
    IN  /\ client[c].pc = "insert"
        /\ \/ Reserves(c, s) /\ Turn(c, "apply") /\ Hold(c, s)
           \/ ~Reserves(c, s) /\ Free(s) /\ Turn(c, "select") /\ UNCHANGED held
        /\ UNCHANGED <<clock, tables>>

\* The record that stood in the way, expired or not; it may be gone.
Select(c) ==
    LET s == ScopeOf(client[c].ask)
    IN  /\ client[c].pc = "select"
        /\ Free(s)
        /\ IF record[s] = NoRecord THEN Refuse(c) ELSE Give(c, s)
        /\ UNCHANGED <<clock, tables>>

\* Mutant of CountAlone: creations count at the same time.
CountTogether(c, o) == UNCHANGED held

\* The account's creations count one after the other, until they commit.
CountAlone(c, o) == Free(o) /\ Hold(c, o)

Create(c) ==
    LET o == client[c].ask.owner
    IN  \/ retained[o] < Limit /\ CountAlone(c, o) /\ Turn(c, "commit")
        \/ retained[o] >= Limit /\ Free(o) /\ Refuse(c)

\* Mutant of Unchanged: the version that was read is not compared.
UnchangedAlways(c) == TRUE

Unchanged(c) == version[client[c].ask.target] = client[c].seen

Change(c) ==
    LET t == client[c].ask.target
    IN  /\ Free(t)
        /\ \/ Unchanged(c) /\ Hold(c, t) /\ Turn(c, "commit")
           \/ ~Unchanged(c) /\ Refuse(c)

Apply(c) ==
    /\ client[c].pc = "apply"
    /\ IF client[c].ask.op = "create" THEN Create(c) ELSE Change(c)
    /\ UNCHANGED <<clock, tables>>

\* The change and its answer become visible together.
Commit(c) ==
    LET a == client[c].ask
        n == Len(effects) + 1
    IN  /\ client[c].pc = "commit"
        /\ n <= MaxEffects
        /\ effects' = Append(effects, [ask |-> a, at |-> clock, expires |-> Deadline(c),
                                       seen |-> client[c].seen])
        /\ record' = [record EXCEPT ![ScopeOf(a)] =
              [ask |-> a, effect |-> n, expires |-> Deadline(c)]]
        /\ retained' = IF a.op = "create" THEN [retained EXCEPT ![a.owner] = @ + 1] ELSE retained
        /\ version' = IF a.op = "change" THEN [version EXCEPT ![a.target] = @ + 1] ELSE version
        /\ Answer(c, n)
        /\ Release(c)
        /\ UNCHANGED clock

\* The process or its connection dies: PostgreSQL rolls back.
Die(c) ==
    /\ client[c].pc \notin {"idle", "answered", "refused"}
    /\ client' = [client EXCEPT ![c] = NoRequest]
    /\ Release(c)
    /\ UNCHANGED <<clock, tables>>
----------------------------------------------------------------------------
(* Everything else *)

\* The worker deletes expired records that no transaction holds.
PurgeRecord(s) ==
    /\ Expired(s) /\ Free(s)
    /\ record' = [record EXCEPT ![s] = NoRecord]
    /\ UNCHANGED <<clock, held, retained, version, client, effects>>

\* A reminder leaves for good at the end of its retention.
PurgeRow(o) ==
    /\ retained[o] > 0
    /\ retained' = [retained EXCEPT ![o] = @ - 1]
    /\ UNCHANGED <<clock, record, held, version, client, effects>>

ReplayTick ==
    /\ clock < MaxTime
    /\ clock' = clock + 1
    /\ UNCHANGED <<held, client, tables>>

ReplayStep(c) ==
    \/ \E a \in Asks : Send(c, a)
    \/ Find(c) \/ Check(c) \/ Delete(c) \/ Insert(c) \/ Select(c) \/ Apply(c) \/ Commit(c)
    \/ Die(c)

ReplayNext ==
    \/ \E c \in Clients : ReplayStep(c)
    \/ \E s \in Scopes : PurgeRecord(s)
    \/ \E o \in Owners : PurgeRow(o)
    \/ ReplayTick

ReplaySpec == ReplayInit /\ [][ReplayNext]_replayVars
----------------------------------------------------------------------------
(* Properties *)

\* Requests that share a key have one effect until the answer of the first expires,
\* however they race, fail and repeat.
EffectOncePerKey ==
    \A i, j \in 1 .. Len(effects) :
        i < j /\ ScopeOf(effects[i].ask) = ScopeOf(effects[j].ask) =>
            effects[i].expires <= effects[j].at

\* An answer tells of an effect of exactly what was asked; and a client that repeats a
\* request whose answer is stored gets that answer, even when what it asks would be
\* refused by now, unless the answer expires meanwhile.
AnswersAreTrue ==
    \A c \in Clients :
        /\ client[c].pc = "answered" => effects[client[c].answer].ask = client[c].ask
        /\ client[c].due # 0 /\ client[c].pc \in {"answered", "refused"} =>
              \/ client[c].pc = "answered" /\ client[c].answer = client[c].due
              \/ effects[client[c].due].expires <= clock

\* An account never keeps more reminders than its limit, however many requests create
\* them at once.
RemindersAreLimited == \A o \in Owners : retained[o] <= Limit

\* Each change of a reminder was computed from the outcome of the one before.
ChangesBuildOnEachOther ==
    \A j \in 1 .. Len(effects) : effects[j].ask.op = "change" =>
        \A i \in 1 .. Len(effects) :
            i < j /\ effects[i].ask.op = "change" /\ effects[i].ask.target = effects[j].ask.target
                => effects[i].seen < effects[j].seen
----------------------------------------------------------------------------
(* The serial view *)

\* What a client was told last.
Told(c) == IF client[c].pc = "answered" THEN <<client[c].ask, client[c].answer>> ELSE <<>>

Serial ==
    INSTANCE Ledger WITH
        kept <- retained, changes <- version, log <- effects,
        told <- [c \in Clients |-> Told(c)]

\* Requests that look, check, reserve, wait and commit in steps of their own, and die
\* between any two, have the effects and the answers of a service that takes one request
\* at a time: no change is lost, none is made twice, and none is made from an outcome that
\* another has replaced.
ImplementsLedger == Serial!Spec
=============================================================================
