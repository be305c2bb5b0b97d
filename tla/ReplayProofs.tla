---------------------------- MODULE ReplayProofs ----------------------------
(***************************************************************************)
(* Proofs about requests that share an Idempotency-Key, an owner or a      *)
(* reminder, for every number of requests, every limit and every time that *)
(* an answer is kept: one effect until the answer expires, the same answer *)
(* for whoever repeats the request, never more reminders than the limit,   *)
(* and no lost change.  All of them together implement Ledger, a service   *)
(* that takes one request at a time, and none waits for another for good.  *)
(*                                                                         *)
(* The argument: an open transaction holds its key from before its record  *)
(* is looked at until it ends, so that an effect which can still be        *)
(* repeated is the one that the record of its key names.                   *)
(***************************************************************************)
EXTENDS Replay, TLAPS
----------------------------------------------------------------------------
(* The inductive invariant *)

Locks == Scopes \cup Owners \cup Targets
InTransaction == {"insert", "apply", "commit"}

\* What c holds (h) when its request is r: nothing outside a transaction, the key once it
\* is reserved; and nobody can repeat what the key was used for.
KeyIsHeld(c, r, h) ==
    /\ \A l \in Locks : h[l] = c =>
          r.pc \in InTransaction /\ (r.pc = "insert" => l = ScopeOf(r.ask))
    /\ r.pc \in {"apply", "commit"} => h[ScopeOf(r.ask)] = c
    /\ r.pc \in InTransaction /\ h[ScopeOf(r.ask)] = c => ~Live(ScopeOf(r.ask))

\* What was counted or compared still holds when the change commits.
ChangeIsHeld(c, r, h) ==
    r.pc = "commit" =>
        /\ r.ask.op = "create" => h[r.ask.owner] = c /\ retained[r.ask.owner] < Limit
        /\ r.ask.op = "change" => h[r.ask.target] = c /\ version[r.ask.target] = r.seen

\* An answer is true, and a stored one is not missed.
Promise(r) ==
    /\ r.now <= clock
    /\ r.pc = "answered" => r.answer \in 1 .. Len(effects) /\ effects[r.answer].ask = r.ask
    /\ r.due # 0 =>
          /\ r.due \in 1 .. Len(effects)
          /\ r.pc = "find" =>
                effects[r.due].ask = r.ask /\ effects[r.due].expires <= r.now + KeepAnswer
          /\ r.pc # "find" =>
                effects[r.due].expires <= clock \/ (r.pc = "answered" /\ r.answer = r.due)

RequestInv ==
    \A c \in Clients : /\ KeyIsHeld(c, client[c], held)
                       /\ ChangeIsHeld(c, client[c], held)
                       /\ Promise(client[c])

\* The record of a key names the effect that can still be repeated.
Remembered ==
    \A i \in 1 .. Len(effects) : effects[i].expires > clock =>
        /\ record[ScopeOf(effects[i].ask)] # NoRecord
        /\ record[ScopeOf(effects[i].ask)].effect = i

RecordsAreTrue ==
    \A s \in Scopes : record[s] # NoRecord =>
        /\ record[s].effect \in 1 .. Len(effects)
        /\ effects[record[s].effect].ask = record[s].ask
        /\ effects[record[s].effect].expires = record[s].expires
        /\ ScopeOf(record[s].ask) = s

VersionsCount ==
    /\ \A t \in Targets : version[t] <= Len(effects)
    /\ \A i \in 1 .. Len(effects) :
          effects[i].ask.op = "change" => effects[i].seen < version[effects[i].ask.target]

Deadlines == \A i \in 1 .. Len(effects) : effects[i].expires <= clock + KeepAnswer

TableInv ==
    /\ Remembered /\ RecordsAreTrue /\ VersionsCount /\ Deadlines
    /\ EffectOncePerKey /\ RemindersAreLimited /\ ChangesBuildOnEachOther

ReplayInv == ReplayTypeOK /\ RequestInv /\ TableInv
----------------------------------------------------------------------------
(* Types *)

\* A request names a key, an owner and, when it changes something, a target.
LEMMA AskTypes ==
    ASSUME NEW a \in Asks
    PROVE  /\ ScopeOf(a) \in Scopes /\ ScopeOf(a) \in Locks
           /\ a.op \in {"create", "change"} /\ a.owner \in Owners /\ a.owner \in Locks
           /\ a.op = "change" => a.target \in Targets /\ a.target \in Locks
  BY ReplayAssumption DEF Scopes, Locks

\* No request has its type.
LEMMA NoRequestTypes ==
    /\ NoRequest \in Requests /\ NoRequest.pc = "idle" /\ NoRequest.due = 0 /\ NoRequest.now = 0
<1>1. (CHOOSE a \in Asks : TRUE) \in Asks
  BY ReplayAssumption
<1> QED
  BY <1>1, ReplayAssumption DEF NoRequest, Requests, Doing, Numbers

\* A record that is there has a record's fields.
LEMMA RecordTypes ==
    ASSUME ReplayTypeOK, NEW s \in Scopes, record[s] # NoRecord
    PROVE  record[s] \in Records /\ record[s].effect \in Numbers /\ record[s].expires \in Nat
  BY DEF ReplayTypeOK, Records

\* The fields of an effect.
LEMMA EffectTypes ==
    ASSUME ReplayTypeOK, NEW i \in 1 .. Len(effects)
    PROVE  /\ effects[i].ask \in Asks /\ effects[i].at \in 0 .. MaxTime
           /\ effects[i].expires \in Nat /\ effects[i].seen \in Numbers
<1>1. effects[i] \in Effects
  BY DEF ReplayTypeOK
<1> QED
  BY <1>1 DEF Effects

\* The fields of a request.
LEMMA RequestTypes ==
    ASSUME ReplayTypeOK, NEW c \in Clients
    PROVE  /\ client[c] \in Requests /\ client[c].ask \in Asks /\ client[c].now \in 0 .. MaxTime
           /\ client[c].due \in Numbers /\ client[c].seen \in Numbers /\ clock \in 0 .. MaxTime
           /\ client[c].answer \in Numbers /\ client[c].pc \in Doing
           /\ clock \in Nat /\ client[c].now \in Nat /\ KeepAnswer \in Nat /\ Len(effects) \in Nat
  BY ReplayAssumption DEF ReplayTypeOK, Requests

\* Nothing is stored, held or asked.
LEMMA ReplayInitInv == ASSUME ReplayInit PROVE ReplayInv
<1>1. /\ Len(effects) = 0 /\ effects \in Seq(Effects) /\ MaxEffects \in Nat /\ MaxTime \in Nat /\ Limit \in Nat
      /\ NoClient \notin Clients /\ KeepAnswer \in Nat
  BY ReplayAssumption DEF ReplayInit
<1>2. ReplayTypeOK
  BY <1>1, NoRequestTypes DEF ReplayInit, ReplayTypeOK, Numbers
<1>3. RequestInv
  <2>1. ASSUME NEW c \in Clients
        PROVE  KeyIsHeld(c, NoRequest, held) /\ ChangeIsHeld(c, NoRequest, held)
    BY <1>1, NoRequestTypes DEF ReplayInit, KeyIsHeld, ChangeIsHeld, Locks, InTransaction
  <2>2. Promise(NoRequest)
    BY NoRequestTypes DEF ReplayInit, Promise
  <2> QED
    BY <2>1, <2>2 DEF ReplayInit, RequestInv
<1>4. TableInv
  BY <1>1 DEF ReplayInit, TableInv, Remembered, RecordsAreTrue, VersionsCount, Deadlines, EffectOncePerKey,
     RemindersAreLimited, ChangesBuildOnEachOther
<1> QED
  BY <1>2, <1>3, <1>4 DEF ReplayInv
----------------------------------------------------------------------------
(* Steps of a request that write no table *)

\* Others keep what they hold; then it is enough that the request itself is in order.
LEMMA RequestStep ==
    ASSUME ReplayInv, NEW c \in Clients, NEW t \in Requests,
           client' = [client EXCEPT ![c] = t], UNCHANGED <<clock, tables>>,
           held' \in [Locks -> Clients \cup {NoClient}],
           \A l \in Locks : held'[l] = held[l] \/ (held[l] \in {c, NoClient} /\ held'[l] \in {c, NoClient}),
           KeyIsHeld(c, t, held'), ChangeIsHeld(c, t, held'), Promise(t)
    PROVE  ReplayInv'
<1>1. /\ client' \in [Clients -> Requests] /\ client'[c] = t
      /\ \A q \in Clients \ {c} : client'[q] = client[q]
      /\ NoClient \notin Clients
  BY ReplayAssumption DEF ReplayInv, ReplayTypeOK
<1>2. \A q \in Clients \ {c}, l \in Locks : (held'[l] = q) <=> (held[l] = q)
  BY <1>1
<1>3. \A s \in Scopes : Live(s)' <=> Live(s)
  BY DEF Live, tables
<1>4. ASSUME NEW q \in Clients
      PROVE  (KeyIsHeld(q, client[q], held) /\ ChangeIsHeld(q, client[q], held) /\ Promise(client[q]))'
  <2>1. CASE q = c
    <3>1. ScopeOf(t.ask) \in Scopes
      BY AskTypes DEF Requests
    <3> QED
      BY <1>1, <1>3, <2>1, <3>1 DEF KeyIsHeld, ChangeIsHeld, Promise, tables
  <2>2. CASE q # c
    <3>1. client[q].ask \in Asks /\ ScopeOf(client[q].ask) \in Scopes /\ client'[q] = client[q]
      BY <1>1, <2>2, AskTypes, RequestTypes DEF ReplayInv
    <3>2. KeyIsHeld(q, client[q], held')
      BY <1>2, <2>2, <3>1, AskTypes DEF ReplayInv, RequestInv, KeyIsHeld
    <3>3. ChangeIsHeld(q, client[q], held')
      BY <1>2, <2>2, <3>1, AskTypes DEF ReplayInv, RequestInv, ChangeIsHeld
    <3>4. Promise(client[q])
      BY DEF ReplayInv, RequestInv
    <3> QED
      BY <1>3, <3>1, <3>2, <3>3, <3>4 DEF KeyIsHeld, ChangeIsHeld, Promise, tables
  <2> QED
    BY <2>1, <2>2
<1>5. ReplayTypeOK'
  <2>1. \A q \in Clients, l \in Locks : held'[l] = q => client'[q].pc \in InTransaction
    BY <1>4 DEF KeyIsHeld
  <2> QED
    BY <1>1, <2>1 DEF ReplayInv, ReplayTypeOK, tables, Locks, InTransaction
<1>6. TableInv'
  BY DEF ReplayInv, TableInv, Remembered, RecordsAreTrue, VersionsCount, Deadlines, EffectOncePerKey,
     RemindersAreLimited, ChangesBuildOnEachOther, tables
<1> QED
  BY <1>4, <1>5, <1>6 DEF ReplayInv, RequestInv

\* What a step does to the locks: the same, one more that was free, or all given up.
LEMMA LockMoves ==
    ASSUME ReplayTypeOK, NEW c \in Clients,
           \/ held' = held
           \/ \E l \in Locks : held[l] \in {c, NoClient} /\ Hold(c, l)
           \/ Release(c)
    PROVE  /\ held' \in [Locks -> Clients \cup {NoClient}]
           /\ \A l \in Locks : held'[l] = held[l] \/ (held[l] \in {c, NoClient} /\ held'[l] \in {c, NoClient})
           /\ Release(c) => \A l \in Locks : held'[l] # c
<1>1. held \in [Locks -> Clients \cup {NoClient}] /\ NoClient \notin Clients
  BY ReplayAssumption DEF ReplayTypeOK, Locks
<1>2. CASE held' = held /\ ~Release(c)
  BY <1>1, <1>2
<1>3. ASSUME NEW l \in Locks, held[l] \in {c, NoClient}, Hold(c, l), ~Release(c)
      PROVE  /\ held' \in [Locks -> Clients \cup {NoClient}]
             /\ \A k \in Locks : held'[k] = held[k] \/ (held[k] \in {c, NoClient} /\ held'[k] \in {c, NoClient})
  BY <1>1, <1>3 DEF Hold
<1>4. CASE Release(c)
  BY <1>1, <1>4 DEF Release
<1> QED
  BY <1>2, <1>3, <1>4

\* A request that ends gives up what it holds.
LEMMA RefuseStep ==
    ASSUME ReplayInv, NEW c \in Clients, Refuse(c), UNCHANGED <<clock, tables>>,
           client[c].due # 0 => effects[client[c].due].expires <= clock
    PROVE  ReplayInv'
<1> DEFINE t == [NoRequest EXCEPT !.pc = "refused", !.due = client[c].due]
<1>1. /\ t \in Requests /\ t.pc = "refused" /\ t.due = client[c].due /\ t.now = 0
      /\ client' = [client EXCEPT ![c] = t] /\ Release(c)
  BY NoRequestTypes, RequestTypes DEF ReplayInv, Refuse, Requests, Doing
<1> HIDE DEF t
<1>2. /\ held' \in [Locks -> Clients \cup {NoClient}]
      /\ \A l \in Locks : held'[l] = held[l] \/ (held[l] \in {c, NoClient} /\ held'[l] \in {c, NoClient})
      /\ \A l \in Locks : held'[l] # c
  BY <1>1, LockMoves DEF ReplayInv
<1>3. KeyIsHeld(c, t, held') /\ ChangeIsHeld(c, t, held')
  BY <1>1, <1>2 DEF KeyIsHeld, ChangeIsHeld, InTransaction
<1>4. Promise(t)
  <2>1. client[c].due # 0 => client[c].due \in 1 .. Len(effects)
    BY DEF ReplayInv, RequestInv, Promise
  <2>2. 0 <= clock
    BY RequestTypes DEF ReplayInv
  <2>3. t.pc # "answered" /\ t.pc # "find"
    BY <1>1
  <2> QED
    BY <1>1, <2>1, <2>2, <2>3 DEF Promise
<1> QED
  BY <1>1, <1>2, <1>3, <1>4, RequestStep

\* The record of the key answers a repeated request, and refuses another one.
LEMMA GiveStep ==
    ASSUME ReplayInv, NEW c \in Clients, UNCHANGED <<clock, tables>>,
           client[c].pc \in {"find", "select"}, record[ScopeOf(client[c].ask)] # NoRecord,
           Give(c, ScopeOf(client[c].ask))
    PROVE  ReplayInv'
<1> DEFINE s == ScopeOf(client[c].ask)
           n == record[s].effect
           t == [NoRequest EXCEPT !.pc = "answered", !.ask = client[c].ask, !.due = client[c].due, !.answer = n]
<1>1. /\ s \in Scopes /\ n \in 1 .. Len(effects) /\ n \in Numbers
      /\ effects[n].ask = record[s].ask
  BY AskTypes, RequestTypes, RecordTypes DEF ReplayInv, TableInv, RecordsAreTrue
<1>2. client[c].due # 0 =>
        \/ effects[client[c].due].expires <= clock
        \/ client[c].due = n /\ record[s].ask = client[c].ask
  <2>1. client[c].due # 0 /\ client[c].pc = "find" =>
          client[c].due \in 1 .. Len(effects) /\ effects[client[c].due].ask = client[c].ask
    BY DEF ReplayInv, RequestInv, Promise
  <2>2. client[c].due # 0 /\ client[c].pc = "select" => effects[client[c].due].expires <= clock
    BY DEF ReplayInv, RequestInv, Promise
  <2>3. ASSUME client[c].due # 0, client[c].pc = "find", ~(effects[client[c].due].expires <= clock)
        PROVE  n = client[c].due
    <3>1. effects[client[c].due].expires > clock
      BY <2>1, <2>3, EffectTypes, RequestTypes DEF ReplayInv
    <3> QED
      BY <2>1, <2>3, <3>1 DEF ReplayInv, TableInv, Remembered
  <2> QED
    BY <1>1, <2>1, <2>2, <2>3
<1>3. CASE SameRequest(record[s], client[c].ask)
  <2>1. /\ t \in Requests /\ t.pc = "answered" /\ t.due = client[c].due /\ t.now = 0 /\ t.answer = n
        /\ t.ask = client[c].ask
    BY <1>1, NoRequestTypes, RequestTypes DEF ReplayInv, Requests, Doing
  <2>2. client' = [client EXCEPT ![c] = t] /\ held' = held
    BY <1>3 DEF Give, Answer
  <2> HIDE DEF t
  <2>3. /\ held' \in [Locks -> Clients \cup {NoClient}]
        /\ \A l \in Locks : held'[l] = held[l]
        /\ \A l \in Locks : held[l] # c
    BY <2>2 DEF ReplayInv, ReplayTypeOK, Locks
  <2>4. KeyIsHeld(c, t, held') /\ ChangeIsHeld(c, t, held')
    BY <2>1, <2>3 DEF KeyIsHeld, ChangeIsHeld, InTransaction
  <2>5. Promise(t)
    <3>1. clock \in Nat /\ record[s].ask = client[c].ask
      BY <1>3, RequestTypes DEF SameRequest, ReplayInv
    <3> QED
      BY <1>1, <1>2, <2>1, <3>1 DEF ReplayInv, RequestInv, Promise
  <2> QED
    BY <2>1, <2>2, <2>3, <2>4, <2>5, RequestStep
<1>4. CASE ~SameRequest(record[s], client[c].ask)
  BY <1>2, <1>4, RefuseStep DEF Give, SameRequest
<1> QED
  BY <1>3, <1>4

\* A client sends a request: a stored answer is due from then on.
LEMMA SendStep == ASSUME ReplayInv, NEW c \in Clients, NEW a \in Asks, Send(c, a) PROVE ReplayInv'
<1> DEFINE s == ScopeOf(a)
           due == IF Live(s) /\ record[s].ask = a THEN record[s].effect ELSE 0
           t == [NoRequest EXCEPT !.pc = "find", !.ask = a, !.now = clock, !.due = due]
<1>1. due \in Numbers
  <2>1. 0 \in Numbers
    BY ReplayAssumption DEF Numbers
  <2> QED
    BY <2>1, AskTypes, RecordTypes DEF ReplayInv, Live
<1>2. due # 0 => Live(s) /\ record[s].ask = a /\ due = record[s].effect
  OBVIOUS
<1> HIDE DEF due
<1>3. t \in Requests /\ t.pc = "find" /\ t.ask = a /\ t.now = clock /\ t.due = due
  BY <1>1, NoRequestTypes, RequestTypes DEF ReplayInv, Requests, Doing
<1>4. /\ client' = [client EXCEPT ![c] = t] /\ held' = held /\ UNCHANGED <<clock, tables>>
      /\ client[c].pc \notin InTransaction
  BY DEF Send, due, InTransaction
<1> HIDE DEF t
<1>5. /\ held' \in [Locks -> Clients \cup {NoClient}]
      /\ \A l \in Locks : held'[l] = held[l] /\ held[l] # c
  BY <1>4 DEF ReplayInv, ReplayTypeOK, Locks, InTransaction
<1>6. KeyIsHeld(c, t, held') /\ ChangeIsHeld(c, t, held')
  BY <1>3, <1>5 DEF KeyIsHeld, ChangeIsHeld, InTransaction
<1>7. due # 0 => due \in 1 .. Len(effects) /\ effects[due].ask = a /\ effects[due].expires <= clock + KeepAnswer
  BY <1>2, AskTypes DEF ReplayInv, TableInv, RecordsAreTrue, Deadlines, Live
<1>8. Promise(t)
  BY <1>3, <1>7, RequestTypes DEF ReplayInv, Promise
<1> QED
  BY <1>3, <1>4, <1>5, <1>6, <1>8, RequestStep

\* An answer that was due and is no longer found has expired.
LEMMA FindStep == ASSUME ReplayInv, NEW c \in Clients, Find(c) PROVE ReplayInv'
<1> DEFINE s == ScopeOf(client[c].ask)
           due == client[c].due
           t == [client[c] EXCEPT !.pc = "check"]
<1>1. client[c].pc = "find" /\ UNCHANGED <<clock, tables>> /\ s \in Scopes
  BY AskTypes, RequestTypes DEF Find, ReplayInv
<1>2. due # 0 => /\ due \in 1 .. Len(effects) /\ effects[due].ask = client[c].ask
                 /\ effects[due].expires <= client[c].now + KeepAnswer
  BY <1>1 DEF ReplayInv, RequestInv, Promise
<1>3. CASE Deadline(c) <= clock /\ Refuse(c)
  <2>1. due # 0 => effects[due].expires <= clock
    BY <1>2, <1>3, EffectTypes, RequestTypes DEF Deadline, ReplayInv
  <2> QED
    BY <1>1, <1>3, <2>1, RefuseStep
<1>4. CASE Found(s) /\ Give(c, s)
  BY <1>1, <1>4, GiveStep DEF Found, Live
<1>5. CASE ~Found(s) /\ Turn(c, "check") /\ UNCHANGED held
  <2>1. due # 0 => effects[due].expires <= clock
    <3> SUFFICES ASSUME due # 0, ~(effects[due].expires <= clock) PROVE FALSE
      OBVIOUS
    <3>1. effects[due].expires > clock
      BY <1>2, EffectTypes, RequestTypes DEF ReplayInv
    <3>2. record[s] # NoRecord /\ record[s].effect = due
      BY <1>2, <3>1 DEF ReplayInv, TableInv, Remembered
    <3>3. record[s].expires > clock
      BY <1>1, <3>1, <3>2 DEF ReplayInv, TableInv, RecordsAreTrue
    <3> QED
      BY <1>5, <3>2, <3>3 DEF Found, Live
  <2>2. t \in Requests /\ t.pc = "check" /\ t.now = client[c].now /\ t.due = due
    BY RequestTypes DEF ReplayInv, Requests, Doing
  <2>3. client' = [client EXCEPT ![c] = t] /\ held' = held
    BY <1>5 DEF Turn
  <2> HIDE DEF t
  <2>4. /\ held' \in [Locks -> Clients \cup {NoClient}]
        /\ \A l \in Locks : held'[l] = held[l] /\ held[l] # c
    BY <1>1, <2>3 DEF ReplayInv, ReplayTypeOK, Locks
  <2>5. KeyIsHeld(c, t, held') /\ ChangeIsHeld(c, t, held')
    BY <2>2, <2>4 DEF KeyIsHeld, ChangeIsHeld, InTransaction
  <2>6. Promise(t)
    BY <1>2, <2>1, <2>2 DEF Promise, ReplayInv, RequestInv
  <2> QED
    BY <1>1, <2>2, <2>3, <2>4, <2>5, <2>6, RequestStep
<1> QED
  BY <1>3, <1>4, <1>5 DEF Find

\* Past the lookup, what was due has expired, unless the request is answered with it.
LEMMA NothingDue ==
    ASSUME ReplayInv, NEW c \in Clients, client[c].pc \notin {"find", "answered"}, client[c].due # 0
    PROVE  client[c].due \in 1 .. Len(effects) /\ effects[client[c].due].expires <= clock
  BY DEF ReplayInv, RequestInv, Promise

\* A request goes on: it holds what it held, or one more lock.
LEMMA GoOn ==
    ASSUME ReplayInv, NEW c \in Clients, NEW t \in Requests,
           client' = [client EXCEPT ![c] = t], UNCHANGED <<clock, tables>>,
           held' = held \/ \E l \in Locks : held[l] \in {c, NoClient} /\ Hold(c, l),
           client[c].pc \notin {"find", "answered"}, t.pc \notin {"find", "answered"},
           t.now = client[c].now, t.due = client[c].due,
           KeyIsHeld(c, t, held'), ChangeIsHeld(c, t, held')
    PROVE  ReplayInv'
<1>1. Promise(t)
  BY NothingDue DEF Promise, ReplayInv, RequestInv
<1>2. /\ held' \in [Locks -> Clients \cup {NoClient}]
      /\ \A l \in Locks : held'[l] = held[l] \/ (held[l] \in {c, NoClient} /\ held'[l] \in {c, NoClient})
  BY LockMoves DEF ReplayInv
<1> QED
  BY <1>1, <1>2, RequestStep

\* Validation reads the version and takes no lock.
LEMMA CheckStep == ASSUME ReplayInv, NEW c \in Clients, Check(c) PROVE ReplayInv'
<1> DEFINE a == client[c].ask
           t == [client[c] EXCEPT !.pc = "delete",
                                  !.seen = IF a.op = "change" THEN version[a.target] ELSE 0]
<1>1. client[c].pc = "check" /\ UNCHANGED <<clock, tables>>
  BY DEF Check
<1>2. CASE Refuse(c)
  BY <1>1, <1>2, NothingDue, RefuseStep
<1>3. CASE client' = [client EXCEPT ![c].pc = "delete",
                                   ![c].seen = IF a.op = "change" THEN version[a.target] ELSE 0]
           /\ UNCHANGED held
  <2>1. (IF a.op = "change" THEN version[a.target] ELSE 0) \in Numbers
    BY RequestTypes, AskTypes, ReplayAssumption DEF ReplayInv, ReplayTypeOK, Numbers
  <2>2. t \in Requests /\ t.pc = "delete" /\ t.now = client[c].now /\ t.due = client[c].due
    BY <2>1, RequestTypes DEF ReplayInv, Requests, Doing
  <2>3. client' = [client EXCEPT ![c] = t] /\ held' = held
    BY <1>3
  <2> HIDE DEF t
  <2>4. \A l \in Locks : held[l] # c
    BY <1>1 DEF ReplayInv, RequestInv, KeyIsHeld, InTransaction
  <2>5. KeyIsHeld(c, t, held') /\ ChangeIsHeld(c, t, held')
    BY <2>2, <2>3, <2>4 DEF KeyIsHeld, ChangeIsHeld, InTransaction
  <2> QED
    BY <1>1, <2>2, <2>3, <2>5, GoOn
<1> QED
  BY <1>2, <1>3 DEF Check

\* A turn keeps everything but the step.
LEMMA TurnIs ==
    ASSUME ReplayTypeOK, NEW c \in Clients, NEW pc \in Doing, Turn(c, pc)
    PROVE  \E t \in Requests :
              /\ client' = [client EXCEPT ![c] = t]
              /\ t.pc = pc /\ t.now = client[c].now /\ t.due = client[c].due
              /\ t.ask = client[c].ask /\ t.seen = client[c].seen
<1> DEFINE t == [client[c] EXCEPT !.pc = pc]
<1>1. t \in Requests
  BY RequestTypes DEF Requests
<1>2. /\ client' = [client EXCEPT ![c] = t]
      /\ t.pc = pc /\ t.now = client[c].now /\ t.due = client[c].due
      /\ t.ask = client[c].ask /\ t.seen = client[c].seen
  BY RequestTypes DEF Turn, Requests
<1> QED
  BY <1>1, <1>2

\* The transaction begins: an expired record that nobody holds is deleted.
LEMMA DeleteStep == ASSUME ReplayInv, NEW c \in Clients, Delete(c) PROVE ReplayInv'
<1> DEFINE s == ScopeOf(client[c].ask)
<1>1. /\ client[c].pc = "delete" /\ UNCHANGED <<clock, tables>>
      /\ s \in Locks /\ s \in Scopes
  BY RequestTypes, AskTypes DEF Delete, ReplayInv
<1>2. CASE Refuse(c)
  BY <1>1, <1>2, NothingDue, RefuseStep
<1>3. CASE /\ (Outdated(s) /\ Free(s) /\ Hold(c, s)) \/ UNCHANGED held
           /\ Turn(c, "insert")
  <2>1. PICK t \in Requests :
           /\ client' = [client EXCEPT ![c] = t]
           /\ t.pc = "insert" /\ t.now = client[c].now /\ t.due = client[c].due
           /\ t.ask = client[c].ask /\ t.seen = client[c].seen
    BY <1>3, TurnIs DEF ReplayInv, Doing
  <2>2. \A l \in Locks : held[l] # c
    BY <1>1 DEF ReplayInv, RequestInv, KeyIsHeld, InTransaction
  <2>3. held' = held \/ \E l \in Locks : held[l] \in {c, NoClient} /\ Hold(c, l)
    BY <1>1, <1>3 DEF Free
  <2>4. Outdated(s) => ~Live(s)
    BY <1>1, RecordTypes, RequestTypes DEF Outdated, Expired, Live, ReplayInv
  <2>5. held'[s] = c => Outdated(s)
    BY <1>1, <1>3, <2>2
  <2>6. \A l \in Locks : held'[l] = c => l = s
    BY <1>1, <1>3, <2>2 DEF Hold, ReplayInv, ReplayTypeOK, Locks
  <2>7. KeyIsHeld(c, t, held') /\ ChangeIsHeld(c, t, held')
    BY <2>1, <2>4, <2>5, <2>6 DEF KeyIsHeld, ChangeIsHeld, InTransaction
  <2> QED
    BY <1>1, <2>1, <2>3, <2>7, GoOn
<1> QED
  BY <1>2, <1>3 DEF Delete

\* The key is reserved: there is no record, or it is the expired one that was deleted.
LEMMA InsertStep == ASSUME ReplayInv, NEW c \in Clients, Insert(c) PROVE ReplayInv'
<1> DEFINE s == ScopeOf(client[c].ask)
<1>1. /\ client[c].pc = "insert" /\ UNCHANGED <<clock, tables>>
      /\ s \in Locks /\ s \in Scopes
      /\ held \in [Locks -> Clients \cup {NoClient}]
  BY RequestTypes, AskTypes DEF Insert, ReplayInv, ReplayTypeOK, Locks
<1>2. CASE Reserves(c, s) /\ Turn(c, "apply") /\ Hold(c, s)
  <2>1. PICK t \in Requests :
           /\ client' = [client EXCEPT ![c] = t]
           /\ t.pc = "apply" /\ t.now = client[c].now /\ t.due = client[c].due
           /\ t.ask = client[c].ask /\ t.seen = client[c].seen
    BY <1>2, TurnIs DEF ReplayInv, Doing
  <2>2. ~Live(s)
    BY <1>1, <1>2 DEF Reserves, Live, ReplayInv, RequestInv, KeyIsHeld, InTransaction
  <2>3. held' = held \/ \E l \in Locks : held[l] \in {c, NoClient} /\ Hold(c, l)
    BY <1>1, <1>2 DEF Reserves, Free
  <2>4. held'[s] = c
    BY <1>1, <1>2 DEF Hold
  <2>5. KeyIsHeld(c, t, held') /\ ChangeIsHeld(c, t, held')
    BY <2>1, <2>2, <2>4 DEF KeyIsHeld, ChangeIsHeld, InTransaction
  <2> QED
    BY <1>1, <2>1, <2>3, <2>5, GoOn
<1>3. CASE ~Reserves(c, s) /\ Turn(c, "select") /\ UNCHANGED held
  <2>1. PICK t \in Requests :
           /\ client' = [client EXCEPT ![c] = t]
           /\ t.pc = "select" /\ t.now = client[c].now /\ t.due = client[c].due
           /\ t.ask = client[c].ask /\ t.seen = client[c].seen
    BY <1>3, TurnIs DEF ReplayInv, Doing
  <2>2. \A l \in Locks : held[l] # c
    BY <1>1, <1>3 DEF Reserves, ReplayInv, RequestInv, KeyIsHeld
  <2>3. KeyIsHeld(c, t, held') /\ ChangeIsHeld(c, t, held')
    BY <1>3, <2>1, <2>2 DEF KeyIsHeld, ChangeIsHeld, InTransaction
  <2> QED
    BY <1>1, <1>3, <2>1, <2>3, GoOn
<1> QED
  BY <1>2, <1>3 DEF Insert

\* The record that stood in the way answers or refuses; if it is gone, the client tries again.
LEMMA SelectStep == ASSUME ReplayInv, NEW c \in Clients, Select(c) PROVE ReplayInv'
<1> DEFINE s == ScopeOf(client[c].ask)
<1>1. client[c].pc = "select" /\ UNCHANGED <<clock, tables>>
  BY DEF Select
<1>2. CASE Refuse(c)
  BY <1>1, <1>2, NothingDue, RefuseStep
<1>3. CASE record[s] # NoRecord /\ Give(c, s)
  BY <1>1, <1>3, GiveStep
<1> QED
  BY <1>2, <1>3 DEF Select

\* The change is allowed: the owner's creations, or the reminder, are held from then on.
LEMMA ApplyStep == ASSUME ReplayInv, NEW c \in Clients, Apply(c) PROVE ReplayInv'
<1> DEFINE a == client[c].ask
<1>1. /\ client[c].pc = "apply" /\ UNCHANGED <<clock, tables>>
      /\ a \in Asks /\ ScopeOf(a) \in Locks /\ ScopeOf(a) \in Scopes
      /\ held \in [Locks -> Clients \cup {NoClient}]
      /\ a.op \in {"create", "change"} /\ a.owner \in Locks
      /\ a.op = "change" => a.target \in Locks
  BY RequestTypes, AskTypes DEF Apply, ReplayInv, ReplayTypeOK, Locks
<1>2. CASE Refuse(c)
  BY <1>1, <1>2, NothingDue, RefuseStep
<1>3. ASSUME NEW l \in Locks, Free(l), Hold(c, l), Turn(c, "commit"),
             a.op = "create" => l = a.owner /\ retained[a.owner] < Limit,
             a.op = "change" => l = a.target /\ version[a.target] = client[c].seen
      PROVE  ReplayInv'
  <2>1. PICK t \in Requests :
           /\ client' = [client EXCEPT ![c] = t]
           /\ t.pc = "commit" /\ t.now = client[c].now /\ t.due = client[c].due
           /\ t.ask = client[c].ask /\ t.seen = client[c].seen
    BY <1>3, TurnIs DEF ReplayInv, Doing
  <2>2. held' = held \/ \E k \in Locks : held[k] \in {c, NoClient} /\ Hold(c, k)
    BY <1>3 DEF Free
  <2>3. held'[l] = c /\ \A k \in Locks : held[k] = c => held'[k] = c
    BY <1>1, <1>3 DEF Hold
  <2>4. held[ScopeOf(a)] = c /\ ~Live(ScopeOf(a))
    BY <1>1 DEF ReplayInv, RequestInv, KeyIsHeld, InTransaction
  <2>5. KeyIsHeld(c, t, held')
    BY <1>1, <2>1, <2>3, <2>4 DEF KeyIsHeld, InTransaction
  <2>6. ChangeIsHeld(c, t, held')
    BY <1>1, <1>3, <2>1, <2>3 DEF ChangeIsHeld
  <2> QED
    BY <1>1, <2>1, <2>2, <2>5, <2>6, GoOn
<1>4. CASE a.op = "create" /\ Create(c)
  BY <1>1, <1>2, <1>3, <1>4 DEF Create, CountAlone
<1>5. CASE a.op # "create" /\ Change(c)
  BY <1>1, <1>2, <1>3, <1>5 DEF Change, Unchanged
<1> QED
  BY <1>4, <1>5 DEF Apply

\* The process dies: nothing is held and nothing is due.
LEMMA DieStep == ASSUME ReplayInv, NEW c \in Clients, Die(c) PROVE ReplayInv'
<1>1. /\ NoRequest \in Requests /\ client' = [client EXCEPT ![c] = NoRequest]
      /\ Release(c) /\ UNCHANGED <<clock, tables>>
  BY NoRequestTypes DEF Die
<1>2. /\ held' \in [Locks -> Clients \cup {NoClient}]
      /\ \A l \in Locks : held'[l] = held[l] \/ (held[l] \in {c, NoClient} /\ held'[l] \in {c, NoClient})
      /\ \A l \in Locks : held'[l] # c
  BY <1>1, LockMoves DEF ReplayInv
<1>3. KeyIsHeld(c, NoRequest, held') /\ ChangeIsHeld(c, NoRequest, held')
  BY <1>2, NoRequestTypes DEF KeyIsHeld, ChangeIsHeld, InTransaction
<1>4. Promise(NoRequest)
  BY NoRequestTypes, RequestTypes DEF Promise, ReplayInv
<1> QED
  BY <1>1, <1>2, <1>3, <1>4, RequestStep
----------------------------------------------------------------------------
(* Steps that write the tables *)

\* With less left to repeat and the same or a later clock, requests stay in order.
LEMMA RequestsStay ==
    ASSUME ReplayInv, UNCHANGED <<held, client, version, effects>>, clock' \in 0 .. MaxTime, clock' >= clock,
           \A s \in Scopes : Live(s)' => Live(s),
           \A o \in Owners : retained'[o] <= retained[o], retained' \in [Owners -> Nat]
    PROVE  RequestInv'
<1> SUFFICES ASSUME NEW c \in Clients
             PROVE  (KeyIsHeld(c, client[c], held) /\ ChangeIsHeld(c, client[c], held) /\ Promise(client[c]))'
  BY DEF RequestInv
<1>1. KeyIsHeld(c, client[c], held) /\ ChangeIsHeld(c, client[c], held) /\ Promise(client[c])
  BY DEF ReplayInv, RequestInv
<1>2. KeyIsHeld(c, client[c], held)'
  BY <1>1, RequestTypes, AskTypes DEF KeyIsHeld, ReplayInv
<1>3. ChangeIsHeld(c, client[c], held)'
  BY <1>1, RequestTypes, AskTypes, ReplayAssumption DEF ChangeIsHeld, ReplayInv, ReplayTypeOK
<1>4. Promise(client[c])'
  <2>1. \A i \in 1 .. Len(effects) : effects[i].expires <= clock => effects[i].expires <= clock'
    BY EffectTypes, RequestTypes DEF ReplayInv
  <2> QED
    BY <1>1, <2>1, RequestTypes DEF Promise, ReplayInv
<1> QED
  BY <1>2, <1>3, <1>4

\* An expired record is deleted: what it named can no longer be repeated.
LEMMA PurgeRecordStep == ASSUME ReplayInv, NEW s \in Scopes, PurgeRecord(s) PROVE ReplayInv'
<1>1. /\ record' = [record EXCEPT ![s] = NoRecord] /\ Expired(s)
      /\ UNCHANGED <<clock, held, retained, version, client, effects>>
  BY DEF PurgeRecord
<1>2. /\ record' \in [Scopes -> Records \cup {NoRecord}] /\ record'[s] = NoRecord
      /\ \A k \in Scopes \ {s} : record'[k] = record[k]
  BY <1>1 DEF ReplayInv, ReplayTypeOK
<1>3. ReplayTypeOK'
  BY <1>1, <1>2 DEF ReplayInv, ReplayTypeOK
<1>4. RequestInv'
  <2>1. \A k \in Scopes : Live(k)' => Live(k)
    BY <1>1, <1>2 DEF Live
  <2>2. clock' \in 0 .. MaxTime /\ clock' >= clock /\ clock \in Nat
    BY <1>1 DEF ReplayInv, ReplayTypeOK
  <2>3. retained' \in [Owners -> Nat] /\ \A o \in Owners : retained'[o] <= retained[o]
    BY <1>1 DEF ReplayInv, ReplayTypeOK
  <2> QED
    BY <1>1, <2>1, <2>2, <2>3, RequestsStay
<1>5. Remembered'
  <2> SUFFICES ASSUME NEW i \in 1 .. Len(effects), effects[i].expires > clock
               PROVE  ScopeOf(effects[i].ask) # s
    BY <1>1, <1>2, EffectTypes, AskTypes DEF Remembered, ReplayInv, TableInv
  <2>1. ScopeOf(effects[i].ask) = s => record[s] # NoRecord /\ record[s].effect = i /\ record[s].expires > clock
    BY DEF ReplayInv, TableInv, Remembered, RecordsAreTrue
  <2> QED
    BY <1>1, <2>1, RecordTypes, RequestTypes DEF Expired, ReplayInv, ReplayTypeOK
<1>6. RecordsAreTrue'
  BY <1>1, <1>2 DEF RecordsAreTrue, ReplayInv, TableInv
<1> QED
  BY <1>1, <1>3, <1>4, <1>5, <1>6 DEF ReplayInv, TableInv, VersionsCount, Deadlines, EffectOncePerKey,
     RemindersAreLimited, ChangesBuildOnEachOther

\* A reminder leaves: there is more room.
LEMMA PurgeRowStep == ASSUME ReplayInv, NEW o \in Owners, PurgeRow(o) PROVE ReplayInv'
<1>1. /\ retained' = [retained EXCEPT ![o] = @ - 1] /\ retained[o] > 0
      /\ UNCHANGED <<clock, record, held, version, client, effects>>
  BY DEF PurgeRow
<1>2. retained \in [Owners -> Nat] /\ Limit \in Nat
  BY ReplayAssumption DEF ReplayInv, ReplayTypeOK
<1>3. retained' \in [Owners -> Nat] /\ \A p \in Owners : retained'[p] <= retained[p]
  BY <1>1, <1>2
<1>4. ReplayTypeOK'
  BY <1>1, <1>3 DEF ReplayInv, ReplayTypeOK
<1>5. RequestInv'
  <2>1. clock' \in 0 .. MaxTime /\ clock' >= clock /\ clock \in Nat
    BY <1>1 DEF ReplayInv, ReplayTypeOK
  <2>2. \A s \in Scopes : Live(s)' => Live(s)
    BY <1>1 DEF Live
  <2> QED
    BY <1>1, <1>3, <2>1, <2>2, RequestsStay
<1>6. RemindersAreLimited'
  BY <1>2, <1>3 DEF ReplayInv, TableInv, RemindersAreLimited
<1> QED
  BY <1>1, <1>4, <1>5, <1>6 DEF ReplayInv, TableInv, Remembered, RecordsAreTrue, VersionsCount, Deadlines,
     EffectOncePerKey, ChangesBuildOnEachOther

\* Time passes: less can be repeated.
LEMMA ReplayTickStep == ASSUME ReplayInv, ReplayTick PROVE ReplayInv'
<1>1. clock' = clock + 1 /\ clock \in Nat /\ clock' \in 0 .. MaxTime /\ UNCHANGED <<held, client, tables>>
  BY ReplayAssumption DEF ReplayTick, ReplayInv, ReplayTypeOK
<1>2. ReplayTypeOK'
  BY <1>1 DEF ReplayInv, ReplayTypeOK, tables
<1>3. RequestInv'
  <2>1. \A s \in Scopes : Live(s)' => Live(s)
    BY <1>1, RecordTypes DEF Live, tables, ReplayInv
  <2>2. retained' \in [Owners -> Nat] /\ \A o \in Owners : retained'[o] <= retained[o]
    BY <1>1 DEF ReplayInv, ReplayTypeOK, tables
  <2> QED
    BY <1>1, <2>1, <2>2, RequestsStay DEF tables
<1>4. Remembered' /\ Deadlines'
  <2>1. \A i \in 1 .. Len(effects) : effects[i].expires \in Nat /\ KeepAnswer \in Nat
    BY EffectTypes, ReplayAssumption DEF ReplayInv
  <2> QED
    BY <1>1, <2>1 DEF ReplayInv, TableInv, Remembered, Deadlines, tables
<1> QED
  BY <1>1, <1>2, <1>3, <1>4 DEF ReplayInv, TableInv, RecordsAreTrue, VersionsCount, EffectOncePerKey,
     RemindersAreLimited, ChangesBuildOnEachOther, tables

\* The change and its record become visible, and everything the transaction held is free.
LEMMA CommitFacts ==
    ASSUME ReplayInv, NEW c \in Clients, Commit(c),
           NEW a, a = client[c].ask, NEW s, s = ScopeOf(a), NEW n, n = Len(effects) + 1
    PROVE  /\ a \in Asks /\ s \in Scopes /\ s \in Locks /\ n \in 1 .. MaxEffects /\ Len(effects) \in Nat
           /\ client[c].pc = "commit" /\ clock' = clock /\ clock \in Nat
           /\ held[s] = c /\ ~Live(s) /\ Release(c)
           /\ effects' \in Seq(Effects) /\ Len(effects') = n
           /\ \A i \in 1 .. Len(effects) : effects'[i] = effects[i]
           /\ effects'[n].ask = a /\ effects'[n].at = clock
           /\ effects'[n].expires = client[c].now + KeepAnswer /\ effects'[n].seen = client[c].seen
           /\ record' \in [Scopes -> Records \cup {NoRecord}]
           /\ \A k \in Scopes \ {s} : record'[k] = record[k]
           /\ record'[s] # NoRecord /\ record'[s].effect = n /\ record'[s].ask = a
           /\ record'[s].expires = client[c].now + KeepAnswer
<1>1. /\ client[c].pc = "commit" /\ a \in Asks /\ s \in Scopes /\ s \in Locks /\ clock' = clock
      /\ clock \in 0 .. MaxTime /\ client[c].now \in Nat /\ KeepAnswer \in Nat /\ client[c].seen \in Numbers
      /\ Release(c) /\ n <= MaxEffects
  BY RequestTypes, AskTypes DEF Commit, ReplayInv
<1>2. n \in 1 .. MaxEffects /\ Len(effects) \in Nat /\ n \in Numbers /\ effects \in Seq(Effects)
  BY <1>1, ReplayAssumption DEF ReplayInv, ReplayTypeOK, Numbers
<1>3. held[s] = c /\ ~Live(s)
  BY <1>1 DEF ReplayInv, RequestInv, KeyIsHeld, InTransaction
<1> DEFINE e == [ask |-> a, at |-> clock, expires |-> client[c].now + KeepAnswer, seen |-> client[c].seen]
           r == [ask |-> a, effect |-> n, expires |-> client[c].now + KeepAnswer]
<1>4. e \in Effects /\ r \in Records
  BY <1>1, <1>2 DEF Effects, Records
<1>5. e.ask = a /\ e.at = clock /\ e.expires = client[c].now + KeepAnswer /\ e.seen = client[c].seen
  OBVIOUS
<1>6. /\ r.ask = a /\ r.effect = n /\ r.expires = client[c].now + KeepAnswer
      /\ NoRecord.effect = 0 /\ r # NoRecord
  BY <1>2 DEF NoRecord
<1>7. effects' = Append(effects, e) /\ record' = [record EXCEPT ![s] = r]
  BY DEF Commit, Deadline
<1> HIDE DEF e, r
<1>8. effects' \in Seq(Effects) /\ Len(effects') = n /\ effects'[n] = e
      /\ \A i \in 1 .. Len(effects) : effects'[i] = effects[i]
  BY <1>2, <1>4, <1>7
<1>9. /\ record' \in [Scopes -> Records \cup {NoRecord}] /\ record'[s] = r
      /\ \A k \in Scopes \ {s} : record'[k] = record[k]
  BY <1>1, <1>4, <1>7 DEF ReplayInv, ReplayTypeOK
<1> QED
  BY <1>1, <1>2, <1>3, <1>5, <1>6, <1>8, <1>9

\* A commit makes one effect, stores its answer and gives up what it held.
LEMMA CommitStep == ASSUME ReplayInv, NEW c \in Clients, Commit(c) PROVE ReplayInv'
<1>1. PICK a, s, n : a = client[c].ask /\ s = ScopeOf(a) /\ n = Len(effects) + 1
  OBVIOUS
<1>2. /\ a \in Asks /\ s \in Scopes /\ s \in Locks /\ n \in 1 .. MaxEffects /\ Len(effects) \in Nat
      /\ client[c].pc = "commit" /\ clock' = clock /\ clock \in Nat
      /\ held[s] = c /\ ~Live(s) /\ Release(c)
  BY <1>1, CommitFacts
<1>3. /\ effects' \in Seq(Effects) /\ Len(effects') = n
      /\ \A i \in 1 .. Len(effects) : effects'[i] = effects[i]
      /\ effects'[n].ask = a /\ effects'[n].at = clock
      /\ effects'[n].expires = client[c].now + KeepAnswer /\ effects'[n].seen = client[c].seen
  BY <1>1, CommitFacts
<1>4. /\ record' \in [Scopes -> Records \cup {NoRecord}]
      /\ \A k \in Scopes \ {s} : record'[k] = record[k]
      /\ record'[s] # NoRecord /\ record'[s].effect = n /\ record'[s].ask = a
      /\ record'[s].expires = client[c].now + KeepAnswer
  BY <1>1, CommitFacts
<1>5. /\ a.op \in {"create", "change"} /\ a.owner \in Owners /\ a.owner \in Locks
      /\ a.op = "change" => a.target \in Targets /\ a.target \in Locks
  BY <1>2, AskTypes
<1>6. /\ a.op = "create" => held[a.owner] = c /\ retained[a.owner] < Limit
      /\ a.op = "change" => held[a.target] = c /\ version[a.target] = client[c].seen
  BY <1>1, <1>2 DEF ReplayInv, RequestInv, ChangeIsHeld
<1>7. /\ retained \in [Owners -> Nat] /\ version \in [Targets -> Numbers] /\ Limit \in Nat
      /\ MaxEffects \in Nat
      /\ held \in [Locks -> Clients \cup {NoClient}] /\ NoClient \notin Clients
  BY ReplayAssumption DEF ReplayInv, ReplayTypeOK, Locks
<1>8. /\ retained' \in [Owners -> Nat]
      /\ \A o \in Owners : retained'[o] # retained[o] =>
            a.op = "create" /\ o = a.owner /\ retained'[o] = retained[o] + 1
  BY <1>1, <1>5, <1>7 DEF Commit
<1>9. /\ version' \in [Targets -> Nat]
      /\ \A t \in Targets : version'[t] # version[t] =>
            a.op = "change" /\ t = a.target /\ version'[t] = version[t] + 1
      /\ a.op = "change" => version'[a.target] = client[c].seen + 1 /\ client[c].seen \in Nat
  BY <1>1, <1>5, <1>6, <1>7 DEF Commit, Numbers
<1>10. /\ held' \in [Locks -> Clients \cup {NoClient}]
       /\ \A l \in Locks : held'[l] # c
       /\ \A l \in Locks, q \in Clients \ {c} : (held'[l] = q) <=> (held[l] = q)
  BY <1>2, <1>7, LockMoves DEF ReplayInv, Release
<1>11. PICK t \in Requests :
         /\ client' = [client EXCEPT ![c] = t]
         /\ t.pc = "answered" /\ t.ask = a /\ t.due = client[c].due /\ t.answer = n /\ t.now = 0
  <2> DEFINE t == [NoRequest EXCEPT !.pc = "answered", !.ask = client[c].ask, !.due = client[c].due, !.answer = n]
  <2>1. n \in Numbers
    BY <1>2, <1>7 DEF Numbers
  <2>2. t \in Requests /\ t.pc = "answered" /\ t.ask = a /\ t.due = client[c].due /\ t.answer = n /\ t.now = 0
    BY <1>1, <2>1, NoRequestTypes, RequestTypes DEF ReplayInv, Requests, Doing
  <2>3. client' = [client EXCEPT ![c] = t]
    BY <1>1 DEF Commit, Answer
  <2> QED
    BY <2>2, <2>3
<1>12. /\ client' \in [Clients -> Requests] /\ client'[c] = t
       /\ \A q \in Clients \ {c} : client'[q] = client[q]
  BY <1>11 DEF ReplayInv, ReplayTypeOK
<1>13. ReplayTypeOK'
  <2>1. version' \in [Targets -> Numbers]
    <3>1. \A k \in Targets : version[k] <= Len(effects)
      BY DEF ReplayInv, TableInv, VersionsCount
    <3>2. \A k \in Targets : version'[k] \in Numbers
      BY <1>1, <1>2, <1>7, <1>9, <3>1 DEF Numbers
    <3> QED
      BY <1>9, <3>2
  <2>2. \A q \in Clients, l \in Locks : held'[l] = q => client'[q].pc \in InTransaction
    BY <1>10, <1>12 DEF ReplayInv, RequestInv, KeyIsHeld
  <2>3. clock' \in 0 .. MaxTime /\ Len(effects') <= MaxEffects
    BY <1>2, <1>3, <1>7 DEF ReplayInv, ReplayTypeOK
  <2> QED
    BY <1>3, <1>4, <1>8, <1>10, <1>12, <2>1, <2>2, <2>3 DEF ReplayTypeOK, Locks, InTransaction
<1>14. \A k \in Scopes \ {s} : Live(k)' <=> Live(k)
  BY <1>2, <1>4 DEF Live
<1>15. RequestInv'
  <2> SUFFICES ASSUME NEW q \in Clients
               PROVE  (KeyIsHeld(q, client[q], held) /\ ChangeIsHeld(q, client[q], held) /\ Promise(client[q]))'
    BY DEF RequestInv
  <2>1. CASE q = c
    <3>1. KeyIsHeld(c, t, held') /\ ChangeIsHeld(c, t, held')
      BY <1>10, <1>11 DEF KeyIsHeld, ChangeIsHeld, InTransaction
    <3>2. Promise(t)'
      <4>1. client[c].due # 0 => client[c].due \in 1 .. Len(effects) /\ effects[client[c].due].expires <= clock
        BY <1>2, NothingDue
      <4> QED
        BY <1>1, <1>2, <1>3, <1>11, <4>1 DEF Promise
    <3> QED
      BY <1>11, <1>12, <2>1, <3>1, <3>2 DEF KeyIsHeld, ChangeIsHeld, Promise, InTransaction
  <2>2. CASE q # c
    <3>1. /\ client'[q] = client[q] /\ client[q].ask \in Asks
          /\ ScopeOf(client[q].ask) \in Scopes /\ ScopeOf(client[q].ask) \in Locks
          /\ client[q].ask.owner \in Owners /\ client[q].ask.owner \in Locks
          /\ client[q].ask.op = "change" => client[q].ask.target \in Targets /\ client[q].ask.target \in Locks
      BY <1>12, <2>2, AskTypes, RequestTypes DEF ReplayInv
    <3>2. KeyIsHeld(q, client[q], held) /\ ChangeIsHeld(q, client[q], held) /\ Promise(client[q])
      BY DEF ReplayInv, RequestInv
    <3>3. KeyIsHeld(q, client[q], held)'
      BY <1>2, <1>10, <1>14, <2>2, <3>1, <3>2 DEF KeyIsHeld
    <3>4. ChangeIsHeld(q, client[q], held)'
      BY <1>6, <1>8, <1>9, <1>10, <2>2, <3>1, <3>2 DEF ChangeIsHeld
    <3>5. Promise(client[q])'
      BY <1>1, <1>2, <1>3, <3>1, <3>2 DEF Promise
    <3> QED
      BY <3>3, <3>4, <3>5
  <2> QED
    BY <2>1, <2>2
<1>16. \A i \in 1 .. Len(effects) : ScopeOf(effects[i].ask) = s => effects[i].expires <= clock
  <2> SUFFICES ASSUME NEW i \in 1 .. Len(effects), ScopeOf(effects[i].ask) = s, ~(effects[i].expires <= clock)
               PROVE  FALSE
    OBVIOUS
  <2>1. effects[i].expires > clock
    BY <1>2, EffectTypes DEF ReplayInv
  <2>2. record[s] # NoRecord /\ record[s].effect = i /\ record[s].expires = effects[i].expires
    BY <1>2, <2>1 DEF ReplayInv, TableInv, Remembered, RecordsAreTrue
  <2> QED
    BY <1>2, <2>1, <2>2 DEF Live
<1>17. \A i \in 1 .. n : i \in 1 .. Len(effects) \/ i = n
  BY <1>1, <1>2
<1>18. Remembered'
  <2> SUFFICES ASSUME NEW i \in 1 .. n, effects'[i].expires > clock
               PROVE  /\ record'[ScopeOf(effects'[i].ask)] # NoRecord
                      /\ record'[ScopeOf(effects'[i].ask)].effect = i
    BY <1>2, <1>3 DEF Remembered
  <2>1. CASE i = n
    BY <1>1, <1>3, <1>4, <2>1
  <2>2. CASE i \in 1 .. Len(effects)
    <3>1. effects'[i] = effects[i] /\ effects[i].expires \in Nat /\ ScopeOf(effects[i].ask) \in Scopes
      BY <1>3, <2>2, EffectTypes, AskTypes DEF ReplayInv
    <3>2. ScopeOf(effects[i].ask) # s
      BY <1>2, <1>16, <2>2, <3>1
    <3> QED
      BY <1>4, <2>2, <3>1, <3>2 DEF ReplayInv, TableInv, Remembered
  <2> QED
    BY <1>17, <2>1, <2>2
<1>19. RecordsAreTrue'
  <2> SUFFICES ASSUME NEW k \in Scopes, record'[k] # NoRecord
               PROVE  /\ record'[k].effect \in 1 .. n
                      /\ effects'[record'[k].effect].ask = record'[k].ask
                      /\ effects'[record'[k].effect].expires = record'[k].expires
                      /\ ScopeOf(record'[k].ask) = k
    BY <1>3 DEF RecordsAreTrue
  <2>1. CASE k = s
    BY <1>1, <1>2, <1>3, <1>4, <2>1
  <2>2. CASE k # s
    BY <1>1, <1>2, <1>3, <1>4, <2>2 DEF ReplayInv, TableInv, RecordsAreTrue
  <2> QED
    BY <2>1, <2>2
<1>20. VersionsCount'
  <2>1. \A k \in Targets : version[k] <= Len(effects) /\ version[k] \in Nat
    BY <1>7 DEF ReplayInv, TableInv, VersionsCount, Numbers
  <2>2. \A k \in Targets : version'[k] <= n /\ version[k] <= version'[k] /\ version'[k] \in Nat
    BY <1>1, <1>2, <1>9, <2>1
  <2>3. ASSUME NEW i \in 1 .. Len(effects), effects[i].ask.op = "change"
        PROVE  effects[i].seen < version'[effects[i].ask.target]
    <3>1. /\ effects[i].seen < version[effects[i].ask.target] /\ effects[i].seen \in Nat
          /\ effects[i].ask.target \in Targets
      BY <2>3, EffectTypes, AskTypes DEF ReplayInv, TableInv, VersionsCount, Numbers
    <3> QED
      BY <2>1, <2>2, <3>1
  <2>4. a.op = "change" => client[c].seen < version'[a.target]
    BY <1>9
  <2> QED
    BY <1>3, <1>17, <2>2, <2>3, <2>4 DEF VersionsCount
<1>21. Deadlines'
  <2>1. client[c].now <= clock /\ client[c].now \in Nat /\ KeepAnswer \in Nat
    BY RequestTypes DEF ReplayInv, RequestInv, Promise
  <2> QED
    BY <1>2, <1>3, <1>17, <2>1 DEF ReplayInv, TableInv, Deadlines
<1>22. EffectOncePerKey'
  <2> SUFFICES ASSUME NEW i \in 1 .. n, NEW j \in 1 .. n, i < j,
                      ScopeOf(effects'[i].ask) = ScopeOf(effects'[j].ask)
               PROVE  effects'[i].expires <= effects'[j].at
    BY <1>3 DEF EffectOncePerKey
  <2>1. i \in 1 .. Len(effects) /\ effects'[i] = effects[i]
    BY <1>1, <1>2, <1>3
  <2>2. CASE j = n
    BY <1>1, <1>3, <1>16, <2>1, <2>2
  <2>3. CASE j \in 1 .. Len(effects)
    BY <1>3, <2>1, <2>3 DEF ReplayInv, TableInv, EffectOncePerKey
  <2> QED
    BY <1>17, <2>2, <2>3
<1>23. RemindersAreLimited'
  BY <1>6, <1>7, <1>8 DEF ReplayInv, TableInv, RemindersAreLimited
<1>24. ChangesBuildOnEachOther'
  <2> SUFFICES ASSUME NEW i \in 1 .. n, NEW j \in 1 .. n, i < j,
                      effects'[i].ask.op = "change", effects'[j].ask.op = "change",
                      effects'[i].ask.target = effects'[j].ask.target
               PROVE  effects'[i].seen < effects'[j].seen
    BY <1>3 DEF ChangesBuildOnEachOther
  <2>1. i \in 1 .. Len(effects) /\ effects'[i] = effects[i]
    BY <1>1, <1>2, <1>3
  <2>2. CASE j = n
    BY <1>3, <1>6, <2>1, <2>2 DEF ReplayInv, TableInv, VersionsCount
  <2>3. CASE j \in 1 .. Len(effects)
    BY <1>3, <2>1, <2>3 DEF ReplayInv, TableInv, ChangesBuildOnEachOther
  <2> QED
    BY <1>17, <2>2, <2>3
<1> QED
  BY <1>13, <1>15, <1>18, <1>19, <1>20, <1>21, <1>22, <1>23, <1>24 DEF ReplayInv, TableInv
----------------------------------------------------------------------------
(* Theorems *)

\* Every step keeps the invariant.
LEMMA ReplayStepInv == ASSUME ReplayInv, [ReplayNext]_replayVars PROVE ReplayInv'
<1>1. ASSUME NEW c \in Clients, ReplayStep(c) PROVE ReplayInv'
  BY <1>1, SendStep, FindStep, CheckStep, DeleteStep, InsertStep, SelectStep, ApplyStep, CommitStep, DieStep
     DEF ReplayStep
<1>2. CASE UNCHANGED replayVars
  BY <1>2 DEF replayVars, ReplayInv, ReplayTypeOK, RequestInv, KeyIsHeld, ChangeIsHeld, Promise, Live,
     TableInv, Remembered, RecordsAreTrue, VersionsCount, Deadlines, EffectOncePerKey, RemindersAreLimited,
     ChangesBuildOnEachOther
<1> QED
  BY <1>1, <1>2, PurgeRecordStep, PurgeRowStep, ReplayTickStep DEF ReplayNext

\* The invariant holds in every reachable state.
LEMMA ReplayInvariant == ReplaySpec => []ReplayInv
<1>1. ReplayInit => ReplayInv
  BY ReplayInitInv
<1>2. ReplayInv /\ [ReplayNext]_replayVars => ReplayInv'
  BY ReplayStepInv
<1> QED
  BY <1>1, <1>2, PTL DEF ReplaySpec

\* However requests with one Idempotency-Key race, die and repeat, the key has one effect
\* until the answer of the first expires.
THEOREM OneEffectPerKey == ReplaySpec => []EffectOncePerKey
<1>1. ReplayInv => EffectOncePerKey
  BY DEF ReplayInv, TableInv
<1> QED
  BY <1>1, ReplayInvariant, PTL

\* An answer tells of an effect of exactly what was asked, and a stored answer that has not
\* expired is what a repeated request gets.
THEOREM RepliesAreTrue == ReplaySpec => []AnswersAreTrue
<1>1. ReplayInv => AnswersAreTrue
  BY DEF ReplayInv, RequestInv, Promise, AnswersAreTrue
<1> QED
  BY <1>1, ReplayInvariant, PTL

\* No change is computed from an outcome that another change has replaced.
THEOREM NoLostChange == ReplaySpec => []ChangesBuildOnEachOther
<1>1. ReplayInv => ChangesBuildOnEachOther
  BY DEF ReplayInv, TableInv
<1> QED
  BY <1>1, ReplayInvariant, PTL

\* Creations that run at once never leave an account with more reminders than its limit.
THEOREM LimitIsKept == ReplaySpec => []RemindersAreLimited
<1>1. ReplayInv => RemindersAreLimited
  BY DEF ReplayInv, TableInv
<1> QED
  BY <1>1, ReplayInvariant, PTL
----------------------------------------------------------------------------
(* One request at a time *)

\* A creation builds on nothing.
NothingSeen == \A c \in Clients : client[c].ask.op = "create" => client[c].seen = 0

LedgerInv == ReplayInv /\ NothingSeen

\* What a client was told stays, unless its request is answered or ends.
LEMMA ToldMoves ==
    ASSUME ReplayInv, NEW c \in Clients, NEW r, client' = [client EXCEPT ![c] = r]
    PROVE  [d \in Clients |-> Told(d)]' = [[d \in Clients |-> Told(d)] EXCEPT ![c] = Told(c)']
<1>1. \A d \in Clients : client'[d] = IF d = c THEN r ELSE client[d]
  BY DEF ReplayInv, ReplayTypeOK
<1>2. \A d \in Clients : Told(d)' = IF d = c THEN Told(c)' ELSE Told(d)
  BY <1>1 DEF Told
<1> QED
  BY <1>2

\* Until it commits, a request shows nothing but what it tells its client.
LEMMA QuietSteps ==
    ASSUME NEW c \in Clients, ReplayStep(c), ~Commit(c)
    PROVE  UNCHANGED <<clock, tables>> /\ \E r : client' = [client EXCEPT ![c] = r]
<1>1. CASE \E a \in Asks : Send(c, a)
  BY <1>1 DEF Send
<1>2. CASE Find(c) \/ Check(c) \/ Delete(c)
  <2>1. UNCHANGED <<clock, tables>>
    BY <1>2 DEF Find, Check, Delete
  <2>2. CASE Find(c)
    BY <2>1, <2>2 DEF Find, Give, Answer, Refuse, Turn
  <2>3. CASE Check(c)
    <3>1. CASE Refuse(c)
      BY <2>1, <3>1 DEF Refuse
    <3>2. CASE ~Refuse(c)
      <4> DEFINE seen == IF client[c].ask.op = "change" THEN version[client[c].ask.target] ELSE 0
                 r    == [client[c] EXCEPT !.pc = "delete", !.seen = seen]
      <4>1. client' = [client EXCEPT ![c].pc = "delete", ![c].seen = seen]
        BY <2>3, <3>2 DEF Check
      <4>2. client' = [client EXCEPT ![c] = r]
        BY <4>1
      <4> QED
        BY <2>1, <4>2
    <3> QED
      BY <3>1, <3>2
  <2>4. CASE Delete(c)
    BY <2>1, <2>4 DEF Delete, Refuse, Turn
  <2> QED
    BY <1>2, <2>2, <2>3, <2>4
<1>3. CASE Insert(c) \/ Select(c) \/ Apply(c)
  <2>1. UNCHANGED <<clock, tables>>
    BY <1>3 DEF Insert, Select, Apply
  <2>2. CASE Insert(c)
    BY <2>1, <2>2 DEF Insert, Turn
  <2>3. CASE Select(c)
    BY <2>1, <2>3 DEF Select, Give, Answer, Refuse
  <2>4. CASE Apply(c)
    BY <2>1, <2>4 DEF Apply, Create, Change, Refuse, Turn
  <2> QED
    BY <1>3, <2>2, <2>3, <2>4
<1>4. CASE Die(c)
  BY <1>4 DEF Die
<1> QED
  BY <1>1, <1>2, <1>3, <1>4 DEF ReplayStep

\* Before its commit a request is no step of the ledger, or one that tells its client.
LEMMA QuietStepsMap ==
    ASSUME ReplayInv, ReplayInv', NEW c \in Clients, ReplayStep(c), ~Commit(c)
    PROVE  Serial!Next
<1>1. UNCHANGED <<clock, retained, version, effects>>
  BY QuietSteps DEF tables
<1>2. PICK r : client' = [client EXCEPT ![c] = r]
  BY QuietSteps
<1>3. \/ Told(c)' = <<>>
      \/ \E i \in 1 .. Len(effects) : Told(c)' = <<effects[i].ask, i>>
  <2>1. \/ Told(c)' = <<>>
        \/ \E i \in 1 .. Len(effects') : Told(c)' = <<effects'[i].ask, i>>
    <3>1. Promise(client[c])'
      BY DEF ReplayInv, RequestInv
    <3> QED
      BY <3>1 DEF Promise, Told
  <2> QED
    BY <1>1, <2>1
<1>4. CASE Told(c)' = <<>>
  <2>1. Serial!Leave(c)
    BY <1>1, <1>2, <1>4, ToldMoves DEF Serial!Leave, Serial!Tell
  <2> QED
    BY <2>1 DEF Serial!Next
<1>5. ASSUME NEW i \in 1 .. Len(effects), Told(c)' = <<effects[i].ask, i>>
      PROVE  Serial!Next
  <2>1. Serial!Repeat(c, i)
    BY <1>1, <1>2, <1>5, ToldMoves DEF Serial!Repeat, Serial!Tell
  <2> QED
    BY <2>1 DEF Serial!Next
<1> QED
  BY <1>3, <1>4, <1>5

\* No entry of the key of a request that commits can still be repeated.
LEMMA KeyIsOver ==
    ASSUME ReplayInv, NEW c \in Clients, Commit(c), NEW i \in 1 .. Len(effects),
           ScopeOf(effects[i].ask) = ScopeOf(client[c].ask)
    PROVE  effects[i].expires <= clock
<1> SUFFICES ASSUME ~(effects[i].expires <= clock) PROVE FALSE
  OBVIOUS
<1> DEFINE s == ScopeOf(client[c].ask)
<1>1. s \in Scopes /\ ~Live(s)
  BY CommitFacts
<1>2. effects[i].expires > clock
  BY EffectTypes, RequestTypes DEF ReplayInv
<1>3. record[s] # NoRecord /\ record[s].effect = i
  BY <1>2 DEF ReplayInv, TableInv, Remembered
<1>4. record[s].expires = effects[i].expires
  BY <1>1, <1>3 DEF ReplayInv, TableInv, RecordsAreTrue
<1> QED
  BY <1>1, <1>2, <1>3, <1>4 DEF Live

\* A commit is the one step in which a request takes effect.
LEMMA CommitMaps ==
    ASSUME LedgerInv, NEW c \in Clients, Commit(c)
    PROVE  Serial!Next
<1> DEFINE a == client[c].ask
           n == Len(effects) + 1
           expires == Deadline(c)
           seen == client[c].seen
<1>1. /\ ReplayInv /\ client[c].pc = "commit" /\ a \in Asks /\ clock' = clock
      /\ expires = client[c].now + KeepAnswer /\ client[c].now \in Nat /\ KeepAnswer \in Nat
      /\ clock \in Nat
  <2>1. ReplayInv /\ ReplayTypeOK
    BY DEF LedgerInv, ReplayInv
  <2>2. a \in Asks /\ client[c].now \in Nat /\ KeepAnswer \in Nat /\ clock \in Nat
    BY <2>1, RequestTypes
  <2>3. client[c].pc = "commit" /\ clock' = clock
    BY DEF Commit
  <2> QED
    BY <2>1, <2>2, <2>3 DEF Deadline
<1>2. expires \in 0 .. clock + KeepAnswer
  <2>1. client[c].now <= clock
    BY <1>1 DEF ReplayInv, RequestInv, Promise
  <2> QED
    BY <1>1, <2>1
<1>3. effects' = Append(effects, [ask |-> a, at |-> clock, expires |-> expires, seen |-> seen])
  BY DEF Commit
<1>4. /\ a.op = "create" => retained[a.owner] < Limit /\ seen = 0
      /\ a.op = "change" => version[a.target] = seen
      /\ a.op \in {"create", "change"}
  BY <1>1, AskTypes DEF LedgerInv, ReplayInv, RequestInv, ChangeIsHeld, NothingSeen
<1>5. \A i \in 1 .. Len(effects) : Serial!Scope(effects[i].ask) = Serial!Scope(a) => effects[i].expires <= clock
  BY <1>1, KeyIsOver DEF Serial!Scope, ScopeOf
<1>6. Serial!Tell(c, <<a, n>>)
  <2> DEFINE r == [NoRequest EXCEPT !.pc = "answered", !.ask = a, !.due = client[c].due, !.answer = n]
  <2>1. client' = [client EXCEPT ![c] = r]
    BY DEF Commit, Answer
  <2>2. r.pc = "answered" /\ r.ask = a /\ r.answer = n
    BY DEF NoRequest
  <2> HIDE DEF r
  <2>3. client'[c] = r
    BY <1>1, <2>1 DEF ReplayInv, ReplayTypeOK
  <2>4. Told(c)' = <<a, n>>
    BY <2>2, <2>3 DEF Told
  <2> QED
    BY <1>1, <2>1, <2>4, ToldMoves DEF Serial!Tell
<1>7. CASE a.op = "create"
  <2>1. retained' = [retained EXCEPT ![a.owner] = @ + 1] /\ version' = version
    BY <1>7 DEF Commit
  <2>2. Serial!Make(a)
    BY <1>2, <1>3, <1>4, <1>7, <2>1 DEF Serial!Make, Serial!Enter
  <2>3. Serial!Serve(c, a)
    BY <1>1, <1>5, <1>6, <2>2 DEF Serial!Serve
  <2> QED
    BY <1>1, <2>3 DEF Serial!Next
<1>8. CASE a.op = "change"
  <2>1. version' = [version EXCEPT ![a.target] = @ + 1] /\ retained' = retained
    BY <1>8 DEF Commit
  <2>2. Serial!Alter(a)
    BY <1>2, <1>3, <1>4, <1>8, <2>1 DEF Serial!Alter, Serial!Enter
  <2>3. Serial!Serve(c, a)
    BY <1>1, <1>5, <1>6, <2>2 DEF Serial!Serve
  <2> QED
    BY <1>1, <2>3 DEF Serial!Next
<1> QED
  BY <1>4, <1>7, <1>8

\* Only a change reads a version.
LEMMA NothingSeenStep ==
    ASSUME LedgerInv, [ReplayNext]_replayVars
    PROVE  NothingSeen'
<1> SUFFICES ASSUME NEW q \in Clients, client'[q].ask.op = "create" PROVE client'[q].seen = 0
  BY DEF NothingSeen
<1>1. client \in [Clients -> Requests] /\ (client[q].ask.op = "create" => client[q].seen = 0)
  BY DEF LedgerInv, ReplayInv, ReplayTypeOK, NothingSeen
<1>2. CASE client'[q] = client[q]
  BY <1>1, <1>2
<1>3. ASSUME NEW c \in Clients, ReplayStep(c), client'[q] # client[q]
      PROVE  client'[q].seen = 0
  <2>1. CASE \E pc : Turn(c, pc)
    <3>1. PICK pc : client' = [client EXCEPT ![c].pc = pc]
      BY <2>1 DEF Turn
    <3>2. client'[q].ask = client[q].ask /\ client'[q].seen = client[q].seen
      BY <1>1, <3>1 DEF Requests
    <3> QED
      BY <1>1, <3>2
  <2>2. CASE \E n : Answer(c, n)
    BY <1>1, <1>3, <2>2 DEF Answer, NoRequest
  <2>3. CASE Refuse(c)
    BY <1>1, <1>3, <2>3 DEF Refuse, NoRequest
  <2>4. CASE \E a \in Asks : Send(c, a)
    BY <1>1, <1>3, <2>4 DEF Send, NoRequest
  <2>5. CASE Die(c)
    BY <1>1, <1>3, <2>5 DEF Die, NoRequest
  <2>6. CASE Check(c) /\ ~Refuse(c)
    <3> DEFINE seen == IF client[c].ask.op = "change" THEN version[client[c].ask.target] ELSE 0
    <3>1. client' = [client EXCEPT ![c].pc = "delete", ![c].seen = seen]
      BY <2>6 DEF Check
    <3>2. q = c /\ client'[c].ask = client[c].ask /\ client'[c].seen = seen
      BY <1>1, <1>3, <3>1 DEF Requests
    <3> QED
      BY <3>2
  <2> QED
    BY <1>3, <2>1, <2>2, <2>3, <2>4, <2>5, <2>6
       DEF ReplayStep, Find, Check, Delete, Insert, Select, Apply, Create, Change, Commit, Give
<1> QED
  BY <1>2, <1>3 DEF ReplayNext, PurgeRecord, PurgeRow, ReplayTick, replayVars

\* Requests in steps of their own, with others between any two and deaths at any point,
\* implement a service that takes one request at a time.
THEOREM RequestsAreSerial == ReplaySpec => ImplementsLedger
<1>1. ReplayInit => LedgerInv /\ Serial!Init
  <2> SUFFICES ASSUME ReplayInit PROVE LedgerInv /\ Serial!Init
    OBVIOUS
  <2>1. NothingSeen
    BY DEF ReplayInit, NothingSeen, NoRequest
  <2>2. \A c \in Clients : Told(c) = <<>>
    BY DEF ReplayInit, Told, NoRequest
  <2> QED
    BY <2>1, <2>2, ReplayInitInv DEF LedgerInv, ReplayInit, Serial!Init
<1>2. LedgerInv /\ [ReplayNext]_replayVars => LedgerInv'
  BY ReplayStepInv, NothingSeenStep DEF LedgerInv
<1>3. LedgerInv /\ LedgerInv' /\ [ReplayNext]_replayVars => [Serial!Next]_(Serial!vars)
  <2> SUFFICES ASSUME LedgerInv, LedgerInv', [ReplayNext]_replayVars
               PROVE  [Serial!Next]_(Serial!vars)
    OBVIOUS
  <2>1. ASSUME NEW c \in Clients, ReplayStep(c) PROVE Serial!Next
    BY <2>1, QuietStepsMap, CommitMaps DEF LedgerInv
  <2>2. CASE UNCHANGED replayVars \/ \E s \in Scopes : PurgeRecord(s)
    BY <2>2 DEF replayVars, PurgeRecord, Serial!vars, Told
  <2>3. CASE \E o \in Owners : PurgeRow(o)
    BY <2>3 DEF PurgeRow, Serial!Next, Serial!Remove, Told
  <2>4. CASE ReplayTick
    BY <2>4 DEF ReplayTick, tables, Serial!Next, Serial!Tick, Told
  <2> QED
    BY <2>1, <2>2, <2>3, <2>4 DEF ReplayNext
<1> QED
  BY <1>1, <1>2, <1>3, PTL DEF ReplaySpec, ImplementsLedger, Serial!Spec

\* What the ledger keeps at every step, whoever its clients are.
Entries == [ask : Asks, at : Nat, expires : Nat, seen : Nat]

SerialInv ==
    /\ clock \in Nat /\ version \in [Targets -> Nat] /\ effects \in Seq(Entries)
    /\ Serial!ServedOnce

\* An entry more leaves the others in place, with the same numbers.
LEMMA EntriesGrow ==
    ASSUME effects \in Seq(Entries), NEW e \in Entries, effects' = Append(effects, e)
    PROVE  /\ effects' \in Seq(Entries) /\ Len(effects') = Len(effects) + 1
           /\ \A i \in 1 .. Len(effects) : effects'[i] = effects[i]
           /\ effects'[Len(effects) + 1] = e
           /\ \A i \in 1 .. Len(effects') : i \in 1 .. Len(effects) \/ i = Len(effects) + 1
OBVIOUS

\* A request that takes effect enters the ledger once, and its client is told of its entry.
LEMMA ServeKeepsInv ==
    ASSUME SerialInv, NEW c \in Clients, NEW a \in Asks, Serial!Serve(c, a)
    PROVE  SerialInv'
<1>1. PICK x \in 0 .. clock + KeepAnswer, n \in Nat :
         effects' = Append(effects, [ask |-> a, at |-> clock, expires |-> x, seen |-> n])
  BY AskTypes DEF SerialInv, Serial!Serve, Serial!Make, Serial!Alter, Serial!Enter
<1> DEFINE e == [ask |-> a, at |-> clock, expires |-> x, seen |-> n]
<1>2. e \in Entries
  BY <1>1, ReplayAssumption DEF SerialInv, Entries
<1>3. clock' \in Nat /\ clock' = clock
  BY DEF SerialInv, Serial!Serve
<1>4. version' \in [Targets -> Nat]
  BY AskTypes DEF SerialInv, Serial!Serve, Serial!Make, Serial!Alter
<1>5. /\ effects' \in Seq(Entries) /\ Len(effects') = Len(effects) + 1
      /\ \A i \in 1 .. Len(effects) : effects'[i] = effects[i]
      /\ effects'[Len(effects) + 1] = e
      /\ \A i \in 1 .. Len(effects') : i \in 1 .. Len(effects) \/ i = Len(effects) + 1
  BY <1>1, <1>2, EntriesGrow DEF SerialInv
<1> HIDE DEF e
<1>6. e.ask = a /\ e.at = clock
  BY DEF e
<1>7. Len(effects) \in Nat
  BY DEF SerialInv
<1>8. \A i \in 1 .. Len(effects) :
         Serial!Scope(effects[i].ask) = Serial!Scope(a) => effects[i].expires <= clock
  BY DEF Serial!Serve
<1>9. \A d \in Clients : Told(d)' = IF d = c THEN <<a, Len(effects) + 1>> ELSE Told(d)
  <2>1. [d \in Clients |-> Told(d)']
           = [[d \in Clients |-> Told(d)] EXCEPT ![c] = <<a, Len(effects) + 1>>]
    BY DEF Serial!Serve, Serial!Tell
  <2> HIDE DEF Told
  <2> QED
    BY <2>1
<1>10. Serial!ServedOnce'
  <2>1. ASSUME NEW i \in 1 .. Len(effects'), NEW j \in 1 .. Len(effects'), i < j,
               Serial!Scope(effects'[i].ask) = Serial!Scope(effects'[j].ask)
        PROVE  effects'[i].expires <= effects'[j].at
    <3>1. i \in 1 .. Len(effects) /\ effects'[i] = effects[i]
      BY <2>1, <1>5, <1>7
    <3>2. CASE j \in 1 .. Len(effects)
      BY <2>1, <3>1, <3>2, <1>5 DEF SerialInv, Serial!ServedOnce
    <3>3. CASE j = Len(effects) + 1
      <4>1. effects'[j] = e
        BY <3>3, <1>5
      <4> QED
        BY <2>1, <3>1, <4>1, <1>6, <1>8
    <3> QED
      BY <3>2, <3>3, <1>5
  <2>2. ASSUME NEW d \in Clients, Told(d)' # <<>>
        PROVE  Told(d)'[2] \in 1 .. Len(effects') /\ effects'[Told(d)'[2]].ask = Told(d)'[1]
    <3> HIDE DEF Told
    <3>1. CASE d = c
      BY <3>1, <1>5, <1>6, <1>7, <1>9
    <3>2. CASE d # c
      <4>1. Told(d)' = Told(d)
        BY <3>2, <1>9
      <4>2. Told(d)[2] \in 1 .. Len(effects) /\ effects[Told(d)[2]].ask = Told(d)[1]
        BY <2>2, <4>1 DEF SerialInv, Serial!ServedOnce
      <4> QED
        BY <4>1, <4>2, <1>5, <1>7
    <3> QED
      BY <3>1, <3>2
  <2> QED
    BY <2>1, <2>2 DEF Serial!ServedOnce, Serial!Scope
<1> QED
  BY <1>3, <1>4, <1>5, <1>10 DEF SerialInv

\* A service that takes one request at a time serves a key again only after its last entry
\* can no longer be repeated, and tells a client of an entry for just what it asked: what
\* the requests are shown to implement has the meaning that its name claims.
THEOREM LedgerServesOnce == Serial!Spec => []Serial!ServedOnce
<1>1. Serial!Init => SerialInv
  <2> SUFFICES ASSUME Serial!Init PROVE SerialInv
    OBVIOUS
  <2>1. \A d \in Clients : Told(d) = <<>>
    BY DEF Serial!Init
  <2>2. effects = <<>> /\ Len(effects) = 0 /\ effects \in Seq(Entries)
    BY DEF Serial!Init
  <2> QED
    BY <2>1, <2>2 DEF Serial!Init, SerialInv, Serial!ServedOnce
<1>2. SerialInv /\ [Serial!Next]_(Serial!vars) => SerialInv'
  <2> SUFFICES ASSUME SerialInv, [Serial!Next]_(Serial!vars) PROVE SerialInv'
    OBVIOUS
  <2>1. ASSUME NEW c \in Clients, NEW a \in Asks, Serial!Serve(c, a) PROVE SerialInv'
    BY <2>1, ServeKeepsInv
  <2>2. ASSUME UNCHANGED <<version, effects>>, clock' \in Nat,
               \A d \in Clients : \/ Told(d)' \in {Told(d), <<>>}
                                  \/ \E i \in 1 .. Len(effects) : Told(d)' = <<effects[i].ask, i>>
        PROVE  SerialInv'
    <3> HIDE DEF Told
    <3>1. ASSUME NEW d \in Clients, Told(d)' # <<>>
          PROVE  Told(d)'[2] \in 1 .. Len(effects) /\ effects[Told(d)'[2]].ask = Told(d)'[1]
      BY <2>2, <3>1 DEF SerialInv, Serial!ServedOnce
    <3> QED
      BY <2>2, <3>1 DEF SerialInv, Serial!ServedOnce, Serial!Scope
  <2>3. ASSUME NEW c \in Clients, NEW i \in 1 .. Len(effects), Serial!Repeat(c, i) PROVE SerialInv'
    <3>1. [d \in Clients |-> Told(d)']
             = [[d \in Clients |-> Told(d)] EXCEPT ![c] = <<effects[i].ask, i>>]
      BY <2>3 DEF Serial!Repeat, Serial!Tell
    <3>2. \A d \in Clients : Told(d)' = IF d = c THEN <<effects[i].ask, i>> ELSE Told(d)
      BY <3>1
    <3> QED
      BY <2>2, <2>3, <3>2 DEF Serial!Repeat, SerialInv
  <2>4. ASSUME NEW c \in Clients, Serial!Leave(c) PROVE SerialInv'
    <3>1. [d \in Clients |-> Told(d)'] = [[d \in Clients |-> Told(d)] EXCEPT ![c] = <<>>]
      BY <2>4 DEF Serial!Leave, Serial!Tell
    <3>2. \A d \in Clients : Told(d)' = IF d = c THEN <<>> ELSE Told(d)
      BY <3>1
    <3> QED
      BY <2>2, <2>4, <3>2 DEF Serial!Leave, SerialInv
  <2>5. CASE Serial!Tick \/ (\E o \in Owners : Serial!Remove(o)) \/ UNCHANGED Serial!vars
    <3>1. [d \in Clients |-> Told(d)'] = [d \in Clients |-> Told(d)]
      BY <2>5 DEF Serial!Tick, Serial!Remove, Serial!vars
    <3>2. \A d \in Clients : Told(d)' = Told(d)
      BY <3>1
    <3> QED
      BY <2>2, <2>5, <3>2 DEF Serial!Tick, Serial!Remove, Serial!vars, SerialInv
  <2> QED
    BY <2>1, <2>3, <2>4, <2>5 DEF Serial!Next
<1>3. SerialInv => Serial!ServedOnce
  BY DEF SerialInv
<1> QED
  BY <1>1, <1>2, <1>3, PTL DEF Serial!Spec
----------------------------------------------------------------------------
(* Nobody waits in a circle *)

\* The locks without which c cannot go on.
Wanted(c) ==
    LET a == client[c].ask
    IN  CASE client[c].pc \in {"insert", "select"} -> {ScopeOf(a)}
          [] client[c].pc = "delete" /\ Outdated(ScopeOf(a)) -> {ScopeOf(a)}
          [] client[c].pc = "apply" -> {IF a.op = "create" THEN a.owner ELSE a.target}
          [] OTHER -> {}

\* c cannot go on before d does.
WaitsFor(c, d) == c # d /\ \E l \in Wanted(c) : held[l] = d

\* Whoever a request waits for waits, if at all, for one that waits for nobody.
WaitsAreShort ==
    \A c, d, e, f \in Clients : ~(WaitsFor(c, d) /\ WaitsFor(d, e) /\ WaitsFor(e, f))

\* Until it is about to commit, a transaction has no lock but its key.
KeysComeFirst ==
    \A c \in Clients, l \in Locks :
        held[l] = c => l = ScopeOf(client[c].ask) \/ client[c].pc = "commit"

\* A lock that is held by another than before was taken by the request whose step it is:
\* its key, or what it is to change.
LEMMA LockIsTaken ==
    ASSUME ReplayInv, NEW c \in Clients, NEW l \in Locks, ReplayStep(c),
           held'[l] \notin {held[l], NoClient}
    PROVE  /\ held'[l] = c /\ client'[c].ask = client[c].ask
           /\ l = ScopeOf(client[c].ask) \/ client'[c].pc = "commit"
<1>1. /\ client \in [Clients -> Requests] /\ held \in [Locks -> Clients \cup {NoClient}]
      /\ DOMAIN held = Locks
  BY DEF ReplayInv, ReplayTypeOK, Locks
<1>2. Release(c) => held'[l] \in {held[l], NoClient}
  BY <1>1 DEF Release
<1>3. \A k \in Locks : Hold(c, k) => held'[l] = IF l = k THEN c ELSE held[l]
  BY <1>1 DEF Hold
<1>4. \A pc : Turn(c, pc) => client'[c].pc = pc /\ client'[c].ask = client[c].ask
  BY <1>1 DEF Turn, Requests
<1>5. client[c].ask \in Asks
  BY <1>1 DEF Requests
<1>6. /\ ScopeOf(client[c].ask) \in Locks /\ client[c].ask.owner \in Locks
      /\ client[c].ask.op = "create" \/ client[c].ask.target \in Locks
  BY <1>5, AskTypes
<1>7. CASE (\E a \in Asks : Send(c, a)) \/ Find(c) \/ Check(c) \/ Select(c) \/ Commit(c) \/ Die(c)
  BY <1>2, <1>7 DEF Send, Find, Check, Select, Commit, Die, Give, Refuse
<1>8. CASE Delete(c) \/ Insert(c)
  BY <1>2, <1>3, <1>4, <1>6, <1>8 DEF Delete, Insert, Refuse
<1>9. CASE Apply(c)
  <2>1. client[c].pc = "apply"
    BY <1>9 DEF Apply
  <2>2. CASE Create(c)
    <3>1. CASE Hold(c, client[c].ask.owner) /\ Turn(c, "commit")
      BY <1>3, <1>4, <1>6, <2>1, <3>1
    <3> QED
      BY <1>2, <2>2, <3>1 DEF Create, CountAlone, Refuse
  <2>3. CASE client[c].ask.op # "create" /\ Change(c)
    <3>1. CASE Hold(c, client[c].ask.target) /\ Turn(c, "commit")
      BY <1>3, <1>4, <1>6, <2>1, <2>3, <3>1
    <3> QED
      BY <1>2, <2>3, <3>1 DEF Change, Refuse
  <2> QED
    BY <1>9, <2>2, <2>3 DEF Apply
<1> QED
  BY <1>7, <1>8, <1>9 DEF ReplayStep

LEMMA KeysComeFirstStep ==
    ASSUME ReplayInv, ReplayInv', KeysComeFirst, [ReplayNext]_replayVars
    PROVE  KeysComeFirst'
<1>1. CASE UNCHANGED <<held, client>>
  BY <1>1 DEF KeysComeFirst
<1>2. ASSUME NEW c \in Clients, ReplayStep(c) PROVE KeysComeFirst'
  <2> SUFFICES ASSUME NEW d \in Clients, NEW l \in Locks, held'[l] = d
               PROVE  l = ScopeOf(client'[d].ask) \/ client'[d].pc = "commit"
    BY DEF KeysComeFirst
  <2>1. d # NoClient
    BY ReplayAssumption
  <2>2. CASE held'[l] # held[l]
    <3>1. held'[l] # NoClient
      BY <2>1
    <3>2. /\ held'[l] = c /\ client'[c].ask = client[c].ask
          /\ l = ScopeOf(client[c].ask) \/ client'[c].pc = "commit"
      BY <1>2, <2>2, <3>1, LockIsTaken
    <3>3. d = c
      BY <3>2
    <3> QED
      BY <3>2, <3>3
  <2>3. CASE held'[l] = held[l] /\ d # c
    <3>1. client'[d] = client[d]
      BY <1>2, <2>3 DEF ReplayInv, ReplayTypeOK, ReplayStep, Send, Find, Check, Delete, Insert,
         Select, Apply, Create, Change, Commit, Die, Give, Answer, Refuse, Turn
    <3> QED
      BY <2>3, <3>1 DEF KeysComeFirst
  <2>4. CASE held'[l] = held[l] /\ d = c
    <3>1. client[c].pc \in InTransaction /\ client'[c].pc \in InTransaction
      <4>1. KeyIsHeld(c, client[c], held) /\ KeyIsHeld(c, client[c], held)'
        BY DEF ReplayInv, RequestInv
      <4> QED
        BY <2>4, <4>1 DEF KeyIsHeld
    <3>2. \E pc \in {"apply", "select", "commit"} : Turn(c, pc)
      <4>1. client \in [Clients -> Requests]
        BY DEF ReplayInv, ReplayTypeOK
      <4>2. ~Refuse(c) /\ (\A n : ~Answer(c, n)) /\ ~Die(c)
        <5>1. ASSUME Refuse(c) PROVE FALSE
          BY <3>1, <4>1, <5>1 DEF InTransaction, Refuse
        <5>2. ASSUME NEW n, Answer(c, n) PROVE FALSE
          BY <3>1, <4>1, <5>2 DEF InTransaction, Answer
        <5>3. ASSUME Die(c) PROVE FALSE
          BY <3>1, <4>1, <5>3 DEF InTransaction, Die, NoRequest
        <5> QED
          BY <5>1, <5>2, <5>3
      <4>3. Insert(c) \/ Apply(c)
        BY <1>2, <3>1, <4>2 DEF InTransaction, ReplayStep, Send, Find, Check, Delete, Select, Commit
      <4>4. CASE Insert(c)
        BY <4>4 DEF Insert
      <4>5. CASE Apply(c)
        BY <4>2, <4>5 DEF Apply, Create, Change
      <4> QED
        BY <4>3, <4>4, <4>5
    <3>3. client'[c].ask = client[c].ask /\ (client[c].pc = "commit" => client'[c].pc = "commit")
      <4>1. client \in [Clients -> Requests]
        BY DEF ReplayInv, ReplayTypeOK
      <4>2. client[c].pc # "commit"
        <5> SUFFICES ASSUME client[c].pc = "commit" PROVE FALSE
          OBVIOUS
        <5>1. PICK pc \in {"apply", "select", "commit"} : Turn(c, pc)
          BY <3>2
        <5>2. client'[c].ask = client[c].ask /\ client'[c].pc = pc
          BY <4>1, <5>1 DEF Turn, Requests
        <5>3. Commit(c) => client'[c].pc = "answered"
          BY <4>1 DEF Commit, Answer
        <5>4. Die(c) => client'[c].pc = "idle"
          BY <4>1 DEF Die, NoRequest
        <5> QED
          BY <1>2, <5>1, <5>2, <5>3, <5>4 DEF ReplayStep, Send, Find, Check, Delete, Insert,
             Select, Apply
      <4> QED
        BY <3>2, <4>1, <4>2 DEF Turn, Requests
    <3> QED
      BY <2>4, <3>3 DEF KeysComeFirst
  <2> QED
    BY <2>2, <2>3, <2>4
<1> QED
  BY <1>1, <1>2 DEF ReplayNext, PurgeRecord, PurgeRow, ReplayTick, replayVars

\* Keys, capacities and rows are locked in an order in which requests cannot block one
\* another for good: of those that wait for each other, the third goes on.  A key, an
\* account and a reminder are locked in different tables, so none is the other's lock.
THEOREM NobodyWaitsInACircle ==
    ASSUME Scopes \cap (Owners \cup Targets) = {}
    PROVE  ReplaySpec => []WaitsAreShort
<1>1. ReplayInit => KeysComeFirst
  BY ReplayAssumption DEF ReplayInit, KeysComeFirst, Locks
<1>2. ReplayInv /\ ReplayInv' /\ KeysComeFirst /\ [ReplayNext]_replayVars => KeysComeFirst'
  BY KeysComeFirstStep
<1>3. ReplayInv /\ KeysComeFirst => WaitsAreShort
  <2> SUFFICES ASSUME ReplayInv, KeysComeFirst,
                      NEW c \in Clients, NEW d \in Clients, NEW e \in Clients, NEW f \in Clients,
                      WaitsFor(c, d), WaitsFor(d, e), WaitsFor(e, f)
               PROVE  FALSE
    BY DEF WaitsAreShort
  <2>1. \A x \in Clients : /\ client[x].ask \in Asks
                           /\ Wanted(x) \subseteq Locks
                           /\ client[x].pc = "apply" => Wanted(x) \subseteq Owners \cup Targets
    BY AskTypes DEF ReplayInv, ReplayTypeOK, Requests, Wanted, Locks
  <2>2. ASSUME NEW x \in Clients, NEW y \in Clients, NEW z \in Clients,
               WaitsFor(x, y), WaitsFor(y, z)
        PROVE  client[y].pc = "apply"
    <3>1. PICK l \in Wanted(x) : held[l] = y
      BY <2>2 DEF WaitsFor
    <3>2. client[y].pc \in InTransaction /\ (client[y].pc = "insert" => l = ScopeOf(client[y].ask))
      BY <2>1, <3>1 DEF ReplayInv, RequestInv, KeyIsHeld
    <3>3. PICK k \in Wanted(y) : held[k] = z /\ y # z
      BY <2>2 DEF WaitsFor
    <3>4. client[y].pc # "commit"
      BY <3>3 DEF Wanted
    <3>5. client[y].pc = "insert" => k = ScopeOf(client[y].ask)
      BY <3>3 DEF Wanted
    <3> QED
      BY <3>1, <3>2, <3>3, <3>4, <3>5 DEF InTransaction
  <2>3. client[d].pc = "apply" /\ client[e].pc = "apply"
    BY <2>2
  <2>4. PICK l \in Wanted(d) : held[l] = e
    BY DEF WaitsFor
  <2>5. l \in Owners \cup Targets /\ l \in Locks
    BY <2>1, <2>3, <2>4
  <2>6. ScopeOf(client[e].ask) \in Scopes
    BY <2>1, AskTypes
  <2> QED
    BY <2>3, <2>4, <2>5, <2>6 DEF KeysComeFirst
<1> QED
  BY <1>1, <1>2, <1>3, ReplayInvariant, PTL DEF ReplaySpec
=============================================================================
