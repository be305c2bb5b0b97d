--------------------------- MODULE Subscriptions ---------------------------
(***************************************************************************)
(* Webhook subscriptions of one account: adding one under the limit, ending *)
(* them, and the retention sweep, which encrypts active ones under the      *)
(* current key and deletes ended ones at the end of their retention.        *)
(*                                                                         *)
(* API and worker processes each have the keyring they started with.  An   *)
(* operator rolls a new key out in four settings: the old key alone, the   *)
(* new one known, the new one in use, and the old one gone.  Nothing in    *)
(* the program checks that processes agree; what the operator has to wait   *)
(* for is the guard of Restart.                                            *)
(*                                                                         *)
(* A subscription is a row with the version of its key; its endpoint and   *)
(* its secret, encrypted together, are that version here.                  *)
(***************************************************************************)
EXTENDS Naturals, FiniteSets

CONSTANTS
    Nodes,        \* processes of the API and the worker
    Hooks,        \* subscription ids
    MaxActive,    \* subscriptions that may be active
    KeepEnded,    \* retention of an ended subscription
    MaxDay,       \* bound: the clock stops here
    MaxVersion    \* bound: changes of one row

Nobody == "nobody"

ASSUME SubscriptionsAssumption ==
    /\ Nobody \notin Nodes
    /\ MaxActive \in Nat /\ KeepEnded \in Nat \ {0}
    /\ MaxDay \in Nat /\ MaxVersion \in Nat \ {0}

VARIABLES
    day,
    hook,      \* hook_destinations
    counting,  \* the process whose open transaction holds the account's capacity lock
    setting,   \* the keyring each process runs with
    job        \* what each process is doing

subscriptionsVars == <<day, hook, counting, setting, job>>
----------------------------------------------------------------------------
OldKey == 1
NewKey == 2
Settings == 1 .. 4

\* Mutant of Known: only the key in use is kept.
KnownCurrent(n) == IF setting[n] <= 2 THEN {OldKey} ELSE {NewKey}

Known(n) == CASE setting[n] = 1 -> {OldKey} [] setting[n] = 4 -> {NewKey} [] OTHER -> {OldKey, NewKey}
Current(n) == IF setting[n] <= 2 THEN OldKey ELSE NewKey

HookRows == [state : {"active", "ended"}, version : 1 .. MaxVersion, key : {OldKey, NewKey},
         ended : 0 .. MaxDay]
NoHook(state) == [state |-> state]

Jobs == [pc : {"idle", "insert", "rewrap", "purge"}, rows : SUBSET (Hooks \X (1 .. MaxVersion)),
         key : {OldKey, NewKey}]
NoJob == [pc |-> "idle", rows |-> {}, key |-> OldKey]

Active(h) == hook[h].state = "active"
Ended(h) == hook[h].state = "ended"

\* The variables have their types; the lock is that of an insertion.
SubscriptionsTypeOK ==
    /\ day \in 0 .. MaxDay
    /\ hook \in [Hooks -> HookRows \cup {NoHook("unused"), NoHook("purged")}]
    /\ counting \in Nodes \cup {Nobody}
    /\ setting \in [Nodes -> Settings]
    /\ job \in [Nodes -> Jobs]
    /\ \A n \in Nodes : (counting = n) => job[n].pc = "insert"

SubscriptionsInit ==
    /\ day = 0
    /\ hook = [h \in Hooks |-> NoHook("unused")]
    /\ counting = Nobody
    /\ setting = [n \in Nodes |-> 1]
    /\ job = [n \in Nodes |-> NoJob]
----------------------------------------------------------------------------
(* The API *)

\* Mutant of MayCountRows: subscriptions are counted without the lock.
MayCountRowsAlways(n) == UNCHANGED counting

MayCountRows(n) == counting = Nobody /\ counting' = n

\* The endpoint is encrypted, and the account's active subscriptions are counted.
Subscribe(n) ==
    /\ job[n].pc = "idle"
    /\ MayCountRows(n)
    /\ Cardinality({h \in Hooks : Active(h)}) < MaxActive
    /\ job' = [job EXCEPT ![n] = [NoJob EXCEPT !.pc = "insert", !.key = Current(n)]]
    /\ UNCHANGED <<day, hook, setting>>

AddHook(n, h) ==
    /\ job[n].pc = "insert"
    /\ hook[h].state = "unused"
    /\ hook' = [hook EXCEPT ![h] =
          [state |-> "active", version |-> 1, key |-> job[n].key, ended |-> 0]]
    /\ counting' = Nobody
    /\ job' = [job EXCEPT ![n] = NoJob]
    /\ UNCHANGED <<day, setting>>

EndedRow(row) == [row EXCEPT !.state = "ended", !.version = @ + 1, !.ended = day]

\* One subscription, or all of them: active ones end, the others stay as they are.
Unsubscribe(hooks) ==
    /\ \A h \in hooks : Active(h) /\ hook[h].version < MaxVersion
    /\ hook' = [h \in Hooks |-> IF h \in hooks THEN EndedRow(hook[h]) ELSE hook[h]]
    /\ UNCHANGED <<day, counting, setting, job>>
----------------------------------------------------------------------------
(* The sweep of a worker *)

Sweep(n) ==
    /\ job[n].pc = "idle"
    /\ job' = [job EXCEPT ![n] = [NoJob EXCEPT
          !.pc = "rewrap",
          !.rows = {<<h, hook[h].version>> : h \in {g \in Hooks : Active(g) /\ hook[g].key # Current(n)}}]]
    /\ UNCHANGED <<day, hook, counting, setting>>

\* Mutant of SameRow: the row is only found by its id.
SameRowById(h, version) == hook[h].state \notin {"unused", "purged"}

\* Nobody ended it or encrypted it again since it was read.
SameRow(h, version) == Active(h) /\ hook[h].version = version

UnderCurrent(n, row) == [row EXCEPT !.version = @ + 1, !.key = Current(n)]

\* The next row that was read.  A key that is missing fails the whole sweep.
Rewrap(n, h, version) ==
    /\ job[n].pc = "rewrap"
    /\ <<h, version>> \in job[n].rows
    /\ \/ /\ SameRow(h, version) /\ hook[h].key \in Known(n)
          /\ hook[h].version < MaxVersion
          /\ hook' = [hook EXCEPT ![h] = UnderCurrent(n, @)]
          /\ job' = [job EXCEPT ![n].rows = @ \ {<<h, version>>}]
       \/ /\ SameRow(h, version) /\ hook[h].key \notin Known(n)
          /\ job' = [job EXCEPT ![n] = NoJob]
          /\ UNCHANGED hook
       \/ /\ ~SameRow(h, version)
          /\ job' = [job EXCEPT ![n].rows = @ \ {<<h, version>>}]
          /\ UNCHANGED hook
    /\ UNCHANGED <<day, counting, setting>>

\* Mutant of Purges: ended subscriptions are deleted at once.
PurgesAtOnce(h) == Ended(h)

Purges(h) == Ended(h) /\ hook[h].ended + KeepEnded <= day

\* What was to be rewrapped is done; ended rows past their retention are deleted.
PurgeHooks(n) ==
    /\ job[n].pc = "rewrap" /\ job[n].rows = {}
    /\ hook' = [h \in Hooks |-> IF Purges(h) THEN NoHook("purged") ELSE hook[h]]
    /\ job' = [job EXCEPT ![n] = NoJob]
    /\ UNCHANGED <<day, counting, setting>>
----------------------------------------------------------------------------
\* The operator's part: a key is in use once every process knows it, and gone once every
\* process uses the other and no active row is under it.
MayUse(s) ==
    /\ s = 3 => \A m \in Nodes : setting[m] >= 2
    /\ s = 4 => /\ \A m \in Nodes : setting[m] >= 3
                /\ \A h \in Hooks : Active(h) => hook[h].key # OldKey

\* A process starts again, with its keyring or the next; its transaction rolls back.
Restart(n) ==
    /\ \E s \in {setting[n], setting[n] + 1} \cap Settings :
          /\ s # setting[n] => MayUse(s)
          /\ setting' = [setting EXCEPT ![n] = s]
    /\ job' = [job EXCEPT ![n] = NoJob]
    /\ counting' = IF counting = n THEN Nobody ELSE counting
    /\ UNCHANGED <<day, hook>>

NextDay ==
    /\ day < MaxDay
    /\ day' = day + 1
    /\ UNCHANGED <<hook, counting, setting, job>>

SubscriptionsNext ==
    \/ \E n \in Nodes :
          \/ Subscribe(n) \/ Sweep(n) \/ PurgeHooks(n) \/ Restart(n)
          \/ \E h \in Hooks : AddHook(n, h)
          \/ \E h \in Hooks, version \in 1 .. MaxVersion : Rewrap(n, h, version)
    \/ \E h \in Hooks : Unsubscribe({h})
    \/ Unsubscribe({h \in Hooks : Active(h)})
    \/ NextDay

SubscriptionsSpec == SubscriptionsInit /\ [][SubscriptionsNext]_subscriptionsVars
----------------------------------------------------------------------------
(* Properties *)

\* However many requests subscribe at once, no more than the limit are active.
SubscriptionsAreLimited == Cardinality({h \in Hooks : Active(h)}) <= MaxActive

\* A subscription that was ended is never active again nor encrypted again, even by a
\* sweep that read it before; and it is kept for its retention.
EndedStaysEnded ==
    [][\A h \in Hooks : Ended(h) =>
          \/ hook'[h] = hook[h]
          \/ hook'[h].state = "purged" /\ hook[h].ended + KeepEnded <= day]_subscriptionsVars

\* While keys are rolled out one setting after the other, with sweeps of both settings
\* running, every process can read every active subscription.
EveryoneCanRead == \A n \in Nodes, h \in Hooks : Active(h) => hook[h].key \in Known(n)
=============================================================================
