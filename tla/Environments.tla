---------------------------- MODULE Environments ----------------------------
(***************************************************************************)
(* Test environments: copies of the reminder schema, each reached with a   *)
(* key of its own, that callers use, clean, rotate, retire and restore and *)
(* that the worker works, retires and drops.                               *)
(*                                                                         *)
(* Every operation names an environment from a read without a lock, then   *)
(* waits for the environment's advisory lock, shared or exclusive, in a    *)
(* transaction of the control pool, and reads the row again under it.  The *)
(* lock and the connection are held until the operation ends.  PostgreSQL  *)
(* serves a lock in the order of arrival, so an operation whose first read *)
(* is old is one that waits behind the operation that makes it so, and     *)
(* that read and the place in the queue are one step here.                 *)
(*                                                                         *)
(* Environments that another service controls are dormant and left out,    *)
(* and so are names, descriptions and refusals that depend on them.  A     *)
(* manager that reads the key is a use that did not succeed.               *)
(***************************************************************************)
EXTENDS Integers, FiniteSets

CONSTANTS
    Ids,          \* ids an environment may get
    Owners,       \* accounts that own environments
    NoOwner,      \* owner of a row that does not exist
    Clients,      \* requests of the API
    Workers,      \* worker processes; each does one thing at a time
    Connections,  \* of the API's control pool
    MaxActive,    \* 5 active environments of an owner
    MaxRetained,  \* 20 environments of an owner, retired ones included
    Idle,         \* 15 days without use retire an environment
    Recovery,     \* 30 days later it is dropped
    MaxTime,      \* bound: the last instant
    MaxKeys,      \* bound: keys issued
    MaxDeaths     \* bound: operations that die half-way

None == -1
NoKey == 0
Processes == Clients \cup Workers

ASSUME EnvironmentsAssumption ==
    /\ Ids # {} /\ NoOwner \notin Owners
    /\ Clients \cap Workers = {}
    /\ {Connections, MaxActive, MaxRetained, Idle, Recovery} \subseteq Nat \ {0}
    /\ {MaxTime, MaxKeys, MaxDeaths} \subseteq Nat

VARIABLES
    clock,   \* PostgreSQL's clock, in units of days
    env,     \* table testing_environments
    issued,  \* the last key that was issued
    inside,  \* the admitted operations whose data the schema still holds
    task,    \* what each process is doing
    ahead,   \* who came before each process to the advisory lock that it holds or waits for
    gone,    \* owners whose account is deleted
    deaths

vars == <<clock, env, issued, inside, task, ahead, gone, deaths>>
----------------------------------------------------------------------------
Admissions == {"use", "clean", "work"}
Changes == {"rotate", "restore", "delete", "retire", "sweep"}

Times == 0 .. MaxTime + Idle + Recovery

\* History: revived says that the last use was of a lease under which the environment lapsed.
Rows == [owner : Owners \cup {NoOwner}, key : 0 .. MaxKeys, used : Times,
         deleted : Times \cup {None}, purge : Times \cup {None}, revived : BOOLEAN]
NoRow == [owner |-> NoOwner, key |-> NoKey, used |-> 0, deleted |-> None, purge |-> None,
          revived |-> FALSE]

Exists(row) == row.owner # NoOwner

Tasks == [pc : {"idle", "queued", "admitted", "waiting", "counted"},
          op : Admissions \cup Changes \cup {"create"},
          id : Ids, key : 0 .. MaxKeys, owner : Owners \cup {NoOwner}]
NoTask == [pc |-> "idle", op |-> "use", id |-> CHOOSE i \in Ids : TRUE, key |-> NoKey,
           owner |-> NoOwner]

\* The variables have their types, and rows obey the table's CHECK constraints: a
\* retired row has a deadline and no key, any other has a key and no deadline.
EnvironmentsTypeOK ==
    /\ clock \in 0 .. MaxTime
    /\ env \in [Ids -> Rows]
    /\ \A i \in Ids : Exists(env[i]) =>
          /\ (env[i].deleted = None) = (env[i].purge = None)
          /\ (env[i].deleted = None) = (env[i].key # NoKey)
    /\ issued \in 0 .. MaxKeys
    /\ inside \in [Ids -> SUBSET Processes]
    /\ task \in [Processes -> Tasks]
    /\ ahead \in [Processes -> SUBSET Processes]
    /\ gone \subseteq Owners
    /\ deaths \in 0 .. MaxDeaths

Init ==
    /\ clock = 0
    /\ env = [i \in Ids |-> NoRow]
    /\ issued = 0
    /\ inside = [i \in Ids |-> {}]
    /\ task = [p \in Processes |-> NoTask]
    /\ ahead = [p \in Processes |-> {}]
    /\ gone = {}
    /\ deaths = 0
----------------------------------------------------------------------------
(* The life of a row *)

\* Inactivity retires an environment whether or not a sweep has noticed.
Lapsed(row) == row.used + Idle <= clock
Active(row) == Exists(row) /\ row.deleted = None /\ ~Lapsed(row)

\* COALESCE(purge_after, last_activity_at + 45 days)
Deadline(row) == IF row.purge # None THEN row.purge ELSE row.used + Idle + Recovery
Expired(row) == Exists(row) /\ Deadline(row) <= clock
Recoverable(row) == Exists(row) /\ Deadline(row) > clock

\* logical_lifecycle: what guarded_get shows as retired.
Retired(row) == row.deleted # None \/ Lapsed(row)

Opened(row, owner) ==
    [owner |-> owner, key |-> issued + 1, used |-> clock, deleted |-> None, purge |-> None,
     revived |-> FALSE]

RetiredAt(row) == IF Lapsed(row) THEN row.used + Idle ELSE clock

\* Mutant of Retirement: the key stays.
RetirementKeepsKey(row) ==
    IF ~Exists(row) \/ row.deleted # None THEN row
    ELSE [row EXCEPT !.deleted = RetiredAt(row), !.purge = RetiredAt(row) + Recovery]

\* An UPDATE of rows that are not deleted yet.
Retirement(row) ==
    IF ~Exists(row) \/ row.deleted # None THEN row
    ELSE [row EXCEPT !.key = NoKey, !.deleted = RetiredAt(row),
                     !.purge = RetiredAt(row) + Recovery]

\* The UPDATE looks at deleted_at only: it revives an environment that lapsed meanwhile.
Touched(row) ==
    IF Exists(row) /\ row.deleted = None
    THEN [row EXCEPT !.used = clock, !.revived = @ \/ Lapsed(row)] ELSE row

RowsOf(o) == {i \in Ids : env[i].owner = o}
ActiveOf(o) == {i \in RowsOf(o) : Active(env[i])}
----------------------------------------------------------------------------
(* The lock of an environment and the connections *)

\* Mutant of Exclusive: retiring takes the lock as a reader does.
ExclusiveButRetire(op) == op \in {"clean", "rotate", "restore", "delete", "sweep"}

Exclusive(op) == op \in {"clean", "rotate", "restore", "delete", "retire", "sweep"}

\* Who holds the lock of i or waits for it.
Present(i) == {q \in Processes : task[q].pc # "idle" /\ task[q].id = i}

\* p holds the lock when nobody who came before it is in conflict with it.
Granted(p) ==
    /\ task[p].pc = "queued"
    /\ \A q \in ahead[p] : ~Exclusive(task[p].op) /\ ~Exclusive(task[q].op)

Connected == {p \in Clients : task[p].pc # "idle"}

\* The worker has a pool of its own, larger than its one task at a time needs.
CanConnect(p) == p \in Workers \/ Cardinality(Connected) < Connections

Become(p, t) == task' = [task EXCEPT ![p] = t]

\* The transaction of p ends, and its lock and connection are free.
End(p) ==
    /\ Become(p, NoTask)
    /\ ahead' = [q \in Processes |-> IF q = p THEN {} ELSE ahead[q] \ {p}]

\* The row of the environment of p becomes `row`, and its transaction commits.
EndWith(p, row) ==
    /\ env' = [env EXCEPT ![task[p].id] = row]
    /\ End(p)
----------------------------------------------------------------------------
(* Naming an environment and waiting for its lock *)

Start(p, op, i, k) ==
    /\ task[p].pc = "idle"
    /\ CanConnect(p)
    /\ Become(p, [NoTask EXCEPT !.pc = "queued", !.op = op, !.id = i, !.key = k])
    /\ ahead' = [ahead EXCEPT ![p] = Present(i)]
    /\ UNCHANGED <<clock, env, issued, inside, gone, deaths>>

\* A request with a key: the key is looked up before the lock is taken.
Enter(p, op, i) ==
    /\ p \in Clients
    /\ env[i].key # NoKey
    /\ Start(p, op, i, env[i].key)

\* Bounds the keys: operations that may issue one start while there is one left.
Issuing == {"create", "rotate", "restore"}
KeyLeft == issued + Cardinality({p \in Processes : task[p].pc # "idle" /\ task[p].op \in Issuing})
             < MaxKeys

\* A manager of the owner names the environment; its access was resolved before.
Manage(p, op, i) ==
    /\ p \in Clients
    /\ Exists(env[i]) /\ env[i].owner \notin gone
    /\ op \in Issuing => KeyLeft
    /\ Start(p, op, i, NoKey)

\* Mutant of StartRetire: environments that have lapsed are not looked for.
StartRetireActive(p, i) ==
    /\ env[i].owner \in gone /\ Active(env[i])
    /\ Start(p, "retire", i, NoKey)

\* The webhook of Silicon Accounts and the worker's sweep of deleted accounts.
StartRetire(p, i) ==
    /\ env[i].owner \in gone /\ env[i].deleted = None
    /\ Start(p, "retire", i, NoKey)

\* active_ids, then the environment is entered.  The hint before that takes the lock in a
\* transaction of its own and changes nothing: it is an admission that is refused.
StartWork(p, i) == p \in Workers /\ Active(env[i]) /\ Start(p, "work", i, NoKey)

StartSweep(p, i) ==
    /\ p \in Workers
    /\ Exists(env[i])
    /\ \/ env[i].deleted = None /\ Lapsed(env[i])
       \/ env[i].purge # None /\ env[i].purge <= clock
    /\ Start(p, "sweep", i, NoKey)
----------------------------------------------------------------------------
(* Admissions *)

\* Mutant of Admissible: the key is not compared again under the lock.
AdmissibleById(p) == Active(env[task[p].id])

\* The row as read under the lock.
Admissible(p) ==
    LET row == env[task[p].id]
    IN  Active(row) /\ (task[p].op \in {"use", "clean"} => row.key = task[p].key)

Admit(p) ==
    /\ Granted(p)
    /\ task[p].op \in Admissions
    /\ Admissible(p)
    /\ Become(p, [task[p] EXCEPT !.pc = "admitted"])
    /\ inside' = [inside EXCEPT ![task[p].id] = @ \cup {p}]
    /\ UNCHANGED <<clock, env, issued, ahead, gone, deaths>>

Refuse(p) ==
    /\ Granted(p)
    /\ task[p].op \in Admissions
    /\ ~Admissible(p) \/ task[p].op = "work"
    /\ End(p)
    /\ UNCHANGED <<clock, env, issued, inside, gone, deaths>>

\* Mutant of MayFinish: the use is recorded on another connection of the pool.
MayFinishOnPool(p) == task[p].pc = "admitted" /\ CanConnect(p)

\* The lease's own transaction records the use and ends.
MayFinish(p) == task[p].pc = "admitted"

\* A lease ends: a clean empties the schema, a successful request counts as use.
Finish(p) ==
    LET i == task[p].id
    IN  /\ MayFinish(p)
        /\ inside' = [inside EXCEPT ![i] = IF task[p].op = "clean" THEN {} ELSE @ \ {p}]
        /\ \/ task[p].op # "work" /\ EndWith(p, Touched(env[i]))
           \/ task[p].op # "clean" /\ EndWith(p, env[i])
        /\ UNCHANGED <<clock, issued, gone, deaths>>
----------------------------------------------------------------------------
(* Lifecycle changes, under the lock *)

\* The row's state does not allow the change.
EndUnchanged(p) ==
    LET row == env[task[p].id]
    IN  /\ Granted(p)
        /\ \/ task[p].op = "rotate" /\ (~Recoverable(row) \/ Retired(row))
           \/ task[p].op = "restore" /\ (~Recoverable(row) \/ ~Retired(row))
           \/ task[p].op = "delete" /\ ~Recoverable(row)
        /\ End(p)
        /\ UNCHANGED <<clock, env, issued, inside, gone, deaths>>

Rotate(p) ==
    LET row == env[task[p].id]
    IN  /\ Granted(p) /\ task[p].op = "rotate"
        /\ Recoverable(row) /\ ~Retired(row)
        /\ issued' = issued + 1
        /\ EndWith(p, [Opened(row, row.owner) EXCEPT !.revived = row.revived])
        /\ UNCHANGED <<clock, inside, gone, deaths>>

\* A deletion by a manager, or of everything a deleted account owned.
Retire(p) ==
    LET row == env[task[p].id]
    IN  /\ Granted(p)
        /\ \/ task[p].op = "delete" /\ Recoverable(row)
           \/ task[p].op = "retire"
        /\ EndWith(p, Retirement(row))
        /\ UNCHANGED <<clock, issued, inside, gone, deaths>>

\* Mutant of Purgeable: what the unlocked read saw is believed.
PurgeableUnread(row) == Exists(row)

Purgeable(row) == Expired(row)

Sweep(p) ==
    LET i == task[p].id
        row == env[i]
    IN  /\ Granted(p) /\ task[p].op = "sweep"
        /\ IF Purgeable(row)
           THEN EndWith(p, NoRow) /\ inside' = [inside EXCEPT ![i] = {}]
           ELSE EndWith(p, IF Lapsed(row) THEN Retirement(row) ELSE row) /\ UNCHANGED inside
        /\ UNCHANGED <<clock, issued, gone, deaths>>
----------------------------------------------------------------------------
(* Capacity: counted under the owner's lock, which is held until the commit *)

\* Mutant of MayCount: no lock on the owner.
MayCountAlways(o) == TRUE

MayCount(o) == \A q \in Processes : task[q].pc = "counted" => task[q].owner # o

\* A creation has an id of its own and a connection, and waits for its owner's lock.
StartCreate(p, o, i) ==
    /\ p \in Clients
    /\ task[p].pc = "idle" /\ CanConnect(p)
    /\ o \notin gone /\ KeyLeft
    /\ ~Exists(env[i]) /\ Present(i) = {}
    /\ Become(p, [NoTask EXCEPT !.pc = "waiting", !.op = "create", !.id = i, !.owner = o])
    /\ UNCHANGED <<clock, env, issued, inside, ahead, gone, deaths>>

HasRoom(o) ==
    Cardinality(ActiveOf(o)) < MaxActive /\ Cardinality(RowsOf(o)) < MaxRetained

CountForCreate(p) ==
    LET o == task[p].owner
    IN  /\ task[p].pc = "waiting"
        /\ MayCount(o)
        /\ IF HasRoom(o) THEN Become(p, [task[p] EXCEPT !.pc = "counted"]) /\ UNCHANGED ahead
                         ELSE End(p)
        /\ UNCHANGED <<clock, env, issued, inside, gone, deaths>>

CountForRestore(p) ==
    LET row == env[task[p].id]
    IN  /\ Granted(p) /\ task[p].op = "restore"
        /\ Recoverable(row) /\ Retired(row)
        /\ MayCount(row.owner)
        /\ IF Cardinality(ActiveOf(row.owner)) < MaxActive
           THEN /\ Become(p, [task[p] EXCEPT !.pc = "counted", !.owner = row.owner])
                /\ UNCHANGED ahead
           ELSE End(p)
        /\ UNCHANGED <<clock, env, issued, inside, gone, deaths>>

\* The schema and its row are published together; a restoration issues a new key.
Open(p) ==
    /\ task[p].pc = "counted"
    /\ issued' = issued + 1
    /\ EndWith(p, Opened(env[task[p].id], task[p].owner))
    /\ UNCHANGED <<clock, inside, gone, deaths>>
----------------------------------------------------------------------------
\* The process dies, a statement fails, or a wait ends at its limit: rolled back.
Die(p) ==
    /\ task[p].pc # "idle"
    /\ deaths < MaxDeaths
    /\ deaths' = deaths + 1
    /\ End(p)
    /\ inside' = [inside EXCEPT ![task[p].id] = @ \ {p}]
    /\ UNCHANGED <<clock, env, issued, gone>>

Tick ==
    /\ clock < MaxTime
    /\ clock' = clock + 1
    /\ UNCHANGED <<env, issued, inside, task, ahead, gone, deaths>>

OwnerDeleted(o) ==
    /\ o \notin gone
    /\ gone' = gone \cup {o}
    /\ UNCHANGED <<clock, env, issued, inside, task, ahead, deaths>>

Change(p) ==
    \/ EndUnchanged(p) \/ Rotate(p) \/ Retire(p) \/ Sweep(p)
    \/ CountForCreate(p) \/ CountForRestore(p) \/ Open(p)

Proceed(p) == Admit(p) \/ Refuse(p) \/ Finish(p) \/ Change(p)

Arrive(p) ==
    \E i \in Ids :
        \/ \E op \in {"use", "clean"} : Enter(p, op, i)
        \/ \E op \in {"rotate", "restore", "delete"} : Manage(p, op, i)
        \/ StartRetire(p, i) \/ StartWork(p, i) \/ StartSweep(p, i)
        \/ \E o \in Owners : StartCreate(p, o, i)

Next ==
    \/ \E p \in Processes : Arrive(p) \/ Proceed(p) \/ Die(p)
    \/ \E o \in Owners : OwnerDeleted(o)
    \/ Tick

\* Requests end at their timeout, locks are handed out in order of arrival, and the
\* worker's loop comes back to every timer and to every environment.
Fairness ==
    /\ \A p \in Processes : WF_vars(Proceed(p))
    /\ \A i \in Ids : SF_vars(\E p \in Workers : StartRetire(p, i))

Spec == Init /\ [][Next]_vars /\ Fairness
----------------------------------------------------------------------------
(* Properties *)

\* "A clean or deletion never races a delivery that was already admitted": under a
\* lease the environment is there, not retired, under the key that opened it, and
\* nothing the holder sees has been cleaned or dropped.
LeaseFences ==
    \A p \in Processes : task[p].pc = "admitted" =>
        LET row == env[task[p].id]
        IN  /\ Exists(row) /\ row.deleted = None
            /\ task[p].op \in {"use", "clean"} => row.key = task[p].key
            /\ p \in inside[task[p].id]

\* Concurrent creations and restorations do not pass an owner's limit between them,
\* whatever lapses, rotations, uses and deaths come in between.  Environments that a lease
\* revived are not counted here, as their lease counted nothing: with them an owner may
\* have more than the limit.
ActiveIsBounded ==
    \A o \in Owners : Cardinality({i \in ActiveOf(o) : ~env[i].revived}) <= MaxActive

\* What can still be recovered is never dropped: a row goes only past its deadline.
RecoverableIsKept ==
    [][\A i \in Ids : Exists(env[i]) /\ ~Exists(env'[i]) => Expired(env[i])]_vars

\* No standstill: while operations are under way one of them can go on, whatever holds
\* the locks, the counts and the connections.
SomeoneProceeds ==
    (\E p \in Processes : task[p].pc # "idle") => \E p \in Processes : ENABLED Proceed(p)

\* Environments of a deleted account end for good, though requests admitted before
\* its deletion may still create or restore one.
DeletedOwnersEnd ==
    \A o \in Owners :
        o \in gone ~> [](\A i \in Ids : env[i].owner = o => env[i].deleted # None)
=============================================================================
