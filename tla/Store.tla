------------------------------- MODULE Store -------------------------------
(***************************************************************************)
(* The PostgreSQL tables that the API processes and the worker processes  *)
(* of Silicon Remind share: schedules, executions, accounts and webhook   *)
(* subscriptions, and the row locks an open transaction holds.  The       *)
(* module declares the rows, the SQL predicates more than one statement   *)
(* uses, and the updates more than one handler makes.  A transaction is   *)
(* one step, except the one that materialises occurrences (Worker), which *)
(* holds its row locks over several statements.                           *)
(***************************************************************************)
EXTENDS Integers, FiniteSets

CONSTANTS
    Accounts,    \* Silicon accounts
    Schedules,   \* reminder ids (a UUID is never used twice)
    Receivers,   \* webhook subscriptions
    Workers,     \* worker process starts: each has a worker_id of its own
    NoWorker,    \* lease_owner IS NULL
    Crons,       \* timing definitions: a cron expression in a timezone
    Owner,       \* the account a reminder belongs to
    Subscriber,  \* the account a subscription belongs to
    Fires,       \* the instants each cron expression matches
    MaxTime,     \* bound: the clock stops here
    Retention,   \* the 45 days between archiving and purging
    Lag          \* bound: the age of a clock read when a statement uses it

None == -1                                \* NULL in a timestamp column
Times == 0 .. MaxTime
Instants == UNION {Fires[c] : c \in Crons}
\* An execution is identified by (schedule_id, scheduled_for), which is UNIQUE.
Occurrences == Schedules \X (Instants \cap Times)

\* The cron library finds a first match after every instant the clock shows.
ASSUME StoreAssumption ==
    /\ MaxTime \in Nat
    /\ Retention \in Nat \ {0}
    /\ Lag \in Nat
    /\ NoWorker \notin Workers
    /\ Owner \in [Schedules -> Accounts]
    /\ Subscriber \in [Receivers -> Accounts]
    /\ Crons # {}
    /\ Fires \in [Crons -> SUBSET Nat]
    /\ \A c \in Crons, t \in Times :
          \E x \in Fires[c] : x > t /\ \A y \in Fires[c] : y > t => x <= y

VARIABLES
    clock,    \* wall-clock time, the same for every process
    sched,    \* table schedules
    exec,     \* table executions
    account,  \* accounts.status
    hook,     \* hook_destinations: created_at of an active row, or None
    lock,     \* schedule rows locked by each worker's open transaction
    got       \* the receivers that each occurrence has reached (outside Remind)

storeVars == <<clock, sched, exec, account, hook, lock, got>>
----------------------------------------------------------------------------
Kinds == {"one_time", "recurring"}
ScheduleStatus == {"absent", "active", "paused", "completed", "purged"}
ExecutionStatus == {"absent", "pending", "retrying", "delivered", "failed", "purged"}
AccountStatus == {"active", "access_removed", "deleted"}

ScheduleRows ==
    [status : ScheduleStatus, kind : Kinds, cron : Crons, next : Nat \cup {None},
     version : Nat, deleted : BOOLEAN, purge : Nat \cup {None}]

ExecutionRows ==
    [status : ExecutionStatus, version : Nat, attempts : Nat, next : Nat \cup {None},
     owner : Workers \cup {NoWorker}, expires : Nat \cup {None}]

\* The row that stands for "no row": before INSERT, and for good after DELETE.
NoSchedule(status) ==
    [status |-> status, kind |-> "one_time", cron |-> CHOOSE c \in Crons : TRUE,
     next |-> None, version |-> 0, deleted |-> FALSE, purge |-> None]

NoExecution(status) ==
    [status |-> status, version |-> 0, attempts |-> 0, next |-> None,
     owner |-> NoWorker, expires |-> None]

\* The CHECK constraints of the tables: a statement that breaks one fails.
ScheduleChecks(row) ==
    row.status \in {"active", "paused", "completed"} =>
        /\ row.status = "completed" => row.kind = "one_time" /\ row.next = None
        /\ row.deleted => row.next = None
        /\ row.purge = None <=> row.status # "completed" /\ ~row.deleted

ExecutionChecks(row) ==
    /\ row.status = "retrying" => row.attempts > 0
    /\ row.next = None <=> row.status \notin {"pending", "retrying"}
    /\ row.owner = NoWorker <=> row.expires = None
    /\ row.status \in {"delivered", "failed"} => row.owner = NoWorker

ValidSchedules == {row \in ScheduleRows : ScheduleChecks(row)}
ValidExecutions == {row \in ExecutionRows : ExecutionChecks(row)}

StoreTypeOK ==
    /\ clock \in Times
    /\ sched \in [Schedules -> ValidSchedules]
    /\ exec \in [Occurrences -> ValidExecutions]
    /\ account \in [Accounts -> AccountStatus]
    /\ hook \in [Receivers -> Times \cup {None}]
    /\ lock \in [Workers -> SUBSET Schedules]
    /\ got \in [Occurrences -> SUBSET Receivers]

StoreInit ==
    /\ clock = 0
    /\ sched = [s \in Schedules |-> NoSchedule("absent")]
    /\ exec = [e \in Occurrences |-> NoExecution("absent")]
    /\ account = [a \in Accounts |-> "active"]
    /\ hook \in [Receivers -> {0, None}]
    /\ lock = [w \in Workers |-> {}]
    /\ got = [e \in Occurrences |-> {}]
----------------------------------------------------------------------------
\* Handlers read the clock, then wait for connections, statements and locks:
\* the instants a statement that runs now may have been given.
Stamps == {t \in Times : t <= clock /\ clock - t <= Lag}

\* Mutant of NextAfter: an instant may follow itself.
NextFrom(c, t) ==
    CHOOSE x \in Fires[c] : x >= t /\ \A y \in Fires[c] : y >= t => x <= y

\* The first instant strictly after t that the cron expression matches.
NextAfter(c, t) ==
    CHOOSE x \in Fires[c] : x > t /\ \A y \in Fires[c] : y > t => x <= y

Present(s) == sched[s].status \notin {"absent", "purged"}

OwnerIsLive(s) == account[Owner[s]] = "active"

\* purge_after IS NULL OR purge_after > t
Retained(s, t) == sched[s].purge = None \/ sched[s].purge > t

\* The reminder may still send at t: claim, recheck and result writes ask this.
Deliverable(s, t) ==
    Present(s) /\ ~sched[s].deleted /\ Retained(s, t) /\ OwnerIsLive(s)

Open(e) == exec[e].status \in {"pending", "retrying"}
Closed(e) == exec[e].status \in {"delivered", "failed"}
Exists(e) == Open(e) \/ Closed(e)

OccurrencesOf(s) == {e \in Occurrences : e[1] = s}

\* A terminal status clears next_attempt_at and the lease in the same UPDATE.
Close(row, status) ==
    [row EXCEPT !.status = status, !.next = None, !.owner = NoWorker, !.expires = None]

\* Mutant of FailOpen: an execution that waits for a retry is left waiting.
FailPending(E) ==
    exec' = [e \in Occurrences |-> IF e \in E /\ exec[e].status = "pending"
                                   THEN Close(exec[e], "failed") ELSE exec[e]]

\* Mutant of FailOpen: the UPDATE forgets its filter on status.
FailAll(E) ==
    exec' = [e \in Occurrences |-> IF e \in E /\ Exists(e) THEN Close(exec[e], "failed")
                                                           ELSE exec[e]]

\* Fails the executions of E that no receiver has accepted yet.
FailOpen(E) ==
    exec' = [e \in Occurrences |-> IF e \in E /\ Open(e) THEN Close(exec[e], "failed")
                                                         ELSE exec[e]]

\* deleted_at, next_run_at, version, and purge_after through the row's trigger.
Archived(row, t) ==
    [row EXCEPT !.deleted = TRUE, !.next = None, !.version = @ + 1, !.purge = t + Retention]

\* A row lock makes every other transaction that wants the row wait.
Locked(s) == \E w \in Workers : s \in lock[w]

\* Time passes in every process at once.
Tick ==
    /\ clock < MaxTime
    /\ clock' = clock + 1
    /\ UNCHANGED <<sched, exec, account, hook, lock, got>>
=============================================================================
