------------------------------- MODULE Worker -------------------------------
(***************************************************************************)
(* The worker processes.  Each repeats one cycle: materialise a batch of  *)
(* due reminders into executions (one transaction), claim a batch of      *)
(* executions under a lease, and run one delivery task per claim, waiting *)
(* for all of them.  A task resolves the subscriptions, rechecks its      *)
(* claim, posts to every receiver in turn and writes the outcome.  The    *)
(* process, a task or a database call can fail at any point, and a        *)
(* process start that dies never returns under the same worker_id.        *)
(*                                                                         *)
(* A statement uses an instant that its process read from the clock       *)
(* before it (Stamps), not the time at which it runs.                     *)
(***************************************************************************)
EXTENDS Store

CONSTANTS
    BatchSize,       \* reminders locked by one materialisation
    MaxConcurrency,  \* executions claimed at once
    Lease,           \* lease_duration
    BaseDelay,       \* retry.base_delay
    MaxDelay,        \* retry.max_delay
    JitterPercent,   \* retry.jitter_percent
    MaxAttempts,     \* retry.max_attempts
    MaxFaults        \* bound: failed database calls and panics of single tasks

ASSUME WorkerAssumption ==
    /\ BatchSize \in Nat \ {0}
    /\ MaxConcurrency \in Nat \ {0}
    /\ Lease \in Nat \ {0}
    /\ BaseDelay \in Nat \ {0}
    /\ MaxDelay \in Nat
    /\ BaseDelay <= MaxDelay
    /\ JitterPercent \in 0 .. 100
    /\ MaxAttempts \in Nat \ {0}
    /\ MaxFaults \in Nat

VARIABLES
    pc,     \* where each worker is in its cycle
    now,    \* the instant a materialising worker has read for its batch
    task,   \* its delivery task for each execution it has claimed
    faults  \* failures left

workerVars == <<pc, now, task, faults>>
----------------------------------------------------------------------------
Errors == {"none", "retryable", "terminal"}
TaskSteps == {"none", "claimed", "resolved", "posting", "delivering", "failing"}

Tasks ==
    [pc : TaskSteps, attempt : Nat, expires : Nat, todo : SUBSET Receivers, error : Errors]

NoTask ==
    [pc |-> "none", attempt |-> 0, expires |-> 0, todo |-> {}, error |-> "none"]

WorkerTypeOK ==
    /\ pc \in [Workers -> {"idle", "materialising", "claiming", "draining", "dead"}]
    /\ now \in [Workers -> Times]
    /\ task \in [Workers -> [Occurrences -> Tasks]]
    /\ faults \in 0 .. MaxFaults

WorkerInit ==
    /\ pc = [w \in Workers |-> "idle"]
    /\ now = [w \in Workers |-> 0]
    /\ task = [w \in Workers |-> [e \in Occurrences |-> NoTask]]
    /\ faults = MaxFaults

\* w moves from one step of its cycle to another.
Goto(w, from, to) ==
    /\ pc[w] = from
    /\ pc' = [pc EXCEPT ![w] = to]

InHand(w, e) == task[w][e].pc # "none"
----------------------------------------------------------------------------
(* Materialisation *)

\* The reminders a batch may take: active, due, of a live owner.
Due(s, t) ==
    /\ sched[s].status = "active"
    /\ ~sched[s].deleted
    /\ sched[s].next # None
    /\ sched[s].next <= t
    /\ OwnerIsLive(s)

\* S holds the first `limit` elements of Q in the order of `when`.
FirstOf(S, Q, limit, when(_)) ==
    /\ S \subseteq Q
    /\ Cardinality(S) <= limit
    /\ S # Q => Cardinality(S) = limit
    /\ \A x \in S, y \in Q \ S : when(x) <= when(y)

\* SELECT ... FOR UPDATE SKIP LOCKED LIMIT: rows that other transactions hold
\* for a moment (busy) are skipped.
LockDue(w, busy, t) ==
    LET due == {s \in Schedules : Due(s, t) /\ ~Locked(s)} \ busy
    IN  /\ t \in Stamps
        /\ \E S \in SUBSET due :
              /\ FirstOf(S, due, BatchSize, LAMBDA s : sched[s].next)
              /\ lock' = [lock EXCEPT ![w] = S]
        /\ Goto(w, "idle", "materialising")
        /\ now' = [now EXCEPT ![w] = t]
        /\ UNCHANGED <<clock, sched, exec, account, hook, got, task, faults>>

Occurrence(s) == <<s, sched[s].next>>

\* The occurrence exists already, from another version of the reminder.
Conflict(s) ==
    /\ Exists(Occurrence(s))
    /\ exec[Occurrence(s)].version # sched[s].version + 1

\* Mutant of Advanced: the version stays, so an edit read before it still commits.
AdvancedSilently(row, t) ==
    IF row.kind = "one_time"
    THEN [row EXCEPT !.status = "completed", !.next = None, !.purge = t + Retention]
    ELSE [row EXCEPT !.next = NextAfter(row.cron, t)]

\* The reminder after its occurrence: a one-time one is archived, a recurring
\* one moves to its first instant after the worker's now (missed ones coalesce).
Advanced(row, t) ==
    IF row.kind = "one_time"
    THEN [row EXCEPT !.status = "completed", !.next = None, !.version = @ + 1,
                     !.purge = t + Retention]
    ELSE [row EXCEPT !.next = NextAfter(row.cron, t), !.version = @ + 1]

\* A new occurrence is pending, to be attempted at once.
NewExecution(version, t) ==
    [status |-> "pending", version |-> version, attempts |-> 0, next |-> t,
     owner |-> NoWorker, expires |-> None]

\* INSERT ... ON CONFLICT DO NOTHING for every locked row, then COMMIT.
CommitBatch(w) ==
    /\ \A s \in lock[w] : ~Conflict(s)
    /\ exec' = [e \in Occurrences |->
          IF \E s \in lock[w] : e = Occurrence(s) /\ ~Exists(e)
          THEN NewExecution(sched[e[1]].version + 1, now[w]) ELSE exec[e]]
    /\ sched' = [s \in Schedules |->
          IF s \in lock[w] THEN Advanced(sched[s], now[w]) ELSE sched[s]]
    /\ lock' = [lock EXCEPT ![w] = {}]
    /\ now' = [now EXCEPT ![w] = 0]
    /\ Goto(w, "materialising", "claiming")
    /\ UNCHANGED <<clock, account, hook, got, task, faults>>

\* One occurrence that conflicts rolls the whole batch back.
AbortBatch(w) ==
    /\ \E s \in lock[w] : Conflict(s)
    /\ lock' = [lock EXCEPT ![w] = {}]
    /\ now' = [now EXCEPT ![w] = 0]
    /\ Goto(w, "materialising", "claiming")
    /\ UNCHANGED <<clock, sched, exec, account, hook, got, task, faults>>
----------------------------------------------------------------------------
(* Claims *)

\* Mutant of Claimable: an unexpired lease does not protect its owner.
ClaimableUnderLease(e, t) ==
    Open(e) /\ exec[e].next <= t /\ Deliverable(e[1], t)

\* Mutant of Claimable: what a dead worker left under lease is never claimed again.
ClaimableUnleased(e, t) ==
    Open(e) /\ exec[e].next <= t /\ exec[e].expires = None /\ Deliverable(e[1], t)

Claimable(e, t) ==
    /\ Open(e)
    /\ exec[e].next <= t
    /\ exec[e].expires = None \/ exec[e].expires <= t
    /\ Deliverable(e[1], t)

ClaimedRow(row, w, t) ==
    [row EXCEPT !.status = IF row.attempts = 0 THEN "pending" ELSE "retrying",
                !.attempts = @ + 1, !.owner = w, !.expires = t + Lease]

ClaimTask(e, t) ==
    [NoTask EXCEPT !.pc = "claimed", !.attempt = exec[e].attempts + 1, !.expires = t + Lease]

Claim(w, busy, t) ==
    LET ready == {e \in Occurrences : Claimable(e, t)} \ busy
    IN  /\ t \in Stamps
        /\ \E E \in SUBSET ready :
              /\ FirstOf(E, ready, MaxConcurrency, LAMBDA e : exec[e].next)
              /\ exec' = [e \in Occurrences |->
                             IF e \in E THEN ClaimedRow(exec[e], w, t) ELSE exec[e]]
              /\ task' = [task EXCEPT ![w] =
                    [e \in Occurrences |-> IF e \in E THEN ClaimTask(e, t) ELSE NoTask]]
        /\ Goto(w, "claiming", "draining")
        /\ UNCHANGED <<clock, sched, account, hook, lock, got, now, faults>>

\* Every task of the batch has ended: the cycle is over.
Drained(w) ==
    /\ \A e \in Occurrences : ~InHand(w, e)
    /\ Goto(w, "draining", "idle")
    /\ UNCHANGED <<storeVars, now, task, faults>>
----------------------------------------------------------------------------
(* Delivery tasks *)

TaskStep(w, e, from, new) ==
    /\ task[w][e].pc = from
    /\ task' = [task EXCEPT ![w][e] = new]
    /\ UNCHANGED <<pc, now, faults>>

Failing(w, e, error) == [task[w][e] EXCEPT !.pc = "failing", !.error = error]

\* The subscriptions a task will post to.
Subscriptions(s) == {r \in Receivers : hook[r] # None /\ Subscriber[r] = Owner[s]}

\* Reads the owner's subscriptions and checks that the owner is still active.
Resolve(w, e) ==
    /\ Present(e[1])
    /\ OwnerIsLive(e[1])
    /\ TaskStep(w, e, "claimed",
          [task[w][e] EXCEPT !.pc = "resolved", !.todo = Subscriptions(e[1])])
    /\ UNCHANGED storeVars

\* The reminder is gone or something cannot be read now (retryable), or the
\* owner is not active or a stored URL is unusable (terminal).
ResolveFails(w, e, error) ==
    /\ error = "terminal" => Present(e[1])
    /\ TaskStep(w, e, "claimed", Failing(w, e, error))
    /\ UNCHANGED storeVars

\* The claim is still this worker's, unexpired at t, and the reminder may send.
HoldsLease(w, e, t) ==
    /\ Open(e)
    /\ exec[e].owner = w
    /\ exec[e].expires > t
    /\ Deliverable(e[1], t)

\* The last check before the first request; a task that fails it ends silently.
Recheck(w, e, t) ==
    /\ t \in Stamps
    /\ TaskStep(w, e, "resolved",
          IF ~HoldsLease(w, e, t) THEN NoTask
          ELSE [task[w][e] EXCEPT !.pc = IF task[w][e].todo = {} THEN "delivering"
                                                                 ELSE "posting"])
    /\ UNCHANGED storeVars

\* What a request can come to: whether the receiver got it, and what Remind sees.
Answers == {[got |-> TRUE,  error |-> "none"],        \* 2xx
            [got |-> TRUE,  error |-> "retryable"],   \* the answer is lost or 5xx
            [got |-> FALSE, error |-> "retryable"],   \* unreachable
            [got |-> FALSE, error |-> "terminal"]}    \* refused: other 3xx/4xx

\* Mutant of FirstError: the last answer decides.
LastError(old, new) == new

FirstError(old, new) == IF old = "none" THEN new ELSE old

\* One POST; the batch goes on to the next receiver whatever the answer is.
Post(w, e, r, answer) ==
    LET old   == task[w][e]
        error == FirstError(old.error, answer.error)
        left  == old.todo \ {r}
    IN  /\ r \in old.todo
        /\ TaskStep(w, e, "posting",
              [old EXCEPT !.todo = left, !.error = error,
                          !.pc = IF left # {} THEN "posting"
                                 ELSE IF error = "none" THEN "delivering" ELSE "failing"])
        /\ got' = IF answer.got THEN [got EXCEPT ![e] = @ \cup {r}] ELSE got
        /\ UNCHANGED <<clock, sched, exec, account, hook, lock>>

\* A result is written under the schedule's row lock and only under the lease.
WriteResult(w, e, t, from, row) ==
    /\ t \in Stamps
    /\ ~Locked(e[1])
    /\ exec' = IF HoldsLease(w, e, t) THEN [exec EXCEPT ![e] = row] ELSE exec
    /\ TaskStep(w, e, from, NoTask)
    /\ UNCHANGED <<clock, sched, account, hook, lock, got>>

MarkDelivered(w, e, t) ==
    WriteResult(w, e, t, "delivering", Close(exec[e], "delivered"))

\* Mutant of MayRetry: one attempt too many.
MayRetryOnceMore(error, attempt) == error = "retryable" /\ attempt <= MaxAttempts

MayRetry(error, attempt) == error = "retryable" /\ attempt < MaxAttempts

Least(x, y) == IF x < y THEN x ELSE y

\* The delay doubles with every attempt, up to the cap.
Backoff(attempt) ==
    LET exponent == IF attempt = 0 THEN 0 ELSE Least(attempt - 1, 31)
    IN  Least(BaseDelay * 2^exponent, MaxDelay)

\* Mutant of RetryDelays: the cap is forgotten once the jitter is added.
RetryDelaysUncapped(attempt) ==
    LET window == (Backoff(attempt) * JitterPercent) \div 100
    IN  {Backoff(attempt) + jitter : jitter \in 0 .. window}

\* The delays retry_delay can return: the jitter is a hash of the execution and
\* the attempt, modulo a window of JitterPercent, and the cap holds for the sum.
RetryDelays(attempt) ==
    LET window == (Backoff(attempt) * JitterPercent) \div 100
    IN  {Least(Backoff(attempt) + jitter, MaxDelay) : jitter \in 0 .. window}

MarkRetrying(w, e, t, delay) ==
    /\ MayRetry(task[w][e].error, task[w][e].attempt)
    /\ WriteResult(w, e, t, "failing",
          [exec[e] EXCEPT !.status = "retrying", !.next = t + delay,
                          !.owner = NoWorker, !.expires = None])

MarkFailed(w, e, t) ==
    /\ ~MayRetry(task[w][e].error, task[w][e].attempt)
    /\ WriteResult(w, e, t, "failing", Close(exec[e], "failed"))
----------------------------------------------------------------------------
(* Failures and maintenance *)

\* A database call of a task fails, or the task panics: its lease stays.
TaskDies(w, e) ==
    /\ InHand(w, e)
    /\ faults > 0
    /\ faults' = faults - 1
    /\ task' = [task EXCEPT ![w][e] = NoTask]
    /\ UNCHANGED <<storeVars, pc, now>>

\* The process dies: its open transaction rolls back, its leases stay.  (Some
\* other process start is running; the supervisor sees to that.)
Crash(w) ==
    /\ pc[w] # "dead"
    /\ \E v \in Workers \ {w} : pc[v] # "dead"
    /\ pc' = [pc EXCEPT ![w] = "dead"]
    /\ now' = [now EXCEPT ![w] = 0]
    /\ lock' = [lock EXCEPT ![w] = {}]
    /\ task' = [task EXCEPT ![w] = [e \in Occurrences |-> NoTask]]
    /\ UNCHANGED <<clock, sched, exec, account, hook, got, faults>>

\* The retention sweep, between two cycles: archived reminders past their
\* deadline go, and their executions with them (ON DELETE CASCADE).
Purge(w, S, t) ==
    /\ pc[w] = "idle"
    /\ t \in Stamps
    /\ S # {}
    /\ \A s \in S : sched[s].purge # None /\ sched[s].purge <= t /\ ~Locked(s)
    /\ sched' = [s \in Schedules |-> IF s \in S THEN NoSchedule("purged") ELSE sched[s]]
    /\ exec' = [e \in Occurrences |->
          IF e[1] \in S /\ Exists(e) THEN NoExecution("purged") ELSE exec[e]]
    /\ UNCHANGED <<clock, account, hook, lock, got, pc, now, task, faults>>
----------------------------------------------------------------------------
DeliveryStep(w, e) ==
    \/ Resolve(w, e)
    \/ \E error \in Errors \ {"none"} : ResolveFails(w, e, error)
    \/ \E t \in Times : Recheck(w, e, t)
    \/ \E r \in Receivers, answer \in Answers : Post(w, e, r, answer)
    \/ \E t \in Times : MarkDelivered(w, e, t)
    \/ \E t \in Times, delay \in RetryDelays(task[w][e].attempt) : MarkRetrying(w, e, t, delay)
    \/ \E t \in Times : MarkFailed(w, e, t)

WorkerStep(w) ==
    \/ \E busy \in SUBSET Schedules, t \in Times : LockDue(w, busy, t)
    \/ CommitBatch(w)
    \/ AbortBatch(w)
    \/ \E busy \in SUBSET Occurrences, t \in Times : Claim(w, busy, t)
    \/ Drained(w)
    \/ \E S \in SUBSET Schedules, t \in Times : Purge(w, S, t)
    \/ \E e \in Occurrences : DeliveryStep(w, e)

WorkerNext ==
    \E w \in Workers :
        WorkerStep(w) \/ Crash(w) \/ \E e \in Occurrences : TaskDies(w, e)
=============================================================================
