---------------------------- MODULE RemindProofs ----------------------------
(***************************************************************************)
(* Theorems about Remind for every value of the constants: types, what     *)
(* transactions know of the rows they have locked, the ways a row of each  *)
(* table can change in one step, and the safety of reminders and           *)
(* occurrences that follows.                                               *)
(***************************************************************************)
EXTENDS Remind, FiniteSetTheorems, TLAPS

\* What an open transaction knows of the rows it has locked.
LocksHold ==
    \A w \in Workers : \A s \in lock[w] :
        /\ sched[s].status = "active"
        /\ ~sched[s].deleted
        /\ sched[s].next # None
        /\ sched[s].next <= now[w]

\* No row is locked by two transactions.
LocksExclude ==
    \A v, w \in Workers : v # w => lock[v] \cap lock[w] = {}

\* Only a claim sets a lease, and a claim counts an attempt.
LeasesCount ==
    \A e \in Occurrences : exec[e].owner # NoWorker => exec[e].attempts > 0

\* The inductive invariant under the type invariant.
RowInv == TypeOK /\ LocksHold /\ LocksExclude /\ LeasesCount
----------------------------------------------------------------------------
(* The retry delay *)

\* The multiplier of the n-th doubling: the subsets of a set of n elements.
LEMMA Doubling ==
    ASSUME NEW n \in Nat
    PROVE  2^n \in Nat /\ 2^n >= 1
<1>1. IsFiniteSet(1 .. n) /\ Cardinality(1 .. n) = n
  BY FS_Interval
<1>2. IsFiniteSet(SUBSET (1 .. n)) /\ Cardinality(SUBSET (1 .. n)) = 2^n
  BY <1>1, FS_SUBSET
<1> DEFINE S == SUBSET (1 .. n)
<1>3. S # {}
  OBVIOUS
<1>4. IsFiniteSet(S) /\ Cardinality(S) = 2^n
  BY <1>2
<1> HIDE DEF S
<1>5. Cardinality(S) \in Nat /\ Cardinality(S) # 0
  BY <1>3, <1>4, FS_CardinalityType, FS_EmptySet
<1> QED BY <1>4, <1>5

\* More doublings, a larger multiplier.
LEMMA DoublingGrows ==
    ASSUME NEW m \in Nat, NEW n \in Nat, m <= n
    PROVE  2^m <= 2^n
<1>1. /\ IsFiniteSet(1 .. n) /\ Cardinality(1 .. n) = n
      /\ IsFiniteSet(1 .. m) /\ Cardinality(1 .. m) = m
  BY FS_Interval
<1>2. /\ IsFiniteSet(SUBSET (1 .. n)) /\ Cardinality(SUBSET (1 .. n)) = 2^n
      /\ Cardinality(SUBSET (1 .. m)) = 2^m
  BY <1>1, FS_SUBSET
<1>3. SUBSET (1 .. m) \in SUBSET (SUBSET (1 .. n))
  <2>1. 1 .. m \subseteq 1 .. n
    OBVIOUS
  <2> QED BY <2>1
<1> QED BY <1>2, <1>3, FS_Subset

\* A larger multiplier, a larger product.
LEMMA ProductGrows ==
    ASSUME NEW b \in Nat, NEW p \in Nat, NEW q \in Nat, p <= q
    PROVE  b * p <= b * q
OBVIOUS

\* A multiple of the base delay is at least the base delay.
LEMMA Multiples ==
    ASSUME NEW b \in Nat \ {0}, NEW p \in Nat, p >= 1
    PROVE  b * p \in Nat /\ b * p >= b
OBVIOUS

\* The delay before the jitter is within the configured bounds.
LEMMA BackoffFits ==
    ASSUME NEW attempt \in Nat
    PROVE  Backoff(attempt) \in BaseDelay .. MaxDelay
<1> DEFINE exponent == IF attempt = 0 THEN 0 ELSE Least(attempt - 1, 31)
<1>1. exponent \in Nat
  BY DEF Least
<1>2. Backoff(attempt) = Least(BaseDelay * 2^exponent, MaxDelay)
  BY DEF Backoff
<1> HIDE DEF exponent
<1>3. 2^exponent \in Nat /\ 2^exponent >= 1
  BY <1>1, Doubling
<1>4. BaseDelay * 2^exponent \in Nat /\ BaseDelay * 2^exponent >= BaseDelay
  BY <1>3, Multiples, WorkerAssumption
<1> QED BY <1>2, <1>4, WorkerAssumption DEF Least

\* Whatever the attempt and the jitter, a retry waits at least the base delay,
\* so it is never due when it is written, and at most the cap.
THEOREM DelaysFit ==
    ASSUME NEW attempt \in Nat
    PROVE  RetryDelays(attempt) # {} /\ RetryDelays(attempt) \subseteq BaseDelay .. MaxDelay
<1> DEFINE window == (Backoff(attempt) * JitterPercent) \div 100
<1>1. Backoff(attempt) \in BaseDelay .. MaxDelay
  BY BackoffFits
<1>2. Backoff(attempt) \in Nat /\ BaseDelay \in Nat /\ MaxDelay \in Nat /\ JitterPercent \in Nat
  BY <1>1, WorkerAssumption
<1>3. Backoff(attempt) * JitterPercent \in Nat
  BY <1>2
<1>4. window \in Nat
  BY <1>3
<1>5. RetryDelays(attempt) =
        {Least(Backoff(attempt) + jitter, MaxDelay) : jitter \in 0 .. window}
  BY DEF RetryDelays
<1> HIDE DEF window
<1>6. 0 \in 0 .. window
  BY <1>4
<1>7. ASSUME NEW jitter \in 0 .. window
      PROVE  Least(Backoff(attempt) + jitter, MaxDelay) \in BaseDelay .. MaxDelay
  BY <1>1, <1>2, <1>4 DEF Least
<1> QED BY <1>5, <1>6, <1>7

\* A later attempt never waits less before its jitter than an earlier one.
THEOREM DelaysGrow ==
    ASSUME NEW attempt \in Nat
    PROVE  Backoff(attempt) <= Backoff(attempt + 1)
<1> DEFINE exponent(a) == IF a = 0 THEN 0 ELSE Least(a - 1, 31)
<1>1. /\ exponent(attempt) \in Nat /\ exponent(attempt + 1) \in Nat
      /\ exponent(attempt) <= exponent(attempt + 1)
  BY DEF Least
<1>2. /\ Backoff(attempt) = Least(BaseDelay * 2^exponent(attempt), MaxDelay)
      /\ Backoff(attempt + 1) = Least(BaseDelay * 2^exponent(attempt + 1), MaxDelay)
  BY DEF Backoff
<1> HIDE DEF exponent
<1>3. 2^exponent(attempt) <= 2^exponent(attempt + 1)
  BY <1>1, DoublingGrows
<1>4. /\ 2^exponent(attempt) \in Nat /\ 2^exponent(attempt + 1) \in Nat
  BY <1>1, Doubling
<1>5. BaseDelay * 2^exponent(attempt) <= BaseDelay * 2^exponent(attempt + 1)
  BY <1>3, <1>4, ProductGrows, WorkerAssumption
<1>6. BaseDelay * 2^exponent(attempt) \in Nat /\ BaseDelay * 2^exponent(attempt + 1) \in Nat
  BY <1>4, WorkerAssumption
<1> QED BY <1>2, <1>5, <1>6, WorkerAssumption DEF Least
----------------------------------------------------------------------------
\* The first match after an instant exists, is later and is a match.
LEMMA NextAfterIsLater ==
    ASSUME NEW c \in Crons, NEW t \in Times
    PROVE  /\ NextAfter(c, t) \in Nat
           /\ NextAfter(c, t) \in Fires[c]
           /\ NextAfter(c, t) > t
<1>1. \E x \in Fires[c] : x > t /\ \A y \in Fires[c] : y > t => x <= y
  BY StoreAssumption
<1>2. NextAfter(c, t) \in Fires[c] /\ NextAfter(c, t) > t
  BY <1>1 DEF NextAfter
<1>3. Fires[c] \subseteq Nat
  BY StoreAssumption
<1> QED BY <1>2, <1>3

LEMMA TimesAreNat == Times \subseteq Nat /\ None \notin Nat
BY StoreAssumption DEF Times, None

LEMMA StampsAreTimes == Stamps \subseteq Times
BY DEF Stamps

LEMMA InitRowInv == Init => RowInv
<1> SUFFICES ASSUME Init PROVE RowInv
  OBVIOUS
<1> USE DEF Init, StoreInit, ApiInit, WorkerInit
<1>1. NoSchedule("absent") \in ValidSchedules
  <2>1. (CHOOSE c \in Crons : TRUE) \in Crons
    BY StoreAssumption
  <2> QED BY <2>1 DEF NoSchedule, ValidSchedules, ScheduleRows, ScheduleChecks, ScheduleStatus, Kinds
<1>2. NoExecution("absent") \in ValidExecutions
  BY StoreAssumption DEF NoExecution, ValidExecutions, ExecutionRows, ExecutionChecks, ExecutionStatus
<1>3. 0 \in Times
  BY StoreAssumption DEF Times
<1>4. StoreTypeOK
  BY <1>1, <1>2, <1>3 DEF StoreTypeOK, AccountStatus
<1>5. ApiTypeOK
  BY DEF ApiTypeOK, NewRequest
<1>6. NoTask \in Tasks
  BY DEF NoTask, Tasks, TaskSteps, Errors
<1>7. WorkerTypeOK
  BY <1>3, <1>6, WorkerAssumption DEF WorkerTypeOK
<1>8. LocksHold /\ LocksExclude /\ LeasesCount
  BY DEF LocksHold, LocksExclude, LeasesCount, NoExecution
<1> QED BY <1>4, <1>5, <1>7, <1>8 DEF RowInv, TypeOK
----------------------------------------------------------------------------
(* The rows that handlers write are rows of their tables *)

LEMMA PurgedRows ==
    /\ NoSchedule("purged") \in ValidSchedules
    /\ NoExecution("purged") \in ValidExecutions
<1>1. (CHOOSE c \in Crons : TRUE) \in Crons
  BY StoreAssumption
<1>2. NoSchedule("purged") \in ValidSchedules
  BY <1>1 DEF NoSchedule, ValidSchedules, ScheduleRows, ScheduleChecks, ScheduleStatus, Kinds
<1>3. NoExecution("purged") \in ValidExecutions
  BY StoreAssumption DEF NoExecution, ValidExecutions, ExecutionRows, ExecutionChecks, ExecutionStatus
<1> QED BY <1>2, <1>3

\* Closing an execution that has been attempted or not leaves a valid row.
LEMMA CloseIsValid ==
    ASSUME NEW row \in ValidExecutions, NEW status \in {"delivered", "failed"}
    PROVE  Close(row, status) \in ValidExecutions
BY DEF Close, ValidExecutions, ExecutionRows, ExecutionChecks, ExecutionStatus

LEMMA ArchivedIsValid ==
    ASSUME NEW row \in ValidSchedules, NEW t \in Times,
           row.status \in {"active", "paused"}
    PROVE  Archived(row, t) \in ValidSchedules
<1> DEFINE new == Archived(row, t)
<1>1. t + Retention \in Nat \cup {None} /\ t + Retention # None
  BY StoreAssumption DEF Times, None
<1>2. row.version + 1 \in Nat
  BY DEF ValidSchedules, ScheduleRows
<1>3. new \in ScheduleRows
  BY <1>1, <1>2, Zenon DEF Archived, ValidSchedules, ScheduleRows
<1>4. /\ new.status = row.status
      /\ new.deleted = TRUE
      /\ new.next = None
      /\ new.purge = t + Retention
  BY Zenon DEF Archived, ValidSchedules, ScheduleRows
<1>5. ScheduleChecks(new)
  BY <1>1, <1>4 DEF ScheduleChecks
<1> QED BY <1>3, <1>5 DEF ValidSchedules

LEMMA AdvancedIsValid ==
    ASSUME NEW row \in ValidSchedules, NEW t \in Times,
           row.status = "active", ~row.deleted
    PROVE  Advanced(row, t) \in ValidSchedules
<1> DEFINE new == Advanced(row, t)
<1>1. t + Retention \in Nat \cup {None} /\ t + Retention # None
  BY StoreAssumption DEF Times, None
<1>2. row.version + 1 \in Nat /\ row.cron \in Crons /\ row.kind \in Kinds
  BY DEF ValidSchedules, ScheduleRows
<1>3. NextAfter(row.cron, t) \in Nat \cup {None}
  BY <1>2, NextAfterIsLater
<1>4. row.purge = None
  BY DEF ValidSchedules, ScheduleChecks
<1>5. CASE row.kind = "one_time"
  <2>1. new = [row EXCEPT !.status = "completed", !.next = None, !.version = @ + 1,
                          !.purge = t + Retention]
    BY <1>5 DEF Advanced
  <2>2. new \in ScheduleRows
    BY <1>1, <1>2, <2>1, Zenon DEF ValidSchedules, ScheduleRows, ScheduleStatus
  <2>3. /\ new.status = "completed"
        /\ new.kind = row.kind
        /\ new.deleted = row.deleted
        /\ new.next = None
        /\ new.purge = t + Retention
    BY <2>1, Zenon DEF ValidSchedules, ScheduleRows
  <2> QED BY <1>1, <1>5, <2>2, <2>3 DEF ValidSchedules, ScheduleChecks
<1>6. CASE row.kind # "one_time"
  <2>1. new = [row EXCEPT !.next = NextAfter(row.cron, t), !.version = @ + 1]
    BY <1>6 DEF Advanced
  <2>2. new \in ScheduleRows
    BY <1>2, <1>3, <2>1, Zenon DEF ValidSchedules, ScheduleRows
  <2>3. /\ new.status = row.status
        /\ new.deleted = row.deleted
        /\ new.purge = row.purge
    BY <2>1, Zenon DEF ValidSchedules, ScheduleRows
  <2> QED BY <1>4, <2>2, <2>3 DEF ValidSchedules, ScheduleChecks
<1> QED BY <1>5, <1>6

\* An edit leaves a valid row: it commits on current reminders only.
LEMMA EditedIsValid ==
    ASSUME NEW row \in ValidSchedules, NEW edit \in Edits,
           row.status \in {"active", "paused"}, ~row.deleted
    PROVE  Edited(row, edit) \in ValidSchedules
<1> DEFINE new == Edited(row, edit)
<1>1. /\ edit.status \in {"active", "paused"}
      /\ edit.kind \in Kinds
      /\ edit.cron \in Crons
      /\ edit.next \in Nat \cup {None}
  BY DEF Edits
<1>2. row.version + 1 \in Nat /\ row.purge = None
  BY DEF ValidSchedules, ScheduleRows, ScheduleChecks
<1>3. edit.status \in ScheduleStatus
  BY <1>1 DEF ScheduleStatus
<1>4. new \in ScheduleRows
  BY <1>1, <1>2, <1>3, Zenon DEF Edited, ValidSchedules, ScheduleRows
<1>5. /\ new.status = edit.status
      /\ new.deleted = row.deleted
      /\ new.purge = row.purge
  BY Zenon DEF Edited, ValidSchedules, ScheduleRows
<1>6. ScheduleChecks(new)
  BY <1>1, <1>2, <1>5 DEF ScheduleChecks
<1> QED BY <1>4, <1>6 DEF ValidSchedules

\* A claim leaves a valid row, whatever it was before: pending or retrying.
LEMMA ClaimedIsValid ==
    ASSUME NEW row \in ValidExecutions, NEW w \in Workers, NEW t \in Times,
           row.status \in {"pending", "retrying"}
    PROVE  ClaimedRow(row, w, t) \in ValidExecutions
<1> DEFINE new == ClaimedRow(row, w, t)
           status == IF row.attempts = 0 THEN "pending" ELSE "retrying"
<1>1. /\ t + Lease \in Nat \cup {None} /\ t + Lease # None
      /\ w \in Workers \cup {NoWorker} /\ w # NoWorker
  BY StoreAssumption, WorkerAssumption DEF Times, None
<1>2. /\ row.attempts \in Nat /\ row.attempts + 1 \in Nat /\ row.attempts + 1 > 0
      /\ row.next # None
  BY DEF ValidExecutions, ExecutionRows, ExecutionChecks
<1>3. status \in ExecutionStatus /\ status \in {"pending", "retrying"}
  BY DEF ExecutionStatus
<1>4. new = [row EXCEPT !.status = status, !.attempts = @ + 1, !.owner = w,
                        !.expires = t + Lease]
  BY DEF ClaimedRow
<1> HIDE DEF status
<1>5. new \in ExecutionRows
  BY <1>1, <1>2, <1>3, <1>4, Zenon DEF ValidExecutions, ExecutionRows
<1>6. /\ new.status = status
      /\ new.attempts = row.attempts + 1
      /\ new.next = row.next
      /\ new.owner = w
      /\ new.expires = t + Lease
  BY <1>4, Zenon DEF ValidExecutions, ExecutionRows
<1>7. ExecutionChecks(new)
  BY <1>1, <1>2, <1>3, <1>6 DEF ExecutionChecks
<1> QED BY <1>5, <1>7 DEF ValidExecutions

LEMMA NewExecutionIsValid ==
    ASSUME NEW v \in Nat, NEW t \in Times
    PROVE  NewExecution(v, t) \in ValidExecutions
<1>1. t \in Nat /\ t # None
  BY StoreAssumption DEF Times, None
<1> QED
  BY <1>1 DEF NewExecution, ValidExecutions, ExecutionRows, ExecutionChecks, ExecutionStatus

LEMMA RetryIsValid ==
    ASSUME NEW row \in ValidExecutions, NEW t \in Nat, row.attempts > 0
    PROVE  [row EXCEPT !.status = "retrying", !.next = t, !.owner = NoWorker,
                       !.expires = None] \in ValidExecutions
<1> DEFINE new == [row EXCEPT !.status = "retrying", !.next = t, !.owner = NoWorker,
                              !.expires = None]
<1>1. t \in Nat \cup {None} /\ t # None /\ "retrying" \in ExecutionStatus
  BY DEF None, ExecutionStatus
<1>2. new \in ExecutionRows
  BY <1>1, Zenon DEF ValidExecutions, ExecutionRows
<1>3. /\ new.status = "retrying"
      /\ new.attempts = row.attempts
      /\ new.next = t
      /\ new.owner = NoWorker
      /\ new.expires = None
  BY Zenon DEF ValidExecutions, ExecutionRows
<1>4. ExecutionChecks(new)
  BY <1>1, <1>3 DEF ExecutionChecks
<1> QED BY <1>2, <1>4 DEF ValidExecutions
----------------------------------------------------------------------------
(* Every step preserves RowInv *)

\* What LocksHold says outlives a step that changes no locked row.
LEMMA LocksKept ==
    ASSUME LocksHold, LocksExclude, UNCHANGED <<lock, now>>,
           \A s \in Schedules : Locked(s) => sched'[s] = sched[s],
           lock \in [Workers -> SUBSET Schedules]
    PROVE  LocksHold' /\ LocksExclude'
<1>1. \A w \in Workers : \A s \in lock[w] : Locked(s) /\ s \in Schedules
  BY DEF Locked
<1> QED BY <1>1 DEF LocksHold, LocksExclude

\* Failing open executions keeps the table valid.
LEMMA FailOpenIsValid ==
    ASSUME NEW E, exec \in [Occurrences -> ValidExecutions], FailOpen(E)
    PROVE  exec' \in [Occurrences -> ValidExecutions]
BY CloseIsValid DEF FailOpen

\* Failing open executions sets no lease.
LEMMA FailOpenCounts ==
    ASSUME NEW E, LeasesCount, exec \in [Occurrences -> ValidExecutions], FailOpen(E)
    PROVE  LeasesCount'
<1>1. \A e \in Occurrences :
         exec'[e] = exec[e] \/ exec'[e] = Close(exec[e], "failed")
  BY DEF FailOpen
<1>2. \A row \in ValidExecutions : Close(row, "failed").owner = NoWorker
  BY Zenon DEF Close, ValidExecutions, ExecutionRows
<1> QED BY <1>1, <1>2 DEF LeasesCount

LEMMA TickRowInv ==
    ASSUME RowInv, Tick, UNCHANGED <<apiVars, workerVars>>
    PROVE  RowInv'
<1> USE DEF RowInv, TypeOK, Tick, apiVars, workerVars
<1>1. clock' \in Times
  BY StoreAssumption DEF StoreTypeOK, Times
<1>2. StoreTypeOK'
  BY <1>1 DEF StoreTypeOK
<1>3. ApiTypeOK' /\ WorkerTypeOK'
  BY DEF ApiTypeOK, WorkerTypeOK
<1>4. LocksHold' /\ LocksExclude' /\ LeasesCount'
  BY DEF LocksHold, LocksExclude, LeasesCount
<1> QED BY <1>2, <1>3, <1>4

LEMMA CreateRowInv ==
    ASSUME RowInv, UNCHANGED workerVars,
           NEW s \in Schedules, NEW kind \in Kinds, NEW cron \in Crons, NEW t \in Stamps,
           Create(s, kind, cron, t)
    PROVE  RowInv'
<1> USE DEF RowInv, TypeOK, workerVars
<1> DEFINE row == [status |-> "active", kind |-> kind, cron |-> cron,
                   next |-> NextAfter(cron, t), version |-> 1, deleted |-> FALSE,
                   purge |-> None]
<1>1. NextAfter(cron, t) \in Nat
  BY StampsAreTimes, NextAfterIsLater
<1>2. row \in ValidSchedules
  BY <1>1 DEF ValidSchedules, ScheduleRows, ScheduleChecks, ScheduleStatus
<1>3. /\ sched' = [sched EXCEPT ![s] = row]
      /\ UNCHANGED <<clock, exec, account, hook, lock, got, req>>
  BY DEF Create
<1>4. StoreTypeOK'
  BY <1>2, <1>3 DEF StoreTypeOK
<1>5. ApiTypeOK' /\ WorkerTypeOK' /\ LeasesCount'
  BY <1>3 DEF ApiTypeOK, WorkerTypeOK, LeasesCount
<1>6. ~Locked(s)
  BY DEF Create, Locked, LocksHold
<1>7. \A x \in Schedules : Locked(x) => sched'[x] = sched[x]
  BY <1>3, <1>6 DEF StoreTypeOK
<1>8. LocksHold' /\ LocksExclude'
  BY <1>3, <1>7, LocksKept DEF StoreTypeOK
<1> QED BY <1>4, <1>5, <1>8

\* Steps that touch the requests alone.
LEMMA RequestRowInv ==
    ASSUME RowInv, UNCHANGED <<storeVars, workerVars>>, ApiTypeOK'
    PROVE  RowInv'
<1> USE DEF RowInv, TypeOK, storeVars, workerVars
<1>1. StoreTypeOK' /\ WorkerTypeOK'
  BY DEF StoreTypeOK, WorkerTypeOK
<1>2. LocksHold' /\ LocksExclude' /\ LeasesCount'
  BY DEF LocksHold, LocksExclude, LeasesCount
<1> QED BY <1>1, <1>2

LEMMA EditOfType ==
    ASSUME StoreTypeOK, NEW s \in Schedules, NEW status \in {"active", "paused"},
           NEW kind \in Kinds, NEW cron \in Crons, NEW t \in Stamps
    PROVE  EditOf(s, status, kind, cron, t) \in Edits
<1>1. sched[s].version \in Nat /\ sched[s].next \in Nat \cup {None}
  BY DEF StoreTypeOK, ValidSchedules, ScheduleRows
<1>2. NextAfter(cron, t) \in Nat
  BY StampsAreTimes, NextAfterIsLater
<1>3. NextOnEdit(sched[s], status, kind, cron, t) \in Nat \cup {None}
  BY <1>1, <1>2 DEF NextOnEdit
<1> QED BY <1>1, <1>3 DEF EditOf, Edits

LEMMA ReadRowInv ==
    ASSUME RowInv, UNCHANGED workerVars, NEW q \in Requests,
           NEW bulk \in BOOLEAN, NEW edits \in SUBSET Edits, UNCHANGED storeVars,
           req' = [req EXCEPT ![q] = [pc |-> "read", bulk |-> bulk, edits |-> edits]]
    PROVE  RowInv'
<1>1. ApiTypeOK'
  BY DEF RowInv, TypeOK, ApiTypeOK
<1> QED BY <1>1, RequestRowInv

LEMMA ReadPatchRowInv ==
    ASSUME RowInv, UNCHANGED workerVars, NEW q \in Requests, NEW s \in Schedules,
           NEW status \in {"active", "paused"}, NEW kind \in Kinds, NEW cron \in Crons,
           NEW t \in Stamps, ReadPatch(q, s, status, kind, cron, t)
    PROVE  RowInv'
<1>1. {EditOf(s, status, kind, cron, t)} \in SUBSET Edits
  BY EditOfType DEF RowInv, TypeOK
<1> QED BY <1>1, ReadRowInv DEF ReadPatch

LEMMA ReadBulkRowInv ==
    ASSUME RowInv, UNCHANGED workerVars, NEW q \in Requests, NEW S \in SUBSET Schedules,
           NEW status \in {"active", "paused"}, NEW t \in Stamps, ReadBulk(q, S, status, t)
    PROVE  RowInv'
<1> DEFINE edits == {EditOf(s, status, sched[s].kind, sched[s].cron, t) : s \in S}
<1>1. \A s \in S : sched[s].kind \in Kinds /\ sched[s].cron \in Crons
  BY DEF RowInv, TypeOK, StoreTypeOK, ValidSchedules, ScheduleRows
<1>2. edits \in SUBSET Edits
  BY <1>1, EditOfType DEF RowInv, TypeOK
<1>3. req' = [req EXCEPT ![q] = [pc |-> "read", bulk |-> TRUE, edits |-> edits]]
  BY DEF ReadBulk
<1> HIDE DEF edits
<1> QED BY <1>2, <1>3, ReadRowInv DEF ReadBulk

LEMMA ServedType ==
    ASSUME ApiTypeOK, NEW q \in Requests, req' = [req EXCEPT ![q] = Served]
    PROVE  ApiTypeOK'
BY DEF ApiTypeOK, Served

LEMMA RefuseEditRowInv ==
    ASSUME RowInv, UNCHANGED workerVars, NEW q \in Requests, RefuseEdit(q)
    PROVE  RowInv'
BY ServedType, RequestRowInv DEF RefuseEdit, RowInv, TypeOK

\* A row that is still current is one an edit may change.
LEMMA CurrentIsEditable ==
    ASSUME StoreTypeOK, NEW edit \in Edits, StillCurrent(edit)
    PROVE  sched[edit.id].status \in {"active", "paused"} /\ ~sched[edit.id].deleted
<1>1. edit.id \in Schedules
  BY DEF Edits
<1>2. sched[edit.id].status \in ScheduleStatus
  BY <1>1 DEF StoreTypeOK, ValidSchedules, ScheduleRows
<1> QED BY <1>2 DEF StillCurrent, Present, ScheduleStatus

\* A committed edit replaces unlocked rows by their edited form.
LEMMA CommittedRows ==
    ASSUME StoreTypeOK, ApiTypeOK, NEW q \in Requests, CommitEdit(q), NEW s \in Schedules
    PROVE  \/ sched'[s] = sched[s]
           \/ \E edit \in req[q].edits :
                 /\ edit \in Edits /\ edit.id = s
                 /\ ~Locked(s) /\ StillCurrent(edit)
                 /\ sched'[s] = Edited(sched[s], edit)
<1>1. req[q].edits \subseteq Edits
  BY DEF ApiTypeOK
<1>2. Changes(q) \subseteq req[q].edits
  BY DEF Changes
<1>3. CASE \E edit \in Changes(q) : edit.id = s
  <2> DEFINE chosen == CHOOSE edit \in Changes(q) : edit.id = s
  <2>1. chosen \in Changes(q) /\ chosen.id = s
    BY <1>3
  <2>2. sched'[s] = Edited(sched[s], chosen)
    BY <1>3 DEF CommitEdit
  <2> HIDE DEF chosen
  <2> QED BY <1>1, <1>2, <2>1, <2>2 DEF CommitEdit
<1>4. CASE ~\E edit \in Changes(q) : edit.id = s
  BY <1>4 DEF CommitEdit
<1> QED BY <1>3, <1>4

LEMMA CommitEditRowInv ==
    ASSUME RowInv, UNCHANGED workerVars, NEW q \in Requests, CommitEdit(q)
    PROVE  RowInv'
<1> USE DEF RowInv, TypeOK, workerVars
<1>1. UNCHANGED <<clock, exec, account, hook, lock, got>>
  BY DEF CommitEdit
<1>2. \A s \in Schedules : sched'[s] \in ValidSchedules
  <2> TAKE s \in Schedules
  <2>1. sched[s] \in ValidSchedules
    BY DEF StoreTypeOK
  <2> QED BY <2>1, CommittedRows, CurrentIsEditable, EditedIsValid
<1>3. DOMAIN sched' = Schedules /\ sched' = [s \in Schedules |-> sched'[s]]
  BY DEF CommitEdit
<1>4. StoreTypeOK'
  BY <1>1, <1>2, <1>3 DEF StoreTypeOK
<1>5. ApiTypeOK'
  BY ServedType DEF CommitEdit
<1>6. WorkerTypeOK' /\ LeasesCount'
  BY <1>1 DEF WorkerTypeOK, LeasesCount
<1>7. \A s \in Schedules : Locked(s) => sched'[s] = sched[s]
  BY CommittedRows
<1>8. LocksHold' /\ LocksExclude'
  BY <1>1, <1>7, LocksKept DEF StoreTypeOK
<1> QED BY <1>4, <1>5, <1>6, <1>8

LEMMA ArchiveRowInv ==
    ASSUME RowInv, UNCHANGED workerVars, NEW s \in Schedules, NEW t \in Stamps, Archive(s, t)
    PROVE  RowInv'
<1> USE DEF RowInv, TypeOK, workerVars
<1>1. /\ UNCHANGED <<clock, account, hook, lock, got, req>>
      /\ FailOpen(OccurrencesOf(s)) /\ ~Locked(s)
  BY DEF Archive
<1>2. \/ sched' = sched
      \/ /\ sched[s].status \in {"active", "paused"}
         /\ sched' = [sched EXCEPT ![s] = Archived(sched[s], t)]
  <2>1. sched[s].status \in ScheduleStatus
    BY DEF StoreTypeOK, ValidSchedules, ScheduleRows
  <2> QED BY <2>1 DEF Archive, Present, ScheduleStatus
<1>3. sched' \in [Schedules -> ValidSchedules]
  BY <1>2, ArchivedIsValid, StampsAreTimes DEF StoreTypeOK
<1>4. exec' \in [Occurrences -> ValidExecutions] /\ LeasesCount'
  BY <1>1, FailOpenIsValid, FailOpenCounts DEF StoreTypeOK
<1>5. StoreTypeOK'
  BY <1>1, <1>3, <1>4 DEF StoreTypeOK
<1>6. ApiTypeOK' /\ WorkerTypeOK'
  BY <1>1 DEF ApiTypeOK, WorkerTypeOK
<1>7. \A x \in Schedules : Locked(x) => sched'[x] = sched[x]
  BY <1>1, <1>2 DEF StoreTypeOK
<1>8. LocksHold' /\ LocksExclude'
  BY <1>1, <1>7, LocksKept DEF StoreTypeOK
<1> QED BY <1>4, <1>5, <1>6, <1>8

\* Steps on the subscriptions or the accounts alone.
LEMMA SubscriptionRowInv ==
    ASSUME RowInv, UNCHANGED <<workerVars, clock, sched, exec, account, lock, got, req>>,
           hook' \in [Receivers -> Times \cup {None}]
    PROVE  RowInv'
<1> USE DEF RowInv, TypeOK, workerVars
<1>1. StoreTypeOK'
  BY DEF StoreTypeOK
<1>2. ApiTypeOK' /\ WorkerTypeOK'
  BY DEF ApiTypeOK, WorkerTypeOK
<1>3. LocksHold' /\ LocksExclude' /\ LeasesCount'
  BY DEF LocksHold, LocksExclude, LeasesCount
<1> QED BY <1>1, <1>2, <1>3

\* Moving a worker along its cycle.
LEMMA GotoType ==
    ASSUME WorkerTypeOK, NEW w \in Workers, NEW from,
           NEW to \in {"idle", "materialising", "claiming", "draining", "dead"},
           Goto(w, from, to)
    PROVE  pc' \in [Workers -> {"idle", "materialising", "claiming", "draining", "dead"}]
BY DEF WorkerTypeOK, Goto

LEMMA LockDueRowInv ==
    ASSUME RowInv, UNCHANGED apiVars, NEW w \in Workers, NEW busy \in SUBSET Schedules,
           NEW t \in Times, LockDue(w, busy, t)
    PROVE  RowInv'
<1> USE DEF RowInv, TypeOK, apiVars
<1>1. /\ UNCHANGED <<clock, sched, exec, account, hook, got, task, faults>>
      /\ now' = [now EXCEPT ![w] = t]
      /\ Goto(w, "idle", "materialising")
  BY DEF LockDue
<1>2. PICK S \in SUBSET {s \in Schedules : Due(s, t) /\ ~Locked(s)} :
         lock' = [lock EXCEPT ![w] = S]
  BY DEF LockDue
<1>3. S \subseteq Schedules /\ \A s \in S : Due(s, t) /\ ~Locked(s)
  OBVIOUS
<1>4. StoreTypeOK'
  BY <1>1, <1>2, <1>3 DEF StoreTypeOK
<1>5. ApiTypeOK' /\ LeasesCount'
  BY <1>1 DEF ApiTypeOK, LeasesCount
<1>6. WorkerTypeOK'
  BY <1>1, GotoType DEF WorkerTypeOK
<1>7. LocksHold'
  BY <1>1, <1>2, <1>3 DEF LocksHold, Due, StoreTypeOK, WorkerTypeOK
<1>8. LocksExclude'
  BY <1>2, <1>3 DEF LocksExclude, Locked, StoreTypeOK
<1> QED BY <1>4, <1>5, <1>6, <1>7, <1>8

\* A worker lets go of its locks; the rows the others have locked stay as they are.
LEMMA LocksReleased ==
    ASSUME LocksHold, LocksExclude, NEW w \in Workers,
           lock \in [Workers -> SUBSET Schedules], now \in [Workers -> Times],
           lock' = [lock EXCEPT ![w] = {}], now' = [now EXCEPT ![w] = 0],
           \A s \in Schedules \ lock[w] : sched'[s] = sched[s]
    PROVE  LocksHold' /\ LocksExclude'
<1>1. \A v \in Workers : lock'[v] = IF v = w THEN {} ELSE lock[v]
  OBVIOUS
<1>2. \A v \in Workers \ {w} : now'[v] = now[v]
  OBVIOUS
<1>3. \A v \in Workers \ {w} : \A s \in lock[v] : sched'[s] = sched[s]
  BY DEF LocksExclude
<1>4. LocksHold'
  BY <1>1, <1>2, <1>3 DEF LocksHold
<1>5. LocksExclude'
  BY <1>1 DEF LocksExclude
<1> QED BY <1>4, <1>5

LEMMA ReleasedTypes ==
    ASSUME NEW w \in Workers,
           lock \in [Workers -> SUBSET Schedules], now \in [Workers -> Times],
           lock' = [lock EXCEPT ![w] = {}], now' = [now EXCEPT ![w] = 0]
    PROVE  lock' \in [Workers -> SUBSET Schedules] /\ now' \in [Workers -> Times]
<1>1. 0 \in Times
  BY StoreAssumption DEF Times
<1> QED BY <1>1

LEMMA CommitBatchRowInv ==
    ASSUME RowInv, UNCHANGED apiVars, NEW w \in Workers, CommitBatch(w)
    PROVE  RowInv'
<1> USE DEF RowInv, TypeOK, apiVars
<1>1. /\ UNCHANGED <<clock, account, hook, got, task, faults>>
      /\ lock' = [lock EXCEPT ![w] = {}]
      /\ now' = [now EXCEPT ![w] = 0]
      /\ Goto(w, "materialising", "claiming")
      /\ sched' = [s \in Schedules |->
            IF s \in lock[w] THEN Advanced(sched[s], now[w]) ELSE sched[s]]
  BY DEF CommitBatch
<1>2. now[w] \in Times /\ lock[w] \subseteq Schedules
  BY DEF WorkerTypeOK, StoreTypeOK
<1>3. sched' \in [Schedules -> ValidSchedules]
  <2>1. \A s \in lock[w] : Advanced(sched[s], now[w]) \in ValidSchedules
    BY <1>2, AdvancedIsValid DEF LocksHold, StoreTypeOK
  <2> QED BY <1>1, <2>1 DEF StoreTypeOK
<1>4. \A e \in Occurrences :
         \/ exec'[e] = exec[e]
         \/ exec'[e] = NewExecution(sched[e[1]].version + 1, now[w])
  BY DEF CommitBatch
<1>5. exec' \in [Occurrences -> ValidExecutions]
  <2>1. \A e \in Occurrences : sched[e[1]].version + 1 \in Nat
    BY DEF Occurrences, StoreTypeOK, ValidSchedules, ScheduleRows
  <2>2. \A e \in Occurrences : exec'[e] \in ValidExecutions
    BY <1>2, <1>4, <2>1, NewExecutionIsValid DEF StoreTypeOK
  <2>3. exec' = [e \in Occurrences |-> exec'[e]]
    BY DEF CommitBatch
  <2> QED BY <2>2, <2>3
<1>6. LeasesCount'
  <2>1. \A v, t : NewExecution(v, t).owner = NoWorker
    BY DEF NewExecution
  <2> QED BY <1>4, <2>1 DEF LeasesCount
<1>7. StoreTypeOK'
  BY <1>1, <1>3, <1>5, ReleasedTypes DEF StoreTypeOK, WorkerTypeOK
<1>8. ApiTypeOK' /\ WorkerTypeOK'
  BY <1>1, ReleasedTypes, GotoType DEF ApiTypeOK, WorkerTypeOK, StoreTypeOK
<1>9. LocksHold' /\ LocksExclude'
  BY <1>1, LocksReleased DEF StoreTypeOK, WorkerTypeOK
<1> QED BY <1>6, <1>7, <1>8, <1>9

\* A transaction that ends without a commit: it aborts, or its process dies.
LEMMA ReleaseRowInv ==
    ASSUME RowInv, NEW w \in Workers,
           UNCHANGED <<apiVars, clock, sched, exec, account, hook, got, faults>>,
           lock' = [lock EXCEPT ![w] = {}], now' = [now EXCEPT ![w] = 0],
           pc' \in [Workers -> {"idle", "materialising", "claiming", "draining", "dead"}],
           task' \in [Workers -> [Occurrences -> Tasks]]
    PROVE  RowInv'
<1> USE DEF RowInv, TypeOK, apiVars
<1>1. StoreTypeOK'
  BY ReleasedTypes DEF StoreTypeOK, WorkerTypeOK
<1>2. ApiTypeOK' /\ WorkerTypeOK'
  BY ReleasedTypes DEF ApiTypeOK, WorkerTypeOK, StoreTypeOK
<1>3. LocksHold' /\ LocksExclude'
  BY LocksReleased DEF StoreTypeOK, WorkerTypeOK
<1>4. LeasesCount'
  BY DEF LeasesCount
<1> QED BY <1>1, <1>2, <1>3, <1>4

LEMMA NoTaskType == NoTask \in Tasks
BY DEF NoTask, Tasks, TaskSteps, Errors

LEMMA AbortBatchRowInv ==
    ASSUME RowInv, UNCHANGED apiVars, NEW w \in Workers, AbortBatch(w)
    PROVE  RowInv'
<1>1. /\ pc' \in [Workers -> {"idle", "materialising", "claiming", "draining", "dead"}]
      /\ task' \in [Workers -> [Occurrences -> Tasks]]
  BY GotoType DEF AbortBatch, RowInv, TypeOK, WorkerTypeOK
<1>2. /\ UNCHANGED <<clock, sched, exec, account, hook, got, faults>>
      /\ lock' = [lock EXCEPT ![w] = {}] /\ now' = [now EXCEPT ![w] = 0]
  BY DEF AbortBatch
<1> QED BY <1>1, <1>2, ReleaseRowInv

LEMMA CrashRowInv ==
    ASSUME RowInv, UNCHANGED apiVars, NEW w \in Workers, Crash(w)
    PROVE  RowInv'
<1>1. /\ pc' \in [Workers -> {"idle", "materialising", "claiming", "draining", "dead"}]
      /\ task' \in [Workers -> [Occurrences -> Tasks]]
  BY NoTaskType DEF Crash, RowInv, TypeOK, WorkerTypeOK
<1>2. /\ UNCHANGED <<clock, sched, exec, account, hook, got, faults>>
      /\ lock' = [lock EXCEPT ![w] = {}] /\ now' = [now EXCEPT ![w] = 0]
  BY DEF Crash
<1> QED BY <1>1, <1>2, ReleaseRowInv

\* Claiming rows, whichever of the open ones are claimed.
LEMMA ClaimRowInv ==
    ASSUME RowInv, UNCHANGED apiVars, NEW w \in Workers, NEW busy \in SUBSET Occurrences,
           NEW t \in Times, Claim(w, busy, t)
    PROVE  RowInv'
<1> USE DEF RowInv, TypeOK, apiVars
<1>1. /\ UNCHANGED <<clock, sched, account, hook, lock, got, now, faults>>
      /\ Goto(w, "claiming", "draining")
  BY DEF Claim
<1>2. PICK E \in SUBSET {e \in Occurrences : Claimable(e, t)} :
         /\ exec' = [e \in Occurrences |->
                        IF e \in E THEN ClaimedRow(exec[e], w, t) ELSE exec[e]]
         /\ task' = [task EXCEPT ![w] =
               [e \in Occurrences |-> IF e \in E THEN ClaimTask(e, t) ELSE NoTask]]
  BY DEF Claim
<1>3. \A e \in E : e \in Occurrences /\ exec[e] \in ValidExecutions /\ Open(e)
  BY DEF Claimable, StoreTypeOK
<1>4. \A e \in E : ClaimedRow(exec[e], w, t) \in ValidExecutions
  BY <1>3, ClaimedIsValid DEF Open
<1>5. exec' \in [Occurrences -> ValidExecutions]
  BY <1>2, <1>4 DEF StoreTypeOK
<1>6. LeasesCount'
  <2>1. \A e \in E : ClaimedRow(exec[e], w, t).attempts > 0
    <3> TAKE e \in E
    <3>1. ClaimedRow(exec[e], w, t).attempts = exec[e].attempts + 1
      BY <1>3, Zenon DEF ClaimedRow, ValidExecutions, ExecutionRows
    <3>2. exec[e].attempts \in Nat
      BY <1>3 DEF ValidExecutions, ExecutionRows
    <3> QED BY <3>1, <3>2
  <2> QED BY <1>2, <2>1 DEF LeasesCount
<1>7. \A e \in E : ClaimTask(e, t) \in Tasks
  <2> TAKE e \in E
  <2>1. exec[e].attempts + 1 \in Nat /\ t + Lease \in Nat
    BY <1>3, StoreAssumption, WorkerAssumption DEF ValidExecutions, ExecutionRows, Times
  <2>2. "claimed" \in TaskSteps
    BY DEF TaskSteps
  <2> QED BY <2>1, <2>2, NoTaskType, Zenon DEF ClaimTask, Tasks
<1>8. StoreTypeOK'
  BY <1>1, <1>5 DEF StoreTypeOK
<1>9. ApiTypeOK' /\ WorkerTypeOK'
  BY <1>1, <1>2, <1>7, NoTaskType, GotoType DEF ApiTypeOK, WorkerTypeOK
<1>10. LocksHold' /\ LocksExclude'
  BY <1>1 DEF LocksHold, LocksExclude
<1> QED BY <1>6, <1>8, <1>9, <1>10

\* Steps of a task that write no row.
LEMMA TaskRowInv ==
    ASSUME RowInv, UNCHANGED <<apiVars, clock, sched, exec, account, hook, lock, pc, now>>,
           got' \in [Occurrences -> SUBSET Receivers], faults' \in 0 .. MaxFaults,
           task' \in [Workers -> [Occurrences -> Tasks]]
    PROVE  RowInv'
<1> USE DEF RowInv, TypeOK, apiVars
<1>1. StoreTypeOK'
  BY DEF StoreTypeOK
<1>2. ApiTypeOK' /\ WorkerTypeOK'
  BY DEF ApiTypeOK, WorkerTypeOK
<1>3. LocksHold' /\ LocksExclude' /\ LeasesCount'
  BY DEF LocksHold, LocksExclude, LeasesCount
<1> QED BY <1>1, <1>2, <1>3

LEMMA DrainedRowInv ==
    ASSUME RowInv, UNCHANGED apiVars, NEW w \in Workers, Drained(w)
    PROVE  RowInv'
<1> USE DEF RowInv, TypeOK, apiVars, storeVars
<1>1. StoreTypeOK'
  BY DEF Drained, StoreTypeOK
<1>2. ApiTypeOK' /\ WorkerTypeOK'
  BY GotoType DEF Drained, ApiTypeOK, WorkerTypeOK
<1>3. LocksHold' /\ LocksExclude' /\ LeasesCount'
  BY DEF Drained, LocksHold, LocksExclude, LeasesCount
<1> QED BY <1>1, <1>2, <1>3

LEMMA TaskStepType ==
    ASSUME WorkerTypeOK, NEW w \in Workers, NEW e \in Occurrences, NEW from, NEW new \in Tasks,
           TaskStep(w, e, from, new)
    PROVE  task' \in [Workers -> [Occurrences -> Tasks]] /\ UNCHANGED <<pc, now, faults>>
BY DEF WorkerTypeOK, TaskStep

LEMMA TaskType ==
    ASSUME WorkerTypeOK, NEW w \in Workers, NEW e \in Occurrences
    PROVE  task[w][e] \in Tasks
BY DEF WorkerTypeOK

LEMMA ResolveRowInv ==
    ASSUME RowInv, UNCHANGED apiVars, NEW w \in Workers, NEW e \in Occurrences, Resolve(w, e)
    PROVE  RowInv'
<1> USE DEF RowInv, TypeOK
<1> DEFINE new == [task[w][e] EXCEPT !.pc = "resolved", !.todo = Subscriptions(e[1])]
<1>1. Subscriptions(e[1]) \in SUBSET Receivers /\ "resolved" \in TaskSteps
  BY DEF Subscriptions, TaskSteps
<1>2. new \in Tasks
  BY <1>1, TaskType, Zenon DEF Tasks
<1>3. TaskStep(w, e, "claimed", new) /\ UNCHANGED storeVars
  BY DEF Resolve
<1> HIDE DEF new
<1>4. task' \in [Workers -> [Occurrences -> Tasks]] /\ UNCHANGED <<pc, now, faults>>
  BY <1>2, <1>3, TaskStepType
<1> QED BY <1>3, <1>4, TaskRowInv DEF storeVars, StoreTypeOK, WorkerTypeOK

LEMMA FailingType ==
    ASSUME WorkerTypeOK, NEW w \in Workers, NEW e \in Occurrences, NEW error \in Errors
    PROVE  Failing(w, e, error) \in Tasks
<1>1. "failing" \in TaskSteps
  BY DEF TaskSteps
<1> QED BY <1>1, TaskType, Zenon DEF Failing, Tasks

LEMMA ResolveFailsRowInv ==
    ASSUME RowInv, UNCHANGED apiVars, NEW w \in Workers, NEW e \in Occurrences,
           NEW error \in Errors, ResolveFails(w, e, error)
    PROVE  RowInv'
<1> USE DEF RowInv, TypeOK
<1>1. TaskStep(w, e, "claimed", Failing(w, e, error)) /\ UNCHANGED storeVars
  BY DEF ResolveFails
<1>2. task' \in [Workers -> [Occurrences -> Tasks]] /\ UNCHANGED <<pc, now, faults>>
  BY <1>1, FailingType, TaskStepType
<1> QED BY <1>1, <1>2, TaskRowInv DEF storeVars, StoreTypeOK, WorkerTypeOK

LEMMA RecheckRowInv ==
    ASSUME RowInv, UNCHANGED apiVars, NEW w \in Workers, NEW e \in Occurrences,
           NEW t \in Times, Recheck(w, e, t)
    PROVE  RowInv'
<1> USE DEF RowInv, TypeOK
<1> DEFINE next == IF task[w][e].todo = {} THEN "delivering" ELSE "posting"
           new  == IF ~HoldsLease(w, e, t) THEN NoTask ELSE [task[w][e] EXCEPT !.pc = next]
<1>1. next \in TaskSteps
  BY DEF TaskSteps
<1>2. TaskStep(w, e, "resolved", new) /\ UNCHANGED storeVars
  BY DEF Recheck
<1> HIDE DEF next
<1>3. [task[w][e] EXCEPT !.pc = next] \in Tasks
  BY <1>1, TaskType, Zenon DEF Tasks
<1>4. new \in Tasks
  BY <1>3, NoTaskType
<1> HIDE DEF new
<1>5. task' \in [Workers -> [Occurrences -> Tasks]] /\ UNCHANGED <<pc, now, faults>>
  BY <1>2, <1>4, TaskStepType
<1> QED BY <1>2, <1>5, TaskRowInv DEF storeVars, StoreTypeOK, WorkerTypeOK

LEMMA PostRowInv ==
    ASSUME RowInv, UNCHANGED apiVars, NEW w \in Workers, NEW e \in Occurrences,
           NEW r \in Receivers, NEW answer \in Answers, Post(w, e, r, answer)
    PROVE  RowInv'
<1> USE DEF RowInv, TypeOK
<1> DEFINE old   == task[w][e]
           error == FirstError(old.error, answer.error)
           left  == old.todo \ {r}
           next  == IF left # {} THEN "posting"
                    ELSE IF error = "none" THEN "delivering" ELSE "failing"
           new   == [old EXCEPT !.todo = left, !.error = error, !.pc = next]
<1>1. /\ TaskStep(w, e, "posting", new)
      /\ got' = IF answer.got THEN [got EXCEPT ![e] = @ \cup {r}] ELSE got
      /\ UNCHANGED <<clock, sched, exec, account, hook, lock>>
  BY DEF Post
<1>2. old \in Tasks
  BY TaskType
<1>3. error \in Errors
  BY <1>2 DEF FirstError, Answers, Errors, Tasks
<1>4. left \in SUBSET Receivers
  BY <1>2 DEF Tasks
<1>5. next \in TaskSteps
  BY DEF TaskSteps
<1> HIDE DEF old, error, left, next
<1>6. new \in Tasks
  BY <1>2, <1>3, <1>4, <1>5, Zenon DEF Tasks
<1> HIDE DEF new
<1>7. task' \in [Workers -> [Occurrences -> Tasks]] /\ UNCHANGED <<pc, now, faults>>
  BY <1>1, <1>6, TaskStepType
<1>8. got' \in [Occurrences -> SUBSET Receivers]
  BY <1>1 DEF StoreTypeOK
<1> QED BY <1>1, <1>7, <1>8, TaskRowInv DEF WorkerTypeOK

LEMMA TaskDiesRowInv ==
    ASSUME RowInv, UNCHANGED apiVars, NEW w \in Workers, NEW e \in Occurrences, TaskDies(w, e)
    PROVE  RowInv'
<1> USE DEF RowInv, TypeOK
<1>1. faults' \in 0 .. MaxFaults
  BY WorkerAssumption DEF TaskDies, WorkerTypeOK
<1>2. task' \in [Workers -> [Occurrences -> Tasks]]
  BY NoTaskType DEF TaskDies, WorkerTypeOK
<1> QED BY <1>1, <1>2, TaskRowInv DEF TaskDies, storeVars, StoreTypeOK

\* A result leaves a valid row, if the row it is written over is valid.
LEMMA WriteResultRowInv ==
    ASSUME RowInv, UNCHANGED apiVars, NEW w \in Workers, NEW e \in Occurrences,
           NEW t \in Times, NEW from, NEW row, WriteResult(w, e, t, from, row),
           HoldsLease(w, e, t) => row \in ValidExecutions /\ row.owner = NoWorker
    PROVE  RowInv'
<1> USE DEF RowInv, TypeOK, apiVars
<1>1. /\ UNCHANGED <<clock, sched, account, hook, lock, got>>
      /\ exec' = IF HoldsLease(w, e, t) THEN [exec EXCEPT ![e] = row] ELSE exec
      /\ TaskStep(w, e, from, NoTask)
  BY DEF WriteResult
<1>2. task' \in [Workers -> [Occurrences -> Tasks]] /\ UNCHANGED <<pc, now, faults>>
  BY <1>1, NoTaskType, TaskStepType
<1>3. StoreTypeOK'
  BY <1>1 DEF StoreTypeOK
<1>4. ApiTypeOK' /\ WorkerTypeOK'
  BY <1>1, <1>2 DEF ApiTypeOK, WorkerTypeOK
<1>5. LocksHold' /\ LocksExclude'
  BY <1>1, <1>2 DEF LocksHold, LocksExclude
<1>6. LeasesCount'
  BY <1>1 DEF LeasesCount, StoreTypeOK
<1> QED BY <1>3, <1>4, <1>5, <1>6

LEMMA ClosingRowInv ==
    ASSUME RowInv, UNCHANGED apiVars, NEW w \in Workers, NEW e \in Occurrences,
           NEW t \in Times, NEW from, NEW status \in {"delivered", "failed"},
           WriteResult(w, e, t, from, Close(exec[e], status))
    PROVE  RowInv'
<1>1. exec[e] \in ValidExecutions
  BY DEF RowInv, TypeOK, StoreTypeOK
<1>2. Close(exec[e], status) \in ValidExecutions
  BY <1>1, CloseIsValid
<1>3. Close(exec[e], status).owner = NoWorker
  BY <1>1, Zenon DEF Close, ValidExecutions, ExecutionRows
<1> QED BY <1>2, <1>3, WriteResultRowInv

LEMMA MarkRetryingRowInv ==
    ASSUME RowInv, UNCHANGED apiVars, NEW w \in Workers, NEW e \in Occurrences,
           NEW t \in Times, NEW delay \in RetryDelays(task[w][e].attempt),
           MarkRetrying(w, e, t, delay)
    PROVE  RowInv'
<1> DEFINE row == [exec[e] EXCEPT !.status = "retrying", !.next = t + delay,
                                  !.owner = NoWorker, !.expires = None]
<1>1. exec[e] \in ValidExecutions
  BY DEF RowInv, TypeOK, StoreTypeOK
<1>2. t + delay \in Nat
  <2>1. task[w][e].attempt \in Nat
    BY DEF RowInv, TypeOK, WorkerTypeOK, Tasks
  <2>2. delay \in Nat
    BY <2>1, DelaysFit, WorkerAssumption
  <2> QED BY <2>2, StoreAssumption DEF Times
<1>3. HoldsLease(w, e, t) => exec[e].attempts > 0
  BY StoreAssumption DEF HoldsLease, RowInv, LeasesCount
<1>4. HoldsLease(w, e, t) => row \in ValidExecutions
  BY <1>1, <1>2, <1>3, RetryIsValid
<1>5. row.owner = NoWorker
  BY <1>1, Zenon DEF ValidExecutions, ExecutionRows
<1>6. WriteResult(w, e, t, "failing", row)
  BY DEF MarkRetrying
<1> HIDE DEF row
<1> QED BY <1>4, <1>5, <1>6, WriteResultRowInv

\* A purged reminder was archived, so no transaction has it locked.
LEMMA PurgeRowInv ==
    ASSUME RowInv, UNCHANGED apiVars, NEW w \in Workers, NEW S \in SUBSET Schedules,
           NEW t \in Times, Purge(w, S, t)
    PROVE  RowInv'
<1> USE DEF RowInv, TypeOK, apiVars
<1>1. /\ UNCHANGED <<clock, account, hook, lock, got, pc, now, task, faults>>
      /\ sched' = [s \in Schedules |-> IF s \in S THEN NoSchedule("purged") ELSE sched[s]]
      /\ exec' = [e \in Occurrences |->
            IF e[1] \in S /\ Exists(e) THEN NoExecution("purged") ELSE exec[e]]
      /\ \A s \in S : ~Locked(s)
  BY DEF Purge
<1>2. StoreTypeOK'
  BY <1>1, PurgedRows DEF StoreTypeOK
<1>3. ApiTypeOK' /\ WorkerTypeOK'
  BY <1>1 DEF ApiTypeOK, WorkerTypeOK
<1>4. \A s \in Schedules : Locked(s) => sched'[s] = sched[s]
  BY <1>1
<1>5. LocksHold' /\ LocksExclude'
  BY <1>1, <1>4, LocksKept DEF StoreTypeOK
<1>6. LeasesCount'
  <2>1. NoExecution("purged").owner = NoWorker
    BY DEF NoExecution
  <2> QED BY <1>1, <2>1 DEF LeasesCount
<1> QED BY <1>2, <1>3, <1>5, <1>6
----------------------------------------------------------------------------
LEMMA SuspendRowInv ==
    ASSUME RowInv, UNCHANGED <<apiVars, workerVars>>, NEW a \in Accounts, Suspend(a)
    PROVE  RowInv'
<1> USE DEF RowInv, TypeOK, apiVars, workerVars
<1>1. /\ UNCHANGED <<clock, sched, hook, lock, got>>
      /\ account' = [account EXCEPT ![a] = "access_removed"]
      /\ FailOpen(OwnedExecutions(a))
  BY DEF Suspend
<1>2. exec' \in [Occurrences -> ValidExecutions] /\ LeasesCount'
  BY <1>1, FailOpenIsValid, FailOpenCounts DEF StoreTypeOK
<1>3. StoreTypeOK'
  BY <1>1, <1>2 DEF StoreTypeOK, AccountStatus
<1>4. ApiTypeOK' /\ WorkerTypeOK'
  BY <1>1 DEF ApiTypeOK, WorkerTypeOK
<1>5. LocksHold' /\ LocksExclude'
  BY <1>1 DEF LocksHold, LocksExclude
<1> QED BY <1>2, <1>3, <1>4, <1>5

LEMMA SignInRowInv ==
    ASSUME RowInv, UNCHANGED <<apiVars, workerVars>>, NEW a \in Accounts, SignIn(a)
    PROVE  RowInv'
<1> USE DEF RowInv, TypeOK, apiVars, workerVars, SignIn
<1>1. StoreTypeOK'
  BY DEF StoreTypeOK, AccountStatus
<1>2. ApiTypeOK' /\ WorkerTypeOK'
  BY DEF ApiTypeOK, WorkerTypeOK
<1>3. LocksHold' /\ LocksExclude' /\ LeasesCount'
  BY DEF LocksHold, LocksExclude, LeasesCount
<1> QED BY <1>1, <1>2, <1>3

LEMMA DeleteAccountRowInv ==
    ASSUME RowInv, UNCHANGED <<apiVars, workerVars>>, NEW a \in Accounts, DeleteAccount(a)
    PROVE  RowInv'
<1> USE DEF RowInv, TypeOK, apiVars, workerVars
<1>1. /\ UNCHANGED <<clock, lock, got>>
      /\ account' = [account EXCEPT ![a] = "deleted"]
      /\ sched' = [s \in Schedules |->
            IF s \in ToArchive(a) THEN Archived(sched[s], clock) ELSE sched[s]]
      /\ hook' = [r \in Receivers |-> IF Subscriber[r] = a THEN None ELSE hook[r]]
      /\ FailOpen(OwnedExecutions(a))
      /\ \A s \in ToArchive(a) : ~Locked(s)
  BY DEF DeleteAccount, CanArchive
<1>2. \A s \in ToArchive(a) : Archived(sched[s], clock) \in ValidSchedules
  <2>1. \A s \in ToArchive(a) :
           s \in Schedules /\ sched[s].status \in {"active", "paused"}
    BY DEF ToArchive, OwnedBy, Present, StoreTypeOK, ValidSchedules, ScheduleRows,
           ScheduleStatus
  <2> QED BY <2>1, ArchivedIsValid DEF StoreTypeOK
<1>3. sched' \in [Schedules -> ValidSchedules]
  BY <1>1, <1>2 DEF StoreTypeOK
<1>4. exec' \in [Occurrences -> ValidExecutions] /\ LeasesCount'
  BY <1>1, FailOpenIsValid, FailOpenCounts DEF StoreTypeOK
<1>5. StoreTypeOK'
  BY <1>1, <1>3, <1>4 DEF StoreTypeOK, AccountStatus
<1>6. ApiTypeOK' /\ WorkerTypeOK'
  BY <1>1 DEF ApiTypeOK, WorkerTypeOK
<1>7. \A s \in Schedules : Locked(s) => sched'[s] = sched[s]
  BY <1>1
<1>8. LocksHold' /\ LocksExclude'
  BY <1>1, <1>7, LocksKept DEF StoreTypeOK
<1> QED BY <1>4, <1>5, <1>6, <1>8
----------------------------------------------------------------------------
LEMMA ApiRowInv ==
    ASSUME RowInv, ApiNext, UNCHANGED workerVars
    PROVE  RowInv'
<1>1. CASE \E s \in Schedules, k \in Kinds, c \in Crons, t \in Stamps : Create(s, k, c, t)
  BY <1>1, CreateRowInv
<1>2. CASE \E q \in Requests, s \in Schedules, st \in {"active", "paused"}, k \in Kinds,
              c \in Crons, t \in Stamps : ReadPatch(q, s, st, k, c, t)
  BY <1>2, ReadPatchRowInv
<1>3. CASE \E q \in Requests, S \in SUBSET Schedules \ {{}}, st \in {"active", "paused"},
              t \in Stamps : SameOwner(S) /\ ReadBulk(q, S, st, t)
  BY <1>3, ReadBulkRowInv
<1>4. CASE \E q \in Requests : CommitEdit(q) \/ RefuseEdit(q)
  BY <1>4, CommitEditRowInv, RefuseEditRowInv
<1>5. CASE \E s \in Schedules, t \in Stamps : Archive(s, t)
  BY <1>5, ArchiveRowInv
<1>6. CASE \E r \in Receivers : Subscribe(r) \/ Unsubscribe(r)
  <2>1. hook' \in [Receivers -> Times \cup {None}]
    BY <1>6 DEF Subscribe, Unsubscribe, RowInv, TypeOK, StoreTypeOK
  <2>2. UNCHANGED <<clock, sched, exec, account, lock, got, req>>
    BY <1>6 DEF Subscribe, Unsubscribe
  <2> QED BY <2>1, <2>2, SubscriptionRowInv DEF workerVars
<1> QED BY <1>1, <1>2, <1>3, <1>4, <1>5, <1>6 DEF ApiNext

LEMMA DeliveryRowInv ==
    ASSUME RowInv, UNCHANGED apiVars, NEW w \in Workers, NEW e \in Occurrences,
           DeliveryStep(w, e)
    PROVE  RowInv'
<1>1. CASE Resolve(w, e)
  BY <1>1, ResolveRowInv
<1>2. CASE \E error \in Errors \ {"none"} : ResolveFails(w, e, error)
  BY <1>2, ResolveFailsRowInv
<1>3. CASE \E t \in Times : Recheck(w, e, t)
  BY <1>3, RecheckRowInv
<1>4. CASE \E r \in Receivers, answer \in Answers : Post(w, e, r, answer)
  BY <1>4, PostRowInv
<1>5. CASE \E t \in Times : MarkDelivered(w, e, t)
  BY <1>5, ClosingRowInv DEF MarkDelivered
<1>6. CASE \E t \in Times, delay \in RetryDelays(task[w][e].attempt) :
             MarkRetrying(w, e, t, delay)
  BY <1>6, MarkRetryingRowInv
<1>7. CASE \E t \in Times : MarkFailed(w, e, t)
  BY <1>7, ClosingRowInv DEF MarkFailed
<1> QED BY <1>1, <1>2, <1>3, <1>4, <1>5, <1>6, <1>7 DEF DeliveryStep

LEMMA WorkerRowInv ==
    ASSUME RowInv, WorkerNext, UNCHANGED apiVars
    PROVE  RowInv'
<1>1. PICK w \in Workers :
         WorkerStep(w) \/ Crash(w) \/ \E e \in Occurrences : TaskDies(w, e)
  BY DEF WorkerNext
<1>2. CASE \E busy \in SUBSET Schedules, t \in Times : LockDue(w, busy, t)
  BY <1>2, LockDueRowInv
<1>3. CASE CommitBatch(w) \/ AbortBatch(w)
  BY <1>3, CommitBatchRowInv, AbortBatchRowInv
<1>4. CASE \E busy \in SUBSET Occurrences, t \in Times : Claim(w, busy, t)
  BY <1>4, ClaimRowInv
<1>5. CASE Drained(w)
  BY <1>5, DrainedRowInv
<1>6. CASE \E S \in SUBSET Schedules, t \in Times : Purge(w, S, t)
  BY <1>6, PurgeRowInv
<1>7. CASE \E e \in Occurrences : DeliveryStep(w, e)
  BY <1>7, DeliveryRowInv
<1>8. CASE Crash(w)
  BY <1>8, CrashRowInv
<1>9. CASE \E e \in Occurrences : TaskDies(w, e)
  BY <1>9, TaskDiesRowInv
<1> QED BY <1>1, <1>2, <1>3, <1>4, <1>5, <1>6, <1>7, <1>8, <1>9 DEF WorkerStep

LEMMA LifecycleRowInv ==
    ASSUME RowInv, LifecycleNext, UNCHANGED <<apiVars, workerVars>>
    PROVE  RowInv'
BY SuspendRowInv, SignInRowInv, DeleteAccountRowInv DEF LifecycleNext

LEMMA NextRowInv ==
    ASSUME RowInv, [Next]_vars
    PROVE  RowInv'
<1>1. CASE UNCHANGED vars
  <2>1. UNCHANGED <<storeVars, workerVars, apiVars>>
    BY <1>1 DEF vars
  <2>2. ApiTypeOK'
    BY <2>1 DEF apiVars, RowInv, TypeOK, ApiTypeOK
  <2> QED BY <2>1, <2>2, RequestRowInv
<1>2. CASE Next
  BY <1>2, TickRowInv, ApiRowInv, WorkerRowInv, LifecycleRowInv DEF Next
<1> QED BY <1>1, <1>2

\* Rows, locks, requests and tasks keep their types, no statement breaks a CHECK
\* constraint of its table, and a row that a materialising transaction has
\* locked is still the due reminder it was when it was locked.
THEOREM RowsAreSound == Spec => []RowInv
<1>1. Init => RowInv
  BY InitRowInv
<1>2. RowInv /\ [Next]_vars => RowInv'
  BY NextRowInv
<1> QED BY <1>1, <1>2, PTL DEF Spec

\* Type correctness, and the CHECK constraints with it, for every instance.
THEOREM TypeCorrect == Spec => []TypeOK
<1>1. RowInv => TypeOK
  BY DEF RowInv
<1> QED BY <1>1, RowsAreSound, PTL
----------------------------------------------------------------------------
(* Safety of reminders and occurrences *)

\* The ways one execution can change: it is stored by a batch, goes on, ends or
\* is purged with its reminder.  It keeps the version it was stored with.
Stored(e) ==
    /\ ~Exists(e) /\ exec'[e].status = "pending" /\ UNCHANGED account
    /\ exec'[e].version = sched[e[1]].version + 1
    /\ \E w \in Workers : CommitBatch(w) /\ e[1] \in lock[w] /\ e = Occurrence(e[1])
Requeued(e) ==
    /\ Open(e) /\ exec'[e].status \in {"pending", "retrying"}
    /\ exec'[e].version = exec[e].version
    /\ ~sched[e[1]].deleted /\ UNCHANGED <<sched, account>>
Ended(e) ==
    /\ Open(e) /\ exec'[e].status \in {"delivered", "failed"}
    /\ exec'[e].version = exec[e].version
Swept(e) == Exists(e) /\ exec'[e].status = "purged" /\ sched'[e[1]] = NoSchedule("purged")

ExecutionMove(e) ==
    exec'[e] = exec[e] \/ Stored(e) \/ Requeued(e) \/ Ended(e) \/ Swept(e)

\* The ways one reminder can change: it is created, edited, fired, archived
\* (by its owner or with its account) or purged.
Created(s) ==
    /\ sched[s].status = "absent" /\ OwnerIsLive(s) /\ ~sched'[s].deleted
    /\ \E c \in Crons, t \in Stamps : sched'[s].next = NextAfter(c, t)
    /\ UNCHANGED <<exec, account>>
Written(s) ==
    /\ OwnerIsLive(s) /\ ~sched[s].deleted /\ ~sched'[s].deleted
    /\ \E q \in Requests : \E edit \in req[q].edits :
          /\ StillCurrent(edit) /\ edit.id = s /\ sched'[s].next = edit.next
          /\ sched'[s].status = edit.status /\ sched'[s].kind = edit.kind
          /\ sched'[s].cron = edit.cron
    /\ UNCHANGED <<exec, account>>
Fired(s) ==
    /\ ~sched'[s].deleted
    /\ \E w \in Workers : CommitBatch(w) /\ s \in lock[w]
Silenced(s) ==
    /\ sched'[s].deleted /\ sched'[s].next = None
    /\ \A e \in OccurrencesOf(s) : exec'[e].status \notin {"pending", "retrying"}

\* A reminder is purged together with its executions.
Removed(s) ==
    /\ sched'[s] = NoSchedule("purged")
    /\ \A e \in OccurrencesOf(s) :
          exec'[e].status \notin {"pending", "retrying", "delivered", "failed"}

\* Every change of a row gives it a new version.
Bumped(s) ==
    Present(s) /\ Present(s)' /\ sched'[s].version = sched[s].version + 1

ScheduleMove(s) ==
    \/ sched'[s] = sched[s]
    \/ Created(s)
    \/ Bumped(s) /\ (Written(s) \/ Fired(s) \/ Silenced(s))
    \/ Removed(s)
----------------------------------------------------------------------------
(* Executions *)

LEMMA CloseStatus ==
    ASSUME NEW row \in ValidExecutions, NEW status
    PROVE  Close(row, status).status = status /\ Close(row, status).version = row.version
BY Zenon DEF Close, ValidExecutions, ExecutionRows

LEMMA FailOpenMoves ==
    ASSUME RowInv, NEW E, FailOpen(E), NEW e \in Occurrences
    PROVE  /\ ExecutionMove(e)
           /\ e \in E => exec'[e].status \notin {"pending", "retrying"}
<1>1. exec[e] \in ValidExecutions
  BY DEF RowInv, TypeOK, StoreTypeOK
<1>2. CASE e \in E /\ Open(e)
  <2>1. exec'[e] = Close(exec[e], "failed")
    BY <1>2 DEF FailOpen
  <2>2. exec'[e].status = "failed" /\ exec'[e].version = exec[e].version
    BY <1>1, <2>1, CloseStatus
  <2> QED BY <1>2, <2>2 DEF ExecutionMove, Ended
<1>3. CASE ~(e \in E /\ Open(e))
  <2>1. exec'[e] = exec[e]
    BY <1>3 DEF FailOpen
  <2> QED BY <1>3, <2>1 DEF ExecutionMove, Open
<1> QED BY <1>2, <1>3

LEMMA CommitBatchStores ==
    ASSUME RowInv, NEW w \in Workers, CommitBatch(w), NEW e \in Occurrences
    PROVE  ExecutionMove(e)
<1>1. CASE \E s \in lock[w] : e = Occurrence(s) /\ ~Exists(e)
  <2>1. e[1] \in lock[w] /\ e = Occurrence(e[1]) /\ ~Exists(e)
    BY <1>1 DEF Occurrence
  <2>2. exec'[e] = NewExecution(sched[e[1]].version + 1, now[w])
    BY <1>1 DEF CommitBatch
  <2>3. exec'[e].status = "pending" /\ exec'[e].version = sched[e[1]].version + 1
    BY <2>2 DEF NewExecution
  <2>4. UNCHANGED account
    BY DEF CommitBatch
  <2> QED BY <2>1, <2>3, <2>4 DEF ExecutionMove, Stored
<1>2. CASE ~\E s \in lock[w] : e = Occurrence(s) /\ ~Exists(e)
  BY <1>2 DEF CommitBatch, ExecutionMove
<1> QED BY <1>1, <1>2

LEMMA ClaimRequeues ==
    ASSUME RowInv, NEW w \in Workers, NEW busy \in SUBSET Occurrences, NEW t \in Times,
           Claim(w, busy, t), NEW e \in Occurrences
    PROVE  ExecutionMove(e)
<1>1. PICK E \in SUBSET {x \in Occurrences : Claimable(x, t)} :
         exec' = [x \in Occurrences |-> IF x \in E THEN ClaimedRow(exec[x], w, t) ELSE exec[x]]
  BY DEF Claim
<1>2. CASE e \in E
  <2>1. Open(e) /\ ~sched[e[1]].deleted
    BY <1>2 DEF Claimable, Deliverable
  <2>2. exec[e] \in ValidExecutions
    BY DEF RowInv, TypeOK, StoreTypeOK
  <2>3. /\ ClaimedRow(exec[e], w, t).status = IF exec[e].attempts = 0 THEN "pending" ELSE "retrying"
        /\ ClaimedRow(exec[e], w, t).version = exec[e].version
    BY <2>2, Zenon DEF ClaimedRow, ValidExecutions, ExecutionRows
  <2> QED BY <1>1, <1>2, <2>1, <2>3 DEF Claim, ExecutionMove, Requeued
<1>3. CASE e \notin E
  BY <1>1, <1>3 DEF ExecutionMove
<1> QED BY <1>2, <1>3

\* A result changes its own execution only, and only an open one.
LEMMA ResultMoves ==
    ASSUME RowInv, NEW w \in Workers, NEW x \in Occurrences, NEW t \in Times,
           NEW from, NEW row, WriteResult(w, x, t, from, row),
           row.status \in {"retrying", "delivered", "failed"}, row.version = exec[x].version,
           NEW e \in Occurrences
    PROVE  ExecutionMove(e)
<1>1. CASE HoldsLease(w, x, t) /\ e = x
  <2>1. exec'[e] = row
    BY <1>1 DEF WriteResult, RowInv, TypeOK, StoreTypeOK
  <2>2. Open(e) /\ ~sched[e[1]].deleted
    BY <1>1 DEF HoldsLease, Deliverable
  <2> QED BY <2>1, <2>2 DEF ExecutionMove, Requeued, Ended, WriteResult
<1>2. CASE ~(HoldsLease(w, x, t) /\ e = x)
  BY <1>2 DEF WriteResult, ExecutionMove, RowInv, TypeOK, StoreTypeOK
<1> QED BY <1>1, <1>2

LEMMA DeliveryMoves ==
    ASSUME RowInv, NEW w \in Workers, NEW x \in Occurrences, DeliveryStep(w, x),
           NEW e \in Occurrences
    PROVE  ExecutionMove(e)
<1>1. exec[x] \in ValidExecutions
  BY DEF RowInv, TypeOK, StoreTypeOK
<1>2. CASE \/ Resolve(w, x)
           \/ \E error \in Errors \ {"none"} : ResolveFails(w, x, error)
           \/ \E t \in Times : Recheck(w, x, t)
           \/ \E r \in Receivers, answer \in Answers : Post(w, x, r, answer)
  BY <1>2 DEF Resolve, ResolveFails, Recheck, Post, storeVars, ExecutionMove
<1>3. CASE \E t \in Times : MarkDelivered(w, x, t)
  BY <1>1, <1>3, CloseStatus, ResultMoves DEF MarkDelivered
<1>4. CASE \E t \in Times : MarkFailed(w, x, t)
  BY <1>1, <1>4, CloseStatus, ResultMoves DEF MarkFailed
<1>5. CASE \E t \in Times, delay \in RetryDelays(task[w][x].attempt) :
             MarkRetrying(w, x, t, delay)
  <2>1. PICK t \in Times, delay \in RetryDelays(task[w][x].attempt) :
           MarkRetrying(w, x, t, delay)
    BY <1>5
  <2> DEFINE row == [exec[x] EXCEPT !.status = "retrying", !.next = t + delay,
                                    !.owner = NoWorker, !.expires = None]
  <2>2. row.status = "retrying" /\ row.version = exec[x].version
    BY <1>1, Zenon DEF ValidExecutions, ExecutionRows
  <2>3. WriteResult(w, x, t, "failing", row)
    BY <2>1 DEF MarkRetrying
  <2> HIDE DEF row
  <2> QED BY <2>2, <2>3, ResultMoves
<1> QED BY <1>2, <1>3, <1>4, <1>5 DEF DeliveryStep

LEMMA ExecutionMoves ==
    ASSUME RowInv, [Next]_vars, NEW e \in Occurrences
    PROVE  ExecutionMove(e)
<1>1. CASE UNCHANGED exec
  BY <1>1 DEF ExecutionMove
<1>2. CASE ApiNext
  <2>1. CASE \E s \in Schedules, t \in Stamps : Archive(s, t)
    BY <2>1, FailOpenMoves DEF Archive
  <2>2. CASE ~\E s \in Schedules, t \in Stamps : Archive(s, t)
    BY <1>1, <1>2, <2>2 DEF ApiNext, Create, ReadPatch, ReadBulk, CommitEdit, RefuseEdit,
       Subscribe, Unsubscribe, storeVars
  <2> QED BY <2>1, <2>2
<1>3. CASE WorkerNext
  <2>1. PICK w \in Workers :
           WorkerStep(w) \/ Crash(w) \/ \E x \in Occurrences : TaskDies(w, x)
    BY <1>3 DEF WorkerNext
  <2>2. CASE CommitBatch(w)
    BY <2>2, CommitBatchStores
  <2>3. CASE \E busy \in SUBSET Occurrences, t \in Times : Claim(w, busy, t)
    BY <2>3, ClaimRequeues
  <2>4. CASE \E x \in Occurrences : DeliveryStep(w, x)
    BY <2>4, DeliveryMoves
  <2>5. CASE \E S \in SUBSET Schedules, t \in Times : Purge(w, S, t)
    <3>1. \/ exec'[e] = exec[e]
          \/ /\ exec'[e] = NoExecution("purged") /\ Exists(e)
             /\ sched'[e[1]] = NoSchedule("purged")
      BY <2>5 DEF Purge, Occurrences
    <3> QED BY <3>1 DEF ExecutionMove, Swept, NoExecution
  <2>6. CASE \/ \E busy \in SUBSET Schedules, t \in Times : LockDue(w, busy, t)
             \/ AbortBatch(w) \/ Drained(w) \/ Crash(w) \/ \E x \in Occurrences : TaskDies(w, x)
    BY <1>1, <2>6 DEF LockDue, AbortBatch, Drained, Crash, TaskDies, storeVars
  <2> QED BY <2>1, <2>2, <2>3, <2>4, <2>5, <2>6 DEF WorkerStep
<1>4. CASE LifecycleNext
  BY <1>1, <1>4, FailOpenMoves DEF LifecycleNext, Suspend, SignIn, DeleteAccount
<1>5. CASE Tick \/ UNCHANGED vars
  BY <1>1, <1>5 DEF Tick, vars, storeVars
<1> QED BY <1>2, <1>3, <1>4, <1>5 DEF Next

\* A delivered or failed execution stays as it is until it is purged.
THEOREM ClosedForGood == Spec => ClosedStaysClosed
<1>1. ASSUME RowInv, [Next]_vars, NEW e \in Occurrences, Closed(e)
      PROVE  exec'[e] = exec[e] \/ exec'[e].status = "purged"
  BY <1>1, ExecutionMoves DEF ExecutionMove, Stored, Requeued, Ended, Swept, Exists, Open, Closed
<1>2. RowInv /\ [Next]_vars =>
        \A e \in Occurrences : Closed(e) => exec'[e] = exec[e] \/ exec'[e].status = "purged"
  BY <1>1
<1> QED BY <1>2, RowsAreSound, PTL DEF Spec, ClosedStaysClosed
----------------------------------------------------------------------------
(* Reminders *)

LEMMA ArchivedRow ==
    ASSUME NEW row \in ValidSchedules, NEW t
    PROVE  /\ Archived(row, t).deleted
           /\ Archived(row, t).next = None
           /\ Archived(row, t).version = row.version + 1
           /\ Archived(row, t).status = row.status
BY Zenon DEF Archived, ValidSchedules, ScheduleRows

LEMMA CreateMoves ==
    ASSUME RowInv, NEW x \in Schedules, NEW kind, NEW cron \in Crons, NEW t \in Stamps,
           Create(x, kind, cron, t), NEW s \in Schedules
    PROVE  ScheduleMove(s)
<1>1. CASE s = x
  BY <1>1 DEF Create, RowInv, TypeOK, StoreTypeOK, ScheduleMove, Created
<1>2. CASE s # x
  BY <1>2 DEF Create, RowInv, TypeOK, StoreTypeOK, ScheduleMove
<1> QED BY <1>1, <1>2

LEMMA CommitEditMoves ==
    ASSUME RowInv, NEW q \in Requests, CommitEdit(q), NEW s \in Schedules
    PROVE  ScheduleMove(s)
<1>1. CASE sched'[s] = sched[s]
  BY <1>1 DEF ScheduleMove
<1>2. CASE \E edit \in req[q].edits :
             /\ edit \in Edits /\ edit.id = s
             /\ ~Locked(s) /\ StillCurrent(edit)
             /\ sched'[s] = Edited(sched[s], edit)
  <2>1. PICK edit \in req[q].edits :
             /\ edit \in Edits /\ edit.id = s /\ StillCurrent(edit)
             /\ sched'[s] = Edited(sched[s], edit)
    BY <1>2
  <2>2. OwnerIsLive(s) /\ ~sched[s].deleted /\ UNCHANGED <<exec, account>> /\ Present(s)
    BY <2>1 DEF CommitEdit, StillCurrent
  <2>3. sched[s] \in ValidSchedules
    BY DEF RowInv, TypeOK, StoreTypeOK
  <2>4. /\ sched'[s].deleted = sched[s].deleted
        /\ sched'[s].next = edit.next
        /\ sched'[s].version = sched[s].version + 1
        /\ sched'[s].status = edit.status /\ sched'[s].kind = edit.kind
        /\ sched'[s].cron = edit.cron
    BY <2>1, <2>3, Zenon DEF Edited, ValidSchedules, ScheduleRows
  <2>5. edit.status \notin {"absent", "purged"}
    BY <2>1 DEF Edits
  <2> QED BY <2>1, <2>2, <2>4, <2>5 DEF ScheduleMove, Written, Bumped, Present
<1> QED BY <1>1, <1>2, CommittedRows DEF RowInv, TypeOK

LEMMA ArchiveMoves ==
    ASSUME RowInv, NEW x \in Schedules, NEW t, Archive(x, t), NEW s \in Schedules
    PROVE  ScheduleMove(s)
<1>1. CASE sched'[s] = sched[s]
  BY <1>1 DEF ScheduleMove
<1>2. CASE sched'[s] # sched[s]
  <2>1. s = x /\ sched'[s] = Archived(sched[s], t) /\ Present(s)
    BY <1>2 DEF Archive, RowInv, TypeOK, StoreTypeOK
  <2>2. \A e \in OccurrencesOf(s) : exec'[e].status \notin {"pending", "retrying"}
    BY <2>1, FailOpenMoves DEF Archive, OccurrencesOf
  <2>3. /\ sched'[s].deleted /\ sched'[s].next = None
        /\ sched'[s].version = sched[s].version + 1 /\ sched'[s].status = sched[s].status
    BY <2>1, ArchivedRow DEF RowInv, TypeOK, StoreTypeOK
  <2> QED BY <2>1, <2>2, <2>3 DEF ScheduleMove, Silenced, Bumped, Present
<1> QED BY <1>1, <1>2

LEMMA AdvancedRow ==
    ASSUME NEW row \in ValidSchedules, NEW t, row.status = "active"
    PROVE  /\ Advanced(row, t).deleted = row.deleted
           /\ Advanced(row, t).version = row.version + 1
           /\ Advanced(row, t).status \notin {"absent", "purged"}
           /\ Advanced(row, t).next = IF row.kind = "one_time" THEN None
                                                               ELSE NextAfter(row.cron, t)
<1>1. CASE row.kind = "one_time"
  <2>1. Advanced(row, t) = [row EXCEPT !.status = "completed", !.next = None,
                                      !.version = @ + 1, !.purge = t + Retention]
    BY <1>1 DEF Advanced
  <2>2. /\ Advanced(row, t).deleted = row.deleted
        /\ Advanced(row, t).version = row.version + 1
        /\ Advanced(row, t).status = "completed"
        /\ Advanced(row, t).next = None
    BY <2>1, Zenon DEF ValidSchedules, ScheduleRows
  <2> QED BY <1>1, <2>2
<1>2. CASE row.kind # "one_time"
  <2>1. Advanced(row, t) = [row EXCEPT !.next = NextAfter(row.cron, t), !.version = @ + 1]
    BY <1>2 DEF Advanced
  <2>2. /\ Advanced(row, t).deleted = row.deleted
        /\ Advanced(row, t).version = row.version + 1
        /\ Advanced(row, t).status = row.status
        /\ Advanced(row, t).next = NextAfter(row.cron, t)
    BY <2>1, Zenon DEF ValidSchedules, ScheduleRows
  <2> QED BY <1>2, <2>2
<1> QED BY <1>1, <1>2

LEMMA CommitBatchMoves ==
    ASSUME RowInv, NEW w \in Workers, CommitBatch(w), NEW s \in Schedules
    PROVE  ScheduleMove(s)
<1>1. CASE s \in lock[w]
  <2>1. sched[s] \in ValidSchedules /\ ~sched[s].deleted /\ sched[s].status = "active"
    BY <1>1 DEF RowInv, TypeOK, StoreTypeOK, LocksHold
  <2>2. sched'[s] = Advanced(sched[s], now[w])
    BY <1>1 DEF CommitBatch
  <2>3. Bumped(s) /\ ~sched'[s].deleted
    BY <2>1, <2>2, AdvancedRow DEF Bumped, Present
  <2> QED BY <1>1, <2>3 DEF ScheduleMove, Fired
<1>2. CASE s \notin lock[w]
  BY <1>2 DEF CommitBatch, ScheduleMove
<1> QED BY <1>1, <1>2

LEMMA DeleteAccountMoves ==
    ASSUME RowInv, NEW a \in Accounts, DeleteAccount(a), NEW s \in Schedules
    PROVE  ScheduleMove(s)
<1>1. CASE s \in ToArchive(a)
  <2>1. sched'[s] = Archived(sched[s], clock) /\ Present(s)
    BY <1>1 DEF DeleteAccount, ToArchive
  <2>2. /\ sched'[s].deleted /\ sched'[s].next = None
        /\ sched'[s].version = sched[s].version + 1 /\ sched'[s].status = sched[s].status
    BY <2>1, ArchivedRow DEF RowInv, TypeOK, StoreTypeOK
  <2>3. OccurrencesOf(s) \subseteq OwnedExecutions(a)
    BY <1>1 DEF ToArchive, OwnedBy, OccurrencesOf, OwnedExecutions
  <2>4. \A e \in OccurrencesOf(s) : exec'[e].status \notin {"pending", "retrying"}
    BY <2>3, FailOpenMoves DEF DeleteAccount, OccurrencesOf
  <2> QED BY <2>1, <2>2, <2>4 DEF ScheduleMove, Silenced, Bumped, Present
<1>2. CASE s \notin ToArchive(a)
  BY <1>2 DEF DeleteAccount, ScheduleMove
<1> QED BY <1>1, <1>2

LEMMA ScheduleMoves ==
    ASSUME RowInv, [Next]_vars, NEW s \in Schedules
    PROVE  ScheduleMove(s)
<1>1. CASE UNCHANGED sched
  BY <1>1 DEF ScheduleMove
<1>2. CASE ApiNext
  <2>1. CASE \E x \in Schedules, k \in Kinds, c \in Crons, t \in Stamps : Create(x, k, c, t)
    BY <2>1, CreateMoves
  <2>2. CASE \E q \in Requests : CommitEdit(q)
    BY <2>2, CommitEditMoves
  <2>3. CASE \E x \in Schedules, t \in Stamps : Archive(x, t)
    BY <2>3, ArchiveMoves
  <2> QED BY <1>1, <1>2, <2>1, <2>2, <2>3 DEF ApiNext, ReadPatch, ReadBulk, RefuseEdit,
       Subscribe, Unsubscribe, storeVars
<1>3. CASE WorkerNext
  <2>1. PICK w \in Workers :
           WorkerStep(w) \/ Crash(w) \/ \E x \in Occurrences : TaskDies(w, x)
    BY <1>3 DEF WorkerNext
  <2>2. CASE CommitBatch(w)
    BY <2>2, CommitBatchMoves
  <2>3. CASE \E S \in SUBSET Schedules, t \in Times : Purge(w, S, t)
    <3>1. PICK S \in SUBSET Schedules :
             /\ sched' = [x \in Schedules |-> IF x \in S THEN NoSchedule("purged") ELSE sched[x]]
             /\ exec' = [e \in Occurrences |->
                   IF e[1] \in S /\ Exists(e) THEN NoExecution("purged") ELSE exec[e]]
      BY <2>3 DEF Purge
    <3>2. CASE s \in S
      BY <3>1, <3>2 DEF ScheduleMove, Removed, OccurrencesOf, NoExecution, Exists, Open, Closed
    <3>3. CASE s \notin S
      BY <3>1, <3>3 DEF ScheduleMove
    <3> QED BY <3>2, <3>3
  <2>4. CASE \E x \in Occurrences : DeliveryStep(w, x)
    BY <1>1, <2>4 DEF DeliveryStep, Resolve, ResolveFails, Recheck, Post, MarkDelivered,
       MarkRetrying, MarkFailed, WriteResult, storeVars
  <2>5. CASE \/ \E busy \in SUBSET Schedules, t \in Times : LockDue(w, busy, t)
             \/ \E busy \in SUBSET Occurrences, t \in Times : Claim(w, busy, t)
             \/ AbortBatch(w) \/ Drained(w) \/ Crash(w) \/ \E x \in Occurrences : TaskDies(w, x)
    BY <1>1, <2>5 DEF LockDue, Claim, AbortBatch, Drained, Crash, TaskDies, storeVars
  <2> QED BY <2>1, <2>2, <2>3, <2>4, <2>5 DEF WorkerStep
<1>4. CASE LifecycleNext
  BY <1>1, <1>4, DeleteAccountMoves DEF LifecycleNext, Suspend, SignIn
<1>5. CASE Tick \/ UNCHANGED vars
  BY <1>1, <1>5 DEF Tick, vars, storeVars
<1> QED BY <1>2, <1>3, <1>4, <1>5 DEF Next

LEMMA ArchivedIsQuietStep ==
    ASSUME RowInv, ArchivedIsQuiet, [Next]_vars
    PROVE  ArchivedIsQuiet'
<1> SUFFICES ASSUME NEW s \in Schedules, sched'[s].deleted
             PROVE  sched'[s].next = None
                    /\ \A e \in OccurrencesOf(s) : exec'[e].status \notin {"pending", "retrying"}
  BY DEF ArchivedIsQuiet, Open, OccurrencesOf
<1>1. CASE Silenced(s)
  BY <1>1 DEF Silenced
<1>2. CASE ~Silenced(s)
  <2>1. ~NoSchedule("purged").deleted
    BY DEF NoSchedule
  <2>2. sched'[s] = sched[s]
    BY <1>2, <2>1, ScheduleMoves DEF ScheduleMove, Created, Written, Fired, Removed
  <2>3. \A e \in OccurrencesOf(s) : e \in Occurrences /\ e[1] = s /\ ~Open(e)
    BY <2>2 DEF ArchivedIsQuiet, OccurrencesOf
  <2>4. \A e \in OccurrencesOf(s) : exec'[e].status \notin {"pending", "retrying"}
    <3> TAKE e \in OccurrencesOf(s)
    <3>1. ~Stored(e)
      BY <2>2, <2>3 DEF Stored, RowInv, LocksHold
    <3> QED BY <2>3, <3>1, ExecutionMoves DEF ExecutionMove, Requeued, Ended, Swept, Open
  <2> QED BY <2>2, <2>4 DEF ArchivedIsQuiet
<1> QED BY <1>1, <1>2

\* An archived reminder never fires again and none of its executions is ever
\* sent, whatever batch was in flight when it was archived.
THEOREM ArchivedForGood == Spec => []ArchivedIsQuiet
<1>1. Init => ArchivedIsQuiet
  BY DEF Init, StoreInit, ArchivedIsQuiet, NoSchedule
<1>2. RowInv /\ ArchivedIsQuiet /\ [Next]_vars => ArchivedIsQuiet'
  BY ArchivedIsQuietStep
<1> QED BY <1>1, <1>2, RowsAreSound, PTL DEF Spec
=============================================================================
