---------------------------- MODULE DeliveryProofs ----------------------------
(***************************************************************************)
(* Occurrences and their delivery for every instance of Remind.            *)
(*                                                                         *)
(* Whatever the lag of the clock reads, a reminder is sent back to an      *)
(* occurrence that exists by an edit alone and by less than the lag, an    *)
(* edit skips none, leases exclude one another, a retry has attempts left, *)
(* an execution closes as delivered only after everyone it is owed to has  *)
(* got it, a deleted account is quiet, and the tables implement Outbox.    *)
(* Attempts keep their distance, those beyond the maximum follow lost      *)
(* leases only, and no open execution is left where none can claim it.     *)
(***************************************************************************)
EXTENDS RemindProofs
----------------------------------------------------------------------------
(* Occurrences *)

\* Every occurrence of s that exists lies before n or after it by less than the
\* age a clock read may have: where handlers use the clock when they read it
\* (Lag = 0), all of them lie before n.
Near(s, n) ==
    n # None => \A e \in OccurrencesOf(s) : Exists(e) => e[2] < n + Lag

\* No occurrence lies in the future, and no worker works for the future.
NothingEarly ==
    /\ \A e \in Occurrences : Exists(e) => e[2] <= clock
    /\ \A w \in Workers : now[w] <= clock

NextIsNear == \A s \in Schedules : Near(s, sched[s].next)

\* An edit in flight was computed from a version the row has had; while it is
\* the row's version, the edit's next run is near too.
EditsAreNear ==
    \A q \in Requests : \A edit \in req[q].edits :
        /\ sched[edit.id].status # "absent"
        /\ Present(edit.id) => edit.expected <= sched[edit.id].version
        /\ StillCurrent(edit) => Near(edit.id, edit.next)

\* An execution has a reminder, and no later version than the reminder's.
VersionsFollow ==
    \A e \in Occurrences : Exists(e) =>
        Present(e[1]) /\ exec[e].version <= sched[e[1]].version

\* An occurrence that the next run has not left behind is of an older version.
LeftIsOlder ==
    \A s \in Schedules : sched[s].next # None =>
        \A e \in OccurrencesOf(s) :
            Exists(e) /\ e[2] >= sched[s].next => exec[e].version < sched[s].version

OccurrenceInv ==
    RowInv /\ NothingEarly /\ NextIsNear /\ EditsAreNear /\ VersionsFollow /\ LeftIsOlder
----------------------------------------------------------------------------
(* The clock, the workers' instants and the requests in one step *)

\* Time does not go back.
LEMMA ClockMoves ==
    ASSUME RowInv, [Next]_vars
    PROVE  /\ clock' \in Times /\ clock \in Times /\ clock <= clock'
           /\ \A w \in Workers : now'[w] \in {now[w], 0} \cup Stamps
<1>1. clock \in Times /\ clock' \in Times
  BY NextRowInv DEF RowInv, TypeOK, StoreTypeOK
<1>2. CASE Tick /\ UNCHANGED <<apiVars, workerVars>>
  BY <1>1, <1>2, TimesAreNat DEF Tick, workerVars
<1>3. CASE ApiNext /\ UNCHANGED workerVars
  <2>1. UNCHANGED clock
    BY <1>3 DEF ApiNext, Create, ReadPatch, ReadBulk, CommitEdit, RefuseEdit, Archive,
       Subscribe, Unsubscribe, storeVars
  <2> QED BY <1>1, <1>3, <2>1, TimesAreNat DEF workerVars
<1>4. CASE LifecycleNext /\ UNCHANGED <<apiVars, workerVars>>
  <2>1. UNCHANGED clock
    BY <1>4 DEF LifecycleNext, Suspend, SignIn, DeleteAccount
  <2> QED BY <1>1, <1>4, <2>1, TimesAreNat DEF workerVars
<1>5. CASE WorkerNext
  <2>1. PICK w \in Workers :
           WorkerStep(w) \/ Crash(w) \/ \E x \in Occurrences : TaskDies(w, x)
    BY <1>5 DEF WorkerNext
  <2>2. CASE \E busy \in SUBSET Schedules, t \in Times : LockDue(w, busy, t)
    <3>1. UNCHANGED clock /\ \E t \in Stamps : now' = [now EXCEPT ![w] = t]
      BY <2>2 DEF LockDue
    <3> QED BY <1>1, <3>1, TimesAreNat DEF RowInv, TypeOK, WorkerTypeOK
  <2>3. CASE CommitBatch(w) \/ AbortBatch(w) \/ Crash(w)
    <3>1. UNCHANGED clock /\ now' = [now EXCEPT ![w] = 0]
      BY <2>3 DEF CommitBatch, AbortBatch, Crash
    <3> QED BY <1>1, <3>1, TimesAreNat DEF RowInv, TypeOK, WorkerTypeOK
  <2>4. CASE \/ \E busy \in SUBSET Occurrences, t \in Times : Claim(w, busy, t)
             \/ Drained(w)
             \/ \E S \in SUBSET Schedules, t \in Times : Purge(w, S, t)
             \/ \E x \in Occurrences : TaskDies(w, x)
    <3>1. UNCHANGED <<clock, now>>
      BY <2>4 DEF Claim, Drained, Purge, TaskDies, storeVars
    <3> QED BY <1>1, <3>1, TimesAreNat
  <2>5. CASE \E x \in Occurrences : DeliveryStep(w, x)
    <3>1. UNCHANGED <<clock, now>>
      BY <2>5 DEF DeliveryStep, Resolve, ResolveFails, Recheck, Post, MarkDelivered,
         MarkRetrying, MarkFailed, WriteResult, TaskStep, storeVars
    <3> QED BY <1>1, <3>1, TimesAreNat
  <2> QED BY <2>1, <2>2, <2>3, <2>4, <2>5 DEF WorkerStep
<1>6. CASE UNCHANGED vars
  BY <1>1, <1>6, TimesAreNat DEF vars, storeVars, workerVars
<1> QED BY <1>2, <1>3, <1>4, <1>5, <1>6 DEF Next

\* An edit that keeps an active reminder's timing proposes the next run it has.
KeepsNext(edit) ==
    /\ edit.status = "active" /\ sched[edit.id].status = "active"
    /\ edit.kind = sched[edit.id].kind /\ edit.cron = sched[edit.id].cron
    => edit.next = sched[edit.id].next

\* What a read gives an edit.
Computed(edit) ==
    /\ Editable(edit.id) /\ edit.expected = sched[edit.id].version
    /\ KeepsNext(edit)
    /\ \/ edit.next = None
       \/ edit.next = sched[edit.id].next
       \/ \E c \in Crons, t \in Stamps : edit.next = NextAfter(c, t)

\* What an edit of a current reminder holds.
LEMMA EditOfComputed ==
    ASSUME NEW s \in Schedules, NEW status \in {"active", "paused"}, NEW kind \in Kinds,
           NEW cron \in Crons, NEW t \in Stamps, Editable(s)
    PROVE  Computed(EditOf(s, status, kind, cron, t))
<1> DEFINE edit == EditOf(s, status, kind, cron, t)
<1>1. /\ edit.id = s /\ edit.expected = sched[s].version
      /\ edit.next = NextOnEdit(sched[s], status, kind, cron, t)
  BY DEF EditOf
<1>2. edit.next \in {None, sched[s].next, NextAfter(cron, t)}
  BY <1>1 DEF NextOnEdit
<1>3. KeepsNext(edit)
  BY <1>1 DEF KeepsNext, EditOf, NextOnEdit
<1> HIDE DEF edit
<1>4. Computed(edit)
  BY <1>1, <1>2, <1>3 DEF Computed
<1> QED BY <1>4 DEF edit

\* How a step changes the edits in flight.
LEMMA RequestMoves ==
    ASSUME RowInv, [Next]_vars, NEW q \in Requests
    PROVE  \/ req'[q].edits \subseteq req[q].edits
           \/ UNCHANGED storeVars /\ \A edit \in req'[q].edits : Computed(edit)
<1>1. CASE UNCHANGED req
  BY <1>1
<1>2. CASE ApiNext
  <2>1. CASE \E p \in Requests, s \in Schedules, st \in {"active", "paused"}, k \in Kinds,
                c \in Crons, t \in Stamps : ReadPatch(p, s, st, k, c, t)
    <3>1. PICK p \in Requests, s \in Schedules, st \in {"active", "paused"}, k \in Kinds,
               c \in Crons, t \in Stamps : ReadPatch(p, s, st, k, c, t)
      BY <2>1
    <3>2. Computed(EditOf(s, st, k, c, t))
      BY <3>1, EditOfComputed DEF ReadPatch
    <3>3. /\ UNCHANGED storeVars
          /\ req' = [req EXCEPT ![p] = [pc |-> "read", bulk |-> FALSE,
                                        edits |-> {EditOf(s, st, k, c, t)}]]
      BY <3>1 DEF ReadPatch
    <3> QED BY <3>2, <3>3 DEF RowInv, TypeOK, ApiTypeOK
  <2>2. CASE \E p \in Requests, S \in SUBSET Schedules \ {{}}, st \in {"active", "paused"},
                t \in Stamps : SameOwner(S) /\ ReadBulk(p, S, st, t)
    <3>1. PICK p \in Requests, S \in SUBSET Schedules, st \in {"active", "paused"},
               t \in Stamps : ReadBulk(p, S, st, t)
      BY <2>2
    <3> DEFINE edits == {EditOf(s, st, sched[s].kind, sched[s].cron, t) : s \in S}
    <3>2. \A s \in S : sched[s].kind \in Kinds /\ sched[s].cron \in Crons
      BY DEF RowInv, TypeOK, StoreTypeOK, ValidSchedules, ScheduleRows
    <3>3. \A edit \in edits : Computed(edit)
      BY <3>1, <3>2, EditOfComputed DEF ReadBulk
    <3>4. /\ UNCHANGED storeVars
          /\ req' = [req EXCEPT ![p] = [pc |-> "read", bulk |-> TRUE, edits |-> edits]]
      BY <3>1 DEF ReadBulk
    <3> HIDE DEF edits
    <3> QED BY <3>3, <3>4 DEF RowInv, TypeOK, ApiTypeOK
  <2>3. CASE \E p \in Requests : CommitEdit(p) \/ RefuseEdit(p)
    <3>1. PICK p \in Requests : req' = [req EXCEPT ![p] = Served]
      BY <2>3 DEF CommitEdit, RefuseEdit
    <3>2. Served.edits = {}
      BY DEF Served
    <3> QED BY <3>1, <3>2 DEF RowInv, TypeOK, ApiTypeOK
  <2>4. CASE \/ \E s \in Schedules, k \in Kinds, c \in Crons, t \in Stamps : Create(s, k, c, t)
             \/ \E s \in Schedules, t \in Stamps : Archive(s, t)
             \/ \E r \in Receivers : Subscribe(r) \/ Unsubscribe(r)
    BY <1>1, <2>4 DEF Create, Archive, Subscribe, Unsubscribe
  <2> QED BY <1>2, <2>1, <2>2, <2>3, <2>4 DEF ApiNext
<1>3. CASE ~ApiNext
  BY <1>1, <1>3 DEF Next, vars, apiVars
<1> QED BY <1>2, <1>3
----------------------------------------------------------------------------
(* Every step preserves OccurrenceInv *)

\* An occurrence is a reminder and an instant.
LEMMA OccurrenceTypes ==
    ASSUME NEW e \in Occurrences
    PROVE  e[1] \in Schedules /\ e[2] \in Nat /\ e \in OccurrencesOf(e[1])
BY StoreAssumption DEF Occurrences, OccurrencesOf, Times

\* The instants that a handler uses are at most Lag old.
LEMMA StampsAreRecent ==
    ASSUME NEW t \in Stamps
    PROVE  t \in Times /\ t <= clock /\ clock - t <= Lag
BY DEF Stamps

\* A stored occurrence is the due run of a reminder its batch has locked.
LEMMA StoredIsDue ==
    ASSUME RowInv, NothingEarly, NEW e \in Occurrences, Stored(e)
    PROVE  /\ Locked(e[1]) /\ e[2] = sched[e[1]].next
           /\ \E w \in Workers : CommitBatch(w) /\ e[1] \in lock[w] /\ e[2] <= now[w]
           /\ e[2] <= clock
<1>1. PICK w \in Workers : CommitBatch(w) /\ e[1] \in lock[w] /\ e = Occurrence(e[1])
  BY DEF Stored
<1>2. e[2] = sched[e[1]].next
  BY <1>1 DEF Occurrence
<1>3. e[2] <= now[w]
  BY <1>1, <1>2 DEF RowInv, LocksHold
<1>4. now[w] \in Nat /\ clock \in Nat /\ now[w] <= clock /\ e[2] \in Nat
  BY TimesAreNat, OccurrenceTypes
     DEF RowInv, TypeOK, StoreTypeOK, WorkerTypeOK, NothingEarly
<1> QED BY <1>1, <1>2, <1>3, <1>4 DEF Locked

\* An occurrence that exists after a step existed before, or was stored by it.
LEMMA ExistsBefore ==
    ASSUME RowInv, [Next]_vars, NEW e \in Occurrences, Exists(e)'
    PROVE  Exists(e) \/ Stored(e)
BY ExecutionMoves DEF ExecutionMove, Requeued, Ended, Swept, Exists, Open, Closed

\* Only a batch stores occurrences, and it stores what is due.
LEMMA NothingEarlyStep ==
    ASSUME RowInv, NothingEarly, [Next]_vars
    PROVE  NothingEarly'
<1>1. clock \in Nat /\ clock' \in Nat /\ clock <= clock'
  BY ClockMoves, TimesAreNat
<1>2. \A e \in Occurrences : Exists(e)' => e[2] <= clock'
  <2> SUFFICES ASSUME NEW e \in Occurrences, Exists(e)' PROVE e[2] <= clock'
    OBVIOUS
  <2>1. e[2] \in Nat /\ e[2] <= clock
    BY ExistsBefore, StoredIsDue, OccurrenceTypes DEF NothingEarly
  <2> QED BY <1>1, <2>1
<1>3. \A w \in Workers : now'[w] <= clock'
  <2> TAKE w \in Workers
  <2>1. now[w] <= clock /\ now[w] \in Nat
    BY TimesAreNat DEF NothingEarly, RowInv, TypeOK, WorkerTypeOK
  <2>2. \A t \in Stamps : t \in Nat /\ t <= clock
    BY TimesAreNat DEF Stamps
  <2> QED BY <1>1, <2>1, <2>2, ClockMoves
<1> QED BY <1>2, <1>3 DEF NothingEarly

\* An instant after a clock read is near: nothing lies beyond the clock.
LEMMA LaterIsNear ==
    ASSUME OccurrenceInv, NEW s \in Schedules, NEW t \in Stamps, NEW n \in Nat, n > t
    PROVE  Near(s, n)
<1> SUFFICES ASSUME NEW e \in OccurrencesOf(s), Exists(e) PROVE e[2] < n + Lag
  BY DEF Near
<1>1. e \in Occurrences /\ e[2] <= clock
  BY DEF OccurrencesOf, OccurrenceInv, NothingEarly
<1>2. clock \in Nat /\ e[2] \in Nat /\ t \in Nat /\ Lag \in Nat
  BY <1>1, OccurrenceTypes, StampsAreRecent, TimesAreNat, StoreAssumption
     DEF OccurrenceInv, RowInv, TypeOK, StoreTypeOK
<1>3. clock - t <= Lag
  BY StampsAreRecent
<1> QED BY <1>1, <1>2, <1>3

\* Only a reminder that fires gets an occurrence.
LEMMA StoredFires ==
    ASSUME RowInv, [Next]_vars, NEW s \in Schedules, ~Fired(s),
           NEW e \in OccurrencesOf(s), Exists(e)'
    PROVE  Exists(e) /\ exec'[e].version = exec[e].version
<1>1. e \in Occurrences /\ e[1] = s
  BY DEF OccurrencesOf
<1>2. ~Stored(e)
  <2> SUFFICES ASSUME NEW w \in Workers, CommitBatch(w), s \in lock[w] PROVE FALSE
    BY <1>1 DEF Stored
  <2>1. sched[s] \in ValidSchedules /\ ~sched[s].deleted /\ sched[s].status = "active"
    BY DEF RowInv, TypeOK, StoreTypeOK, LocksHold
  <2>2. sched'[s] = Advanced(sched[s], now[w])
    BY DEF CommitBatch
  <2> QED BY <2>1, <2>2, AdvancedRow DEF Fired
<1> QED BY <1>1, <1>2, ExecutionMoves
        DEF ExecutionMove, Requeued, Ended, Swept, Exists, Open, Closed

\* Whatever is near stays near, unless its reminder fires.
LEMMA NearKept ==
    ASSUME OccurrenceInv, [Next]_vars, NEW s \in Schedules, NEW n, Near(s, n), ~Fired(s)
    PROVE  Near(s, n)'
<1> SUFFICES ASSUME n # None, NEW e \in OccurrencesOf(s), Exists(e)' PROVE e[2] < n + Lag
  BY DEF Near, OccurrencesOf
<1> QED BY StoredFires DEF Near, OccurrenceInv

\* The next match of a cron expression is one of its instants.
LEMMA NextAfterFires ==
    ASSUME NEW c \in Crons, NEW t \in Times
    PROVE  NextAfter(c, t) \in Instants
BY NextAfterIsLater DEF Instants

\* A reminder that fires gets a new version and its next run, if any, is after
\* the instant the batch works for.
LEMMA FiredRow ==
    ASSUME RowInv, NEW s \in Schedules, NEW w \in Workers, CommitBatch(w), s \in lock[w]
    PROVE  /\ sched'[s].version = sched[s].version + 1
           /\ sched[s].next <= now[w] /\ now[w] \in Nat /\ sched[s].next \in Nat
           /\ sched'[s].next # None =>
                 /\ sched'[s].next \in Nat /\ sched'[s].next > now[w]
                 /\ sched'[s].next \in Instants
<1>1. /\ sched[s] \in ValidSchedules /\ sched[s].status = "active"
      /\ sched[s].next # None /\ sched[s].next <= now[w] /\ now[w] \in Times
  BY DEF RowInv, TypeOK, StoreTypeOK, WorkerTypeOK, LocksHold
<1>2. sched[s].cron \in Crons /\ sched[s].next \in Nat
  BY <1>1 DEF ValidSchedules, ScheduleRows
<1>3. /\ NextAfter(sched[s].cron, now[w]) \in Nat /\ NextAfter(sched[s].cron, now[w]) > now[w]
      /\ NextAfter(sched[s].cron, now[w]) \in Instants
  BY <1>1, <1>2, NextAfterIsLater, NextAfterFires
<1>4. sched'[s] = Advanced(sched[s], now[w])
  BY DEF CommitBatch
<1>5. /\ sched'[s].version = sched[s].version + 1
      /\ sched'[s].next = IF sched[s].kind = "one_time" THEN None
                          ELSE NextAfter(sched[s].cron, now[w])
  BY <1>1, <1>4, AdvancedRow
<1> QED BY <1>1, <1>2, <1>3, <1>5, TimesAreNat

\* No occurrence lies after a next run by the lag or more, whoever sets it.
LEMMA NextIsNearStep ==
    ASSUME OccurrenceInv, [Next]_vars
    PROVE  NextIsNear'
<1> SUFFICES ASSUME NEW s \in Schedules, NEW n, n = sched'[s].next PROVE Near(s, n)'
  BY DEF NextIsNear, Near
<1> USE DEF OccurrenceInv
<1>1. CASE Fired(s)
  <2>1. PICK w \in Workers : CommitBatch(w) /\ s \in lock[w]
    BY <1>1 DEF Fired
  <2> SUFFICES ASSUME n # None, NEW e \in OccurrencesOf(s), Exists(e)' PROVE e[2] < n + Lag
    BY DEF Near, OccurrencesOf
  <2>2. e \in Occurrences /\ e[1] = s /\ e[2] \in Nat
    BY OccurrenceTypes DEF OccurrencesOf
  <2>3. /\ sched[s].next <= now[w] /\ now[w] \in Nat /\ sched[s].next \in Nat
        /\ n \in Nat /\ n > now[w]
    BY <2>1, FiredRow
  <2>4. e[2] <= sched[s].next + Lag /\ Lag \in Nat
    <3>1. CASE Stored(e)
      BY <2>2, <2>3, <3>1, StoredIsDue, StoreAssumption
    <3>2. CASE Exists(e)
      BY <2>2, <2>3, <3>2, TimesAreNat, StoreAssumption DEF NextIsNear, Near
    <3> QED BY <2>2, <3>1, <3>2, ExistsBefore
  <2> QED BY <2>2, <2>3, <2>4
<1>2. CASE ~Fired(s)
  <2>1. CASE n = None
    BY <2>1 DEF Near
  <2>2. CASE sched'[s] = sched[s]
    BY <1>2, <2>2, NearKept DEF NextIsNear
  <2>3. CASE Created(s)
    <3>1. PICK c \in Crons, t \in Stamps : n = NextAfter(c, t)
      BY <2>3 DEF Created
    <3>2. n \in Nat /\ n > t
      BY <3>1, StampsAreTimes, NextAfterIsLater
    <3> QED BY <1>2, <3>2, LaterIsNear, NearKept
  <2>4. CASE Written(s)
    <3>1. Near(s, n)
      BY <2>4 DEF Written, EditsAreNear
    <3> QED BY <1>2, <3>1, NearKept
  <2>5. CASE sched'[s] = NoSchedule("purged")
    BY <2>1, <2>5 DEF NoSchedule
  <2> QED BY <1>2, <2>1, <2>2, <2>3, <2>4, <2>5, ScheduleMoves DEF ScheduleMove, Silenced, Removed
<1> QED BY <1>1, <1>2

\* An edit that was in flight before the step.
LEMMA OldEditStep ==
    ASSUME OccurrenceInv, [Next]_vars, NEW q \in Requests, NEW edit \in req[q].edits
    PROVE  /\ sched'[edit.id].status # "absent"
           /\ Present(edit.id)' => edit.expected <= sched'[edit.id].version
           /\ StillCurrent(edit)' => Near(edit.id, edit.next)'
<1> USE DEF OccurrenceInv
<1> DEFINE s == edit.id
<1>1. s \in Schedules /\ edit.expected \in Nat
  BY DEF RowInv, TypeOK, ApiTypeOK, Edits
<1>2. sched[s].version \in Nat
  BY <1>1 DEF RowInv, TypeOK, StoreTypeOK, ValidSchedules, ScheduleRows
<1>3. /\ sched[s].status # "absent"
      /\ Present(s) => edit.expected <= sched[s].version
      /\ StillCurrent(edit) => Near(s, edit.next)
  BY DEF EditsAreNear
<1>4. CASE sched'[s] = sched[s]
  <2>1. ~Fired(s)
    BY <1>1, <1>2, <1>4, FiredRow DEF Fired
  <2>2. StillCurrent(edit)' => StillCurrent(edit)
    BY <1>4 DEF StillCurrent, Present
  <2>3. StillCurrent(edit)' => Near(s, edit.next)'
    BY <1>1, <1>3, <2>1, <2>2, NearKept
  <2> QED BY <1>3, <1>4, <2>3 DEF Present
<1>5. CASE Bumped(s)
  <2>1. /\ sched'[s].version = sched[s].version + 1
        /\ edit.expected <= sched[s].version
        /\ sched'[s].status # "absent"
    BY <1>3, <1>5 DEF Bumped, Present
  <2>2. ~StillCurrent(edit)'
    BY <1>1, <1>2, <2>1 DEF StillCurrent
  <2> QED BY <1>1, <1>2, <2>1, <2>2
<1>6. CASE sched'[s] = NoSchedule("purged")
  <2>1. sched'[s].status = "purged"
    BY <1>6 DEF NoSchedule
  <2>2. ~Present(s)'
    BY <2>1 DEF Present
  <2> QED BY <2>1, <2>2 DEF StillCurrent
<1> HIDE DEF s
<1>7. sched'[s] = sched[s] \/ Bumped(s) \/ sched'[s] = NoSchedule("purged")
  BY <1>1, <1>3, ScheduleMoves DEF ScheduleMove, Created, Removed
<1> QED BY <1>4, <1>5, <1>6, <1>7

\* An edit that the step has computed.
LEMMA NewEditStep ==
    ASSUME OccurrenceInv, [Next]_vars, UNCHANGED storeVars,
           NEW edit \in Edits, Computed(edit)
    PROVE  /\ sched'[edit.id].status # "absent"
           /\ Present(edit.id)' => edit.expected <= sched'[edit.id].version
           /\ StillCurrent(edit)' => Near(edit.id, edit.next)'
<1> USE DEF OccurrenceInv
<1>1. edit.id \in Schedules /\ UNCHANGED <<sched, exec>>
  BY DEF Edits, storeVars
<1>2. edit.expected = sched[edit.id].version /\ sched[edit.id].version \in Nat
  BY <1>1 DEF Computed, RowInv, TypeOK, StoreTypeOK, ValidSchedules, ScheduleRows
<1>3. sched[edit.id].status # "absent"
  BY DEF Computed, Editable, Present
<1>4. Near(edit.id, edit.next)
  <2>1. CASE edit.next = None
    BY <2>1 DEF Near
  <2>2. CASE edit.next = sched[edit.id].next
    BY <1>1, <2>2 DEF NextIsNear
  <2>3. CASE \E c \in Crons, t \in Stamps : edit.next = NextAfter(c, t)
    <3>1. PICK c \in Crons, t \in Stamps : edit.next = NextAfter(c, t)
      BY <2>3
    <3>2. edit.next \in Nat /\ edit.next > t
      BY <3>1, StampsAreTimes, NextAfterIsLater
    <3> QED BY <1>1, <3>2, LaterIsNear
  <2> QED BY <2>1, <2>2, <2>3 DEF Computed
<1>5. Near(edit.id, edit.next)'
  BY <1>1, <1>4 DEF Near, Exists, Open, Closed, OccurrencesOf
<1> QED BY <1>1, <1>2, <1>3, <1>5

\* What an edit has computed stays near while the row has the version it read.
LEMMA EditsAreNearStep ==
    ASSUME OccurrenceInv, [Next]_vars
    PROVE  EditsAreNear'
<1> SUFFICES ASSUME NEW q \in Requests, NEW edit \in req'[q].edits
             PROVE  /\ sched'[edit.id].status # "absent"
                    /\ Present(edit.id)' => edit.expected <= sched'[edit.id].version
                    /\ StillCurrent(edit)' => Near(edit.id, edit.next)'
  BY DEF EditsAreNear
<1>1. CASE edit \in req[q].edits
  BY <1>1, OldEditStep
<1>2. CASE edit \notin req[q].edits
  <2>1. UNCHANGED storeVars /\ Computed(edit)
    BY <1>2, RequestMoves DEF OccurrenceInv
  <2>2. edit \in Edits
    BY NextRowInv DEF OccurrenceInv, RowInv, TypeOK, ApiTypeOK
  <2> QED BY <2>1, <2>2, NewEditStep
<1> QED BY <1>1, <1>2

\* An execution keeps its version while its reminder's grows.
LEMMA VersionsFollowStep ==
    ASSUME OccurrenceInv, [Next]_vars
    PROVE  VersionsFollow'
<1> SUFFICES ASSUME NEW e \in Occurrences, Exists(e)'
             PROVE  Present(e[1])' /\ exec'[e].version <= sched'[e[1]].version
  BY DEF VersionsFollow
<1> USE DEF OccurrenceInv
<1> DEFINE s == e[1]
<1>1. s \in Schedules /\ e \in OccurrencesOf(s)
  BY OccurrenceTypes
<1>2. sched[s].version \in Nat /\ exec[e].version \in Nat
  BY <1>1 DEF RowInv, TypeOK, StoreTypeOK, ValidSchedules, ScheduleRows, ValidExecutions,
     ExecutionRows
<1>3. CASE Fired(s)
  <2>1. PICK w \in Workers : CommitBatch(w) /\ s \in lock[w]
    BY <1>3 DEF Fired
  <2>2. sched'[s].version = sched[s].version + 1
    BY <1>1, <2>1, FiredRow
  <2>3. exec'[e].version <= sched[s].version + 1
    <3>1. CASE Stored(e)
      BY <1>2, <3>1 DEF Stored
    <3>2. CASE ~Stored(e)
      BY <1>2, <3>2, ExecutionMoves
         DEF VersionsFollow, ExecutionMove, Requeued, Ended, Swept, Exists, Open, Closed
    <3> QED BY <3>1, <3>2
  <2>4. Present(s)'
    <3> HIDE DEF s
    <3>1. sched[s] \in ValidSchedules /\ sched[s].status = "active"
      BY <1>1, <2>1 DEF RowInv, TypeOK, StoreTypeOK, LocksHold
    <3>2. sched'[s] = Advanced(sched[s], now[w])
      BY <1>1, <2>1 DEF CommitBatch
    <3> QED BY <3>1, <3>2, AdvancedRow DEF Present
  <2> QED BY <2>2, <2>3, <2>4
<1>4. CASE ~Fired(s)
  <2>1. Exists(e) /\ exec'[e].version = exec[e].version
    BY <1>1, <1>4, StoredFires
  <2>2. Present(s) /\ exec[e].version <= sched[s].version
    BY <2>1 DEF VersionsFollow
  <2>3. CASE sched'[s] = sched[s]
    BY <2>1, <2>2, <2>3 DEF Present
  <2>4. CASE Bumped(s)
    BY <1>2, <2>1, <2>2, <2>4 DEF Bumped
  <2>5. ~Removed(s)
    BY <1>1 DEF Removed, Exists, Open, Closed
  <2> HIDE DEF s
  <2> QED BY <1>1, <2>2, <2>3, <2>4, <2>5, ScheduleMoves DEF ScheduleMove, Created, Present
<1> QED BY <1>3, <1>4

\* An edit makes every occurrence that exists one of an older version, and the
\* worker leaves its own behind.
LEMMA LeftIsOlderStep ==
    ASSUME OccurrenceInv, [Next]_vars
    PROVE  LeftIsOlder'
<1> SUFFICES ASSUME NEW s \in Schedules, sched'[s].next # None,
                    NEW e \in OccurrencesOf(s), Exists(e)', e[2] >= sched'[s].next
             PROVE  exec'[e].version < sched'[s].version
  BY DEF LeftIsOlder, OccurrencesOf
<1> USE DEF OccurrenceInv
<1>1. e \in Occurrences /\ e[1] = s /\ e[2] \in Nat
  BY OccurrenceTypes DEF OccurrencesOf
<1>2. sched[s].version \in Nat /\ exec[e].version \in Nat
  BY <1>1 DEF RowInv, TypeOK, StoreTypeOK, ValidSchedules, ScheduleRows, ValidExecutions,
     ExecutionRows
<1>3. Exists(e) => Present(s) /\ exec[e].version <= sched[s].version
  BY <1>1 DEF VersionsFollow
<1>4. CASE Fired(s)
  <2>1. PICK w \in Workers : CommitBatch(w) /\ s \in lock[w]
    BY <1>4 DEF Fired
  <2>2. /\ sched'[s].version = sched[s].version + 1
        /\ sched[s].next <= now[w] /\ now[w] \in Nat /\ sched[s].next \in Nat
        /\ sched'[s].next \in Nat /\ sched'[s].next > now[w]
    BY <2>1, FiredRow
  <2>3. ~Stored(e)
    BY <1>1, <2>2, StoredIsDue
  <2>4. Exists(e) /\ exec'[e].version = exec[e].version
    BY <1>1, <2>3, ExecutionMoves
       DEF ExecutionMove, Requeued, Ended, Swept, Exists, Open, Closed
  <2> QED BY <1>2, <1>3, <2>2, <2>4
<1>5. CASE ~Fired(s)
  <2>1. Exists(e) /\ exec'[e].version = exec[e].version
    BY <1>5, StoredFires
  <2>2. CASE sched'[s] = sched[s]
    BY <2>1, <2>2 DEF LeftIsOlder
  <2>3. CASE Bumped(s)
    BY <1>2, <1>3, <2>1, <2>3 DEF Bumped
  <2>4. ~Created(s)
    BY <1>3, <2>1 DEF Created, Present
  <2>5. ~Removed(s)
    BY DEF Removed, Exists, Open, Closed
  <2> QED BY <2>2, <2>3, <2>4, <2>5, ScheduleMoves DEF ScheduleMove
<1> QED BY <1>4, <1>5

LEMMA OccurrenceInvStep ==
    ASSUME OccurrenceInv, [Next]_vars
    PROVE  OccurrenceInv'
BY NextRowInv, NothingEarlyStep, NextIsNearStep, EditsAreNearStep, VersionsFollowStep,
   LeftIsOlderStep DEF OccurrenceInv

\* There is no occurrence at the start.
LEMMA InitOccurrenceInv == Init => OccurrenceInv
<1> SUFFICES ASSUME Init PROVE OccurrenceInv
  OBVIOUS
<1>1. RowInv
  BY InitRowInv
<1>2. \A e \in Occurrences : ~Exists(e)
  BY DEF Init, StoreInit, NoExecution, Exists, Open, Closed
<1>3. NothingEarly
  BY <1>2 DEF NothingEarly, Init, StoreInit, WorkerInit
<1>4. NextIsNear
  BY <1>2 DEF NextIsNear, Near, OccurrencesOf
<1>5. EditsAreNear
  BY DEF EditsAreNear, Init, ApiInit, NewRequest
<1>6. VersionsFollow /\ LeftIsOlder
  BY <1>2 DEF VersionsFollow, LeftIsOlder, OccurrencesOf
<1> QED BY <1>1, <1>3, <1>4, <1>5, <1>6 DEF OccurrenceInv

\* Occurrence safety, with clock reads of any age: no occurrence at or after a
\* reminder's next run exists, unless an edit has sent the reminder back, and
\* that by less than its clock read was old.
THEOREM SendingBackIsBounded == Spec => []SentBackOnlyByEdits
<1>1. Init => OccurrenceInv
  BY InitOccurrenceInv
<1>2. OccurrenceInv /\ [Next]_vars => OccurrenceInv'
  BY OccurrenceInvStep
<1>3. OccurrenceInv => SentBackOnlyByEdits
  BY DEF OccurrenceInv, NextIsNear, Near, LeftIsOlder, SentBackOnlyByEdits
<1> QED BY <1>1, <1>2, <1>3, PTL DEF Spec
----------------------------------------------------------------------------
(* No occurrence is lost, however old the clock reads are *)

\* Next runs are instants that some cron expression matches.
NextsAreInstants ==
    /\ \A s \in Schedules : sched[s].next # None => sched[s].next \in Instants
    /\ \A q \in Requests : \A edit \in req[q].edits :
          edit.next # None => edit.next \in Instants

\* An edit in flight belongs to a version its row has had, and while it is the
\* row's version, the edit proposes what its read saw.
EditsKeepNext ==
    \A q \in Requests : \A edit \in req[q].edits :
        /\ sched[edit.id].status # "absent"
        /\ Present(edit.id) => edit.expected <= sched[edit.id].version
        /\ StillCurrent(edit) => KeepsNext(edit)

LossInv == RowInv /\ NothingEarly /\ NextsAreInstants /\ EditsKeepNext

\* The next run of an active reminder is an instant.
LEMMA NextsAreInstantsStep ==
    ASSUME RowInv, NextsAreInstants, [Next]_vars
    PROVE  NextsAreInstants'
<1>1. ASSUME NEW s \in Schedules, sched'[s].next # None PROVE sched'[s].next \in Instants
  <2>1. CASE sched'[s] = sched[s]
    BY <1>1, <2>1 DEF NextsAreInstants
  <2>2. CASE Created(s)
    BY <2>2, StampsAreTimes, NextAfterFires DEF Created
  <2>3. CASE Written(s)
    BY <1>1, <2>3 DEF Written, NextsAreInstants
  <2>4. CASE Fired(s)
    BY <1>1, <2>4, FiredRow DEF Fired
  <2>5. CASE sched'[s] = NoSchedule("purged")
    BY <1>1, <2>5 DEF NoSchedule
  <2> QED BY <1>1, <2>1, <2>2, <2>3, <2>4, <2>5, ScheduleMoves DEF ScheduleMove, Silenced, Removed
<1>2. ASSUME NEW q \in Requests, NEW edit \in req'[q].edits, edit.next # None
      PROVE  edit.next \in Instants
  <2>1. CASE edit \in req[q].edits
    BY <1>2, <2>1 DEF NextsAreInstants
  <2>2. CASE Computed(edit)
    <3>1. edit.id \in Schedules
      BY <1>2, NextRowInv DEF RowInv, TypeOK, ApiTypeOK, Edits
    <3>2. CASE edit.next = sched[edit.id].next
      BY <1>2, <3>1, <3>2 DEF NextsAreInstants
    <3>3. CASE \E c \in Crons, t \in Stamps : edit.next = NextAfter(c, t)
      BY <3>3, StampsAreTimes, NextAfterFires
    <3> QED BY <1>2, <2>2, <3>2, <3>3 DEF Computed
  <2> QED BY <1>2, <2>1, <2>2, RequestMoves
<1> QED BY <1>1, <1>2 DEF NextsAreInstants

\* An edit in flight outlives a step only with the row it has read.
LEMMA EditsKeepNextStep ==
    ASSUME RowInv, EditsKeepNext, [Next]_vars
    PROVE  EditsKeepNext'
<1> SUFFICES ASSUME NEW q \in Requests, NEW edit \in req'[q].edits
             PROVE  /\ sched'[edit.id].status # "absent"
                    /\ Present(edit.id)' => edit.expected <= sched'[edit.id].version
                    /\ StillCurrent(edit)' => KeepsNext(edit)'
  BY DEF EditsKeepNext
<1> DEFINE s == edit.id
<1>1. s \in Schedules /\ edit.expected \in Nat
  BY NextRowInv DEF RowInv, TypeOK, ApiTypeOK, Edits
<1>2. sched[s].version \in Nat
  BY <1>1 DEF RowInv, TypeOK, StoreTypeOK, ValidSchedules, ScheduleRows
<1>3. CASE edit \in req[q].edits
  <2>1. /\ sched[s].status # "absent"
        /\ Present(s) => edit.expected <= sched[s].version
        /\ StillCurrent(edit) => KeepsNext(edit)
    BY <1>3 DEF EditsKeepNext
  <2>2. CASE sched'[s] = sched[s]
    BY <2>1, <2>2 DEF StillCurrent, Present, KeepsNext
  <2>3. CASE Bumped(s)
    <3>1. /\ sched'[s].version = sched[s].version + 1
          /\ edit.expected <= sched[s].version
          /\ sched'[s].status # "absent"
      BY <2>1, <2>3 DEF Bumped, Present
    <3>2. ~StillCurrent(edit)'
      BY <1>1, <1>2, <3>1 DEF StillCurrent
    <3> QED BY <1>1, <1>2, <3>1, <3>2
  <2>4. CASE sched'[s] = NoSchedule("purged")
    <3>1. sched'[s].status = "purged"
      BY <2>4 DEF NoSchedule
    <3>2. ~Present(s)'
      BY <3>1 DEF Present
    <3> QED BY <3>1, <3>2 DEF StillCurrent
  <2> HIDE DEF s
  <2>5. sched'[s] = sched[s] \/ Bumped(s) \/ sched'[s] = NoSchedule("purged")
    BY <1>1, <2>1, ScheduleMoves DEF ScheduleMove, Created, Removed
  <2> QED BY <2>2, <2>3, <2>4, <2>5
<1>4. CASE edit \notin req[q].edits
  <2>1. UNCHANGED sched /\ Computed(edit)
    BY <1>4, RequestMoves DEF storeVars
  <2>2. KeepsNext(edit)' /\ sched[s].status # "absent" /\ edit.expected = sched[s].version
    BY <2>1 DEF Computed, KeepsNext, Editable, Present
  <2> QED BY <1>1, <1>2, <2>1, <2>2
<1> QED BY <1>3, <1>4

\* A batch stores the occurrence of every reminder it moves on.
LEMMA FiredIsStored ==
    ASSUME RowInv, NothingEarly, NextsAreInstants, NEW s \in Schedules, Fired(s)
    PROVE  Occurrence(s) \in Occurrences /\ exec'[Occurrence(s)].status # "absent"
<1>1. PICK w \in Workers : CommitBatch(w) /\ s \in lock[w]
  BY DEF Fired
<1>2. /\ sched[s].next # None /\ sched[s].next <= now[w] /\ sched[s].next \in Nat
      /\ now[w] \in Times
  BY <1>1, FiredRow DEF RowInv, LocksHold, TypeOK, WorkerTypeOK
<1>3. sched[s].next \in Times
  BY <1>2, StoreAssumption DEF Times
<1>4. Occurrence(s) \in Occurrences
  BY <1>2, <1>3 DEF Occurrence, Occurrences, NextsAreInstants
<1>5. CASE Exists(Occurrence(s))
  <2>1. exec'[Occurrence(s)] = exec[Occurrence(s)]
    <3>1. Occurrence(s)[1] = s
      BY DEF Occurrence
    <3> QED BY <1>1, <1>4, <1>5 DEF CommitBatch
  <2> QED BY <1>4, <1>5, <2>1 DEF Exists, Open, Closed
<1>6. CASE ~Exists(Occurrence(s))
  <2>1. exec'[Occurrence(s)] = NewExecution(sched[Occurrence(s)[1]].version + 1, now[w])
    BY <1>1, <1>4, <1>6 DEF CommitBatch
  <2> QED BY <1>4, <2>1 DEF NewExecution
<1> QED BY <1>5, <1>6

\* An edit that keeps the timing never makes an active reminder skip a run: it
\* leaves its next run only when the run's occurrence has been stored.
THEOREM NoneIsLost == Spec => NoOccurrenceLost
<1>1. Init => LossInv
  <2>1. Init => NothingEarly
    BY InitOccurrenceInv DEF OccurrenceInv
  <2> QED BY <2>1, InitRowInv DEF Init, StoreInit, ApiInit, NewRequest, NoSchedule, LossInv,
         NextsAreInstants, EditsKeepNext
<1>2. LossInv /\ [Next]_vars => LossInv'
  BY NextRowInv, NothingEarlyStep, NextsAreInstantsStep, EditsKeepNextStep DEF LossInv
<1>3. ASSUME LossInv, [Next]_vars, NEW s \in Schedules,
             sched[s].status = "active", sched'[s].status = "active", ~sched'[s].deleted,
             sched'[s].cron = sched[s].cron, sched'[s].kind = sched[s].kind,
             sched'[s].next # sched[s].next
      PROVE  <<s, sched[s].next>> \in Occurrences /\ exec'[<<s, sched[s].next>>].status # "absent"
  <2>1. NoSchedule("purged").status = "purged"
    BY DEF NoSchedule
  <2>2. ~Written(s)
    BY <1>3 DEF Written, LossInv, EditsKeepNext, KeepsNext
  <2>3. Fired(s)
    BY <1>3, <2>1, <2>2, ScheduleMoves DEF LossInv, ScheduleMove, Created, Silenced, Removed
  <2> QED BY <1>3, <2>3, FiredIsStored DEF LossInv, Occurrence
<1>4. LossInv /\ [Next]_vars =>
        \A s \in Schedules :
          /\ sched[s].status = "active"
          /\ sched'[s].status = "active"
          /\ ~sched'[s].deleted
          /\ sched'[s].cron = sched[s].cron
          /\ sched'[s].kind = sched[s].kind
          /\ sched'[s].next # sched[s].next
          => <<s, sched[s].next>> \in Occurrences /\ exec'[<<s, sched[s].next>>].status # "absent"
  BY <1>3
<1> QED BY <1>1, <1>2, <1>4, PTL DEF Spec, NoOccurrenceLost

\* An occurrence that a batch finds stored was stored before the reminder was
\* edited: it is never the batch's own, and it rolls the batch back.
StoredBeforeAnEdit ==
    \A w \in Workers : \A s \in lock[w] : Exists(Occurrence(s)) =>
        exec[Occurrence(s)].version < sched[s].version /\ Conflict(s)

\* A batch is rolled back over edited reminders only, and the case in which it
\* accepts an occurrence that is stored already, of its own version, never comes.
THEOREM BatchesFailOverEdits == Spec => []StoredBeforeAnEdit
<1> DEFINE Inv == OccurrenceInv /\ NextsAreInstants
<1>1. Init => Inv
  BY InitOccurrenceInv DEF Init, StoreInit, ApiInit, NewRequest, NoSchedule, NextsAreInstants
<1>2. Inv /\ [Next]_vars => Inv'
  BY OccurrenceInvStep, NextsAreInstantsStep DEF OccurrenceInv
<1>3. Inv => StoredBeforeAnEdit
  <2> SUFFICES ASSUME Inv, NEW w \in Workers, NEW s \in lock[w], Exists(Occurrence(s))
               PROVE  exec[Occurrence(s)].version < sched[s].version /\ Conflict(s)
    BY DEF StoredBeforeAnEdit
  <2> USE DEF OccurrenceInv
  <2>1. s \in Schedules /\ now[w] \in Times
    BY DEF RowInv, TypeOK, StoreTypeOK, WorkerTypeOK
  <2>2. sched[s].next # None /\ sched[s].next <= now[w]
    BY DEF RowInv, LocksHold
  <2>3. sched[s].next \in Nat /\ sched[s].version \in Nat
    BY <2>1, <2>2 DEF RowInv, TypeOK, StoreTypeOK, ValidSchedules, ScheduleRows
  <2>4. sched[s].next \in Instants \cap Times
    BY <2>1, <2>2, <2>3, StoreAssumption DEF Times, NextsAreInstants
  <2>5. Occurrence(s) \in OccurrencesOf(s) /\ Occurrence(s)[2] = sched[s].next
    BY <2>1, <2>4 DEF Occurrence, Occurrences, OccurrencesOf
  <2>6. exec[Occurrence(s)].version \in Nat
    BY <2>5 DEF OccurrencesOf, RowInv, TypeOK, StoreTypeOK, ValidExecutions, ExecutionRows
  <2>7. exec[Occurrence(s)].version < sched[s].version
    BY <2>1, <2>2, <2>3, <2>5 DEF LeftIsOlder
  <2> QED BY <2>3, <2>6, <2>7 DEF Conflict
<1> QED BY <1>1, <1>2, <1>3, PTL DEF Spec
----------------------------------------------------------------------------
(* Delivery *)

\* What a delivery task knows of its row: the occurrence has been stored, an
\* open row under the worker's name is the very claim the task was made for,
\* and until the task's lease ends an open row stays under that name.
Knows(w, e) ==
    InHand(w, e) =>
        /\ exec[e].status # "absent"
        /\ Open(e) /\ exec[e].owner = w =>
              task[w][e].attempt = exec[e].attempts /\ task[w][e].expires = exec[e].expires
        /\ Open(e) /\ task[w][e].expires > clock => exec[e].owner = w

HandsKnow == \A w \in Workers, e \in Occurrences : Knows(w, e)

\* A task without an error so far has reached, or is about to post to, everyone
\* the occurrence is owed to.
Carries(w, e) ==
    /\ task[w][e].pc \in {"claimed", "resolved"} => task[w][e].error = "none"
    /\ task[w][e].pc = "delivering" => task[w][e].error = "none" /\ task[w][e].todo = {}
    /\ task[w][e].pc \in {"resolved", "posting", "delivering"} /\ task[w][e].error = "none"
          => Owed(e) \subseteq task[w][e].todo \cup got[e]

HandsCarry == \A w \in Workers, e \in Occurrences : Carries(w, e)

\* An execution that is gone went with its reminder.
GoneTogether ==
    \A e \in Occurrences : exec[e].status = "purged" => sched[e[1]].status = "purged"

\* Occurrences are stored when they are due, also those that are gone by now.
StoredLate == \A e \in Occurrences : exec[e].status # "absent" => e[2] <= clock

\* A batch holds no reminder of a deleted account.
LocksOfTheLiving ==
    \A w \in Workers : \A s \in lock[w] : account[Owner[s]] # "deleted"

TimelyRows == RowInv /\ NothingEarly /\ GoneTogether /\ StoredLate

LeaseInv == TimelyRows /\ HandsKnow /\ LeaseExcludes /\ RetriesAreLeft

ReachInv == LeaseInv /\ HandsCarry /\ DeliveredReachedAll

QuietInv == RowInv /\ LocksOfTheLiving /\ DeletedAccountIsQuiet
----------------------------------------------------------------------------
(* What a step does to a task and to the lease of a row *)

\* A claim makes the task and the lease together.
Taken(w, e) ==
    /\ \E t \in Stamps :
          /\ Claimable(e, t)
          /\ task'[w][e] = ClaimTask(e, t)
          /\ exec'[e] = ClaimedRow(exec[e], w, t)
    /\ UNCHANGED clock

\* The task gets from one of its steps to the next.
Resolved(old, new, e) ==
    old.pc = "claimed" /\ new.pc = "resolved" /\ new.todo = Subscriptions(e[1])
        /\ new.error = old.error
Rechecked(old, new) ==
    /\ old.pc = "resolved" /\ new.pc \in {"posting", "delivering"}
    /\ new.todo = old.todo /\ new.error = old.error
    /\ new.pc = "delivering" => new.todo = {}
Posted(old, new, e) ==
    /\ old.pc = "posting" /\ new.pc \in {"posting", "delivering"}
    /\ new.pc = "delivering" => new.error = "none" /\ new.todo = {}
    /\ new.error = "none" =>
          old.error = "none" /\ \E r \in Receivers : new.todo = old.todo \ {r} /\ r \in got'[e]

Worked(w, e) ==
    /\ InHand(w, e)
    /\ task'[w][e].attempt = task[w][e].attempt
    /\ task'[w][e].expires = task[w][e].expires
    /\ \/ task'[w][e].pc = "failing"
       \/ Resolved(task[w][e], task'[w][e], e)
       \/ Rechecked(task[w][e], task'[w][e])
       \/ Posted(task[w][e], task'[w][e], e)
    /\ UNCHANGED <<exec, hook, clock>>

TaskMove(w, e) ==
    task'[w][e] = task[w][e] \/ task'[w][e] = NoTask \/ Taken(w, e) \/ Worked(w, e)

\* A row leaves the queue: for good, or as delivered by a task that had no error.
Left(e) ==
    /\ exec'[e].status \in {"delivered", "failed", "purged"}
    /\ exec'[e].attempts \in {exec[e].attempts, 0}
    /\ exec'[e].status = "delivered" =>
          UNCHANGED <<hook, got>> /\ \E w \in Workers : task[w][e].pc = "delivering"

\* A failed attempt gives its lease back and waits for at least the base delay
\* and at most the longest one.
GivenBack(e) ==
    \E w \in Workers :
        /\ Open(e) /\ exec[e].owner = w
        /\ task[w][e].pc = "failing" /\ task[w][e].attempt < MaxAttempts
        /\ exec'[e].status = "retrying" /\ exec'[e].owner = NoWorker
        /\ exec'[e].attempts = exec[e].attempts
        /\ exec'[e].next \in Nat /\ exec'[e].next <= clock + MaxDelay
        /\ exec'[e].next >= clock - Lag + BaseDelay
        /\ task'[w][e] = NoTask

\* A stored occurrence is new and waits for its first attempt.
StoredNew(e) ==
    /\ Stored(e) /\ exec[e].status = "absent"
    /\ exec'[e].owner = NoWorker /\ exec'[e].attempts = 0
    /\ exec'[e].next \in Nat /\ exec'[e].next <= clock /\ exec'[e].next >= e[2]

LeaseMove(e) ==
    \/ exec'[e] = exec[e]
    \/ Left(e)
    \/ GivenBack(e)
    \/ StoredNew(e)
    \/ \E w \in Workers : Taken(w, e)
----------------------------------------------------------------------------
\* An execution that closes keeps its count of attempts.
LEMMA CloseAttempts ==
    ASSUME NEW row \in ValidExecutions, NEW status
    PROVE  Close(row, status).attempts = row.attempts
BY Zenon DEF Close, ValidExecutions, ExecutionRows

\* Suspension, archiving and deletion close executions, whoever has them in hand.
LEMMA FailOpenLeaves ==
    ASSUME RowInv, NEW E, FailOpen(E), NEW e \in Occurrences
    PROVE  LeaseMove(e)
<1>1. exec[e] \in ValidExecutions
  BY DEF RowInv, TypeOK, StoreTypeOK
<1>2. CASE e \in E /\ Open(e)
  <2>1. exec'[e].status = "failed" /\ exec'[e].attempts = exec[e].attempts
    BY <1>1, <1>2, CloseStatus, CloseAttempts DEF FailOpen
  <2> QED BY <2>1 DEF LeaseMove, Left
<1>3. CASE ~(e \in E /\ Open(e))
  BY <1>3 DEF FailOpen, LeaseMove
<1> QED BY <1>2, <1>3

\* A batch stores what has never been stored: a purged occurrence has no
\* reminder that could be locked.
LEMMA CommitBatchLeases ==
    ASSUME RowInv, NothingEarly, GoneTogether, NEW w \in Workers, CommitBatch(w),
           NEW e \in Occurrences
    PROVE  LeaseMove(e)
<1>1. CASE \E s \in lock[w] : e = Occurrence(s) /\ ~Exists(e)
  <2>1. e[1] \in lock[w] /\ e = Occurrence(e[1]) /\ ~Exists(e)
    BY <1>1 DEF Occurrence
  <2>2. exec'[e] = NewExecution(sched[e[1]].version + 1, now[w]) /\ UNCHANGED account
    BY <1>1 DEF CommitBatch
  <2>3. /\ exec'[e].status = "pending" /\ exec'[e].owner = NoWorker
        /\ exec'[e].attempts = 0 /\ exec'[e].next = now[w]
    BY <2>2 DEF NewExecution
  <2>7. exec'[e].version = sched[e[1]].version + 1
    BY <2>2 DEF NewExecution
  <2>4. now[w] \in Nat /\ now[w] <= clock /\ e[2] <= now[w]
    BY <2>1, TimesAreNat
       DEF RowInv, TypeOK, WorkerTypeOK, NothingEarly, LocksHold, Occurrence
  <2>5. exec[e].status \in ExecutionStatus /\ exec[e].status # "purged"
    BY <2>1 DEF RowInv, TypeOK, StoreTypeOK, LocksHold, GoneTogether, ValidExecutions,
       ExecutionRows
  <2>6. exec[e].status = "absent"
    BY <2>1, <2>5 DEF ExecutionStatus, Exists, Open, Closed
  <2> QED BY <2>1, <2>2, <2>3, <2>4, <2>6, <2>7 DEF LeaseMove, StoredNew, Stored
<1>2. CASE ~\E s \in lock[w] : e = Occurrence(s) /\ ~Exists(e)
  BY <1>2 DEF CommitBatch, LeaseMove
<1> QED BY <1>1, <1>2

\* A claim touches the rows that it may claim and the claimer's tasks.
LEMMA ClaimMoves ==
    ASSUME RowInv, NEW w \in Workers, NEW busy \in SUBSET Occurrences, NEW t \in Times,
           Claim(w, busy, t), NEW e \in Occurrences
    PROVE  LeaseMove(e) /\ \A v \in Workers : TaskMove(v, e)
<1>1. PICK E \in SUBSET {x \in Occurrences : Claimable(x, t)} :
         /\ exec' = [x \in Occurrences |-> IF x \in E THEN ClaimedRow(exec[x], w, t) ELSE exec[x]]
         /\ task' = [task EXCEPT ![w] =
               [x \in Occurrences |-> IF x \in E THEN ClaimTask(x, t) ELSE NoTask]]
  BY DEF Claim
<1>2. t \in Stamps /\ UNCHANGED clock
  BY DEF Claim
<1>3. \A v \in Workers \ {w} : task'[v] = task[v]
  BY <1>1 DEF RowInv, TypeOK, WorkerTypeOK
<1>4. task'[w] = [x \in Occurrences |-> IF x \in E THEN ClaimTask(x, t) ELSE NoTask]
  BY <1>1 DEF RowInv, TypeOK, WorkerTypeOK
<1>5. CASE e \in E
  <2>1. Claimable(e, t) /\ exec'[e] = ClaimedRow(exec[e], w, t) /\ task'[w][e] = ClaimTask(e, t)
    BY <1>1, <1>4, <1>5
  <2>2. Taken(w, e)
    BY <1>2, <2>1 DEF Taken
  <2> QED BY <1>3, <2>2 DEF LeaseMove, TaskMove
<1>6. CASE e \notin E
  <2>1. exec'[e] = exec[e] /\ task'[w][e] = NoTask
    BY <1>1, <1>4, <1>6
  <2> QED BY <1>3, <2>1 DEF LeaseMove, TaskMove
<1> QED BY <1>5, <1>6

\* A task's step changes that task only.
LEMMA OneTask ==
    ASSUME RowInv, NEW w \in Workers, NEW x \in Occurrences, NEW from, NEW new,
           TaskStep(w, x, from, new), NEW v \in Workers, NEW e \in Occurrences
    PROVE  task'[v][e] = IF v = w /\ e = x THEN new ELSE task[v][e]
BY DEF RowInv, TypeOK, WorkerTypeOK, TaskStep

\* Reading the subscriptions is a step of one task.
LEMMA ResolveMoves ==
    ASSUME RowInv, NEW w \in Workers, NEW x \in Occurrences, Resolve(w, x),
           NEW v \in Workers, NEW e \in Occurrences
    PROVE  TaskMove(v, e)
<1> DEFINE old == task[w][x]
           new == [old EXCEPT !.pc = "resolved", !.todo = Subscriptions(x[1])]
<1>1. TaskStep(w, x, "claimed", new) /\ UNCHANGED storeVars
  BY DEF Resolve
<1>2. old \in Tasks /\ old.pc = "claimed"
  BY <1>1, TaskType DEF RowInv, TypeOK, TaskStep
<1>3. /\ new.pc = "resolved" /\ new.todo = Subscriptions(x[1])
      /\ new.error = old.error /\ new.attempt = old.attempt /\ new.expires = old.expires
  BY <1>2, Zenon DEF Tasks
<1> HIDE DEF new
<1>4. CASE v = w /\ e = x
  <2>1. task'[v][e] = new
    BY <1>1, <1>4, OneTask
  <2> QED BY <1>1, <1>2, <1>3, <1>4, <2>1 DEF TaskMove, Worked, Resolved, InHand, storeVars
<1>5. CASE ~(v = w /\ e = x)
  BY <1>1, <1>5, OneTask DEF TaskMove
<1> QED BY <1>4, <1>5

\* A failed read is a step of one task.
LEMMA ResolveFailsMoves ==
    ASSUME RowInv, NEW w \in Workers, NEW x \in Occurrences, NEW error \in Errors,
           ResolveFails(w, x, error), NEW v \in Workers, NEW e \in Occurrences
    PROVE  TaskMove(v, e)
<1> DEFINE old == task[w][x]
           new == Failing(w, x, error)
<1>1. TaskStep(w, x, "claimed", new) /\ UNCHANGED storeVars
  BY DEF ResolveFails
<1>2. old \in Tasks /\ old.pc = "claimed"
  BY <1>1, TaskType DEF RowInv, TypeOK, TaskStep
<1>3. new.pc = "failing" /\ new.attempt = old.attempt /\ new.expires = old.expires
  BY <1>2, Zenon DEF Tasks, Failing
<1> HIDE DEF new
<1>4. CASE v = w /\ e = x
  <2>1. task'[v][e] = new
    BY <1>1, <1>4, OneTask
  <2> QED BY <1>1, <1>2, <1>3, <1>4, <2>1 DEF TaskMove, Worked, InHand, storeVars
<1>5. CASE ~(v = w /\ e = x)
  BY <1>1, <1>5, OneTask DEF TaskMove
<1> QED BY <1>4, <1>5

\* The check of the lease is a step of one task.
LEMMA RecheckMoves ==
    ASSUME RowInv, NEW w \in Workers, NEW x \in Occurrences, NEW t \in Times,
           Recheck(w, x, t), NEW v \in Workers, NEW e \in Occurrences
    PROVE  TaskMove(v, e)
<1> DEFINE old  == task[w][x]
           next == IF old.todo = {} THEN "delivering" ELSE "posting"
           on   == [old EXCEPT !.pc = next]
           new  == IF ~HoldsLease(w, x, t) THEN NoTask ELSE on
<1>1. TaskStep(w, x, "resolved", new) /\ UNCHANGED storeVars
  BY DEF Recheck
<1>2. old \in Tasks /\ old.pc = "resolved"
  BY <1>1, TaskType DEF RowInv, TypeOK, TaskStep
<1>3. next \in {"posting", "delivering"} /\ (next = "delivering" => old.todo = {})
  OBVIOUS
<1> HIDE DEF next
<1>4. /\ on.pc = next /\ on.todo = old.todo
      /\ on.error = old.error /\ on.attempt = old.attempt /\ on.expires = old.expires
  BY <1>2, Zenon DEF Tasks
<1> HIDE DEF on
<1>5. CASE v = w /\ e = x
  <2>1. task'[v][e] = NoTask \/ task'[v][e] = on
    BY <1>1, <1>5, OneTask
  <2> QED BY <1>1, <1>2, <1>3, <1>4, <1>5, <2>1 DEF TaskMove, Worked, Rechecked, InHand, storeVars
<1>6. CASE ~(v = w /\ e = x)
  BY <1>1, <1>6, OneTask DEF TaskMove
<1> QED BY <1>5, <1>6

\* A post is a step of one task, and a success has reached its receiver.
LEMMA PostMoves ==
    ASSUME RowInv, NEW w \in Workers, NEW x \in Occurrences, NEW r \in Receivers,
           NEW answer \in Answers, Post(w, x, r, answer), NEW v \in Workers, NEW e \in Occurrences
    PROVE  TaskMove(v, e)
<1> DEFINE old   == task[w][x]
           error == FirstError(old.error, answer.error)
           left  == old.todo \ {r}
           next  == IF left # {} THEN "posting"
                    ELSE IF error = "none" THEN "delivering" ELSE "failing"
           new   == [old EXCEPT !.todo = left, !.error = error, !.pc = next]
<1>1. /\ TaskStep(w, x, "posting", new)
      /\ got' = IF answer.got THEN [got EXCEPT ![x] = @ \cup {r}] ELSE got
      /\ UNCHANGED <<clock, sched, exec, account, hook, lock>>
  BY DEF Post
<1>2. old \in Tasks /\ old.pc = "posting"
  BY <1>1, TaskType DEF RowInv, TypeOK, TaskStep
<1>3. error = "none" => old.error = "none" /\ r \in got'[x]
  BY <1>1 DEF FirstError, Answers, RowInv, TypeOK, StoreTypeOK
<1>4. /\ next \in {"posting", "delivering", "failing"}
      /\ next = "delivering" => error = "none" /\ left = {}
  OBVIOUS
<1> HIDE DEF error, next
<1> HIDE DEF left
<1>5. /\ new.pc = next /\ new.todo = left
      /\ new.error = error /\ new.attempt = old.attempt /\ new.expires = old.expires
  BY <1>2, Zenon DEF Tasks
<1> HIDE DEF new
<1>6. left = old.todo \ {r}
  BY DEF left
<1>7. CASE v = w /\ e = x
  <2>1. task'[v][e] = new
    BY <1>1, <1>7, OneTask
  <2> QED BY <1>1, <1>2, <1>3, <1>4, <1>5, <1>6, <1>7, <2>1 DEF TaskMove, Worked, Posted, InHand
<1>8. CASE ~(v = w /\ e = x)
  BY <1>1, <1>8, OneTask DEF TaskMove
<1> QED BY <1>7, <1>8

\* A result ends its task; a row it closes as delivered was delivered without error.
LEMMA ClosingMoves ==
    ASSUME RowInv, NEW w \in Workers, NEW x \in Occurrences, NEW t \in Times, NEW from,
           NEW status \in {"delivered", "failed"}, status = "delivered" => from = "delivering",
           WriteResult(w, x, t, from, Close(exec[x], status)), NEW e \in Occurrences
    PROVE  LeaseMove(e) /\ \A v \in Workers : TaskMove(v, e)
<1>1. /\ exec' = IF HoldsLease(w, x, t) THEN [exec EXCEPT ![x] = Close(exec[x], status)] ELSE exec
      /\ TaskStep(w, x, from, NoTask) /\ UNCHANGED <<hook, got>>
  BY DEF WriteResult
<1>2. \A v \in Workers : TaskMove(v, e)
  BY <1>1, OneTask DEF TaskMove
<1>3. exec[x] \in ValidExecutions
  BY DEF RowInv, TypeOK, StoreTypeOK
<1>4. exec'[e] = exec[e] \/ (e = x /\ exec'[e] = Close(exec[x], status))
  BY <1>1 DEF RowInv, TypeOK, StoreTypeOK
<1>5. Close(exec[x], status).status = status /\ Close(exec[x], status).attempts = exec[x].attempts
  BY <1>3, CloseStatus, CloseAttempts
<1>6. CASE e = x /\ exec'[e] = Close(exec[x], status)
  <2>1. exec'[e].status = status /\ exec'[e].attempts = exec[e].attempts
    BY <1>5, <1>6
  <2>2. status = "delivered" => task[w][e].pc = "delivering"
    BY <1>1, <1>6 DEF TaskStep
  <2> QED BY <1>1, <1>2, <2>1, <2>2 DEF LeaseMove, Left
<1> QED BY <1>2, <1>4, <1>6 DEF LeaseMove

\* A retry gives the lease back while attempts are left.
LEMMA RetryMoves ==
    ASSUME RowInv, NEW w \in Workers, NEW x \in Occurrences, NEW t \in Times,
           NEW delay \in RetryDelays(task[w][x].attempt), MarkRetrying(w, x, t, delay),
           NEW e \in Occurrences
    PROVE  LeaseMove(e) /\ \A v \in Workers : TaskMove(v, e)
<1> DEFINE row == [exec[x] EXCEPT !.status = "retrying", !.next = t + delay,
                                  !.owner = NoWorker, !.expires = None]
<1>1. /\ exec' = IF HoldsLease(w, x, t) THEN [exec EXCEPT ![x] = row] ELSE exec
      /\ TaskStep(w, x, "failing", NoTask)
      /\ task[w][x].attempt < MaxAttempts
  BY DEF MarkRetrying, WriteResult, MayRetry
<1>2. \A v \in Workers : TaskMove(v, e)
  BY <1>1, OneTask DEF TaskMove
<1>3. exec[x] \in ValidExecutions
  BY DEF RowInv, TypeOK, StoreTypeOK
<1>4. /\ row.status = "retrying" /\ row.owner = NoWorker
      /\ row.attempts = exec[x].attempts /\ row.next = t + delay
  BY <1>3, Zenon DEF ValidExecutions, ExecutionRows
<1> HIDE DEF row
<1>5. row.next \in Nat /\ row.next <= clock + MaxDelay /\ row.next >= clock - Lag + BaseDelay
  <2>1. task[w][x].attempt \in Nat
    BY DEF RowInv, TypeOK, WorkerTypeOK, Tasks
  <2>2. delay \in Nat /\ delay <= MaxDelay /\ delay >= BaseDelay
    BY <2>1, DelaysFit, WorkerAssumption
  <2>3. t \in Stamps
    BY DEF MarkRetrying, WriteResult
  <2>4. t \in Nat /\ clock \in Nat /\ t <= clock /\ clock - t <= Lag
    BY <2>3, TimesAreNat DEF Stamps, RowInv, TypeOK, StoreTypeOK
  <2> QED BY <1>4, <2>2, <2>4, WorkerAssumption, StoreAssumption
<1>6. exec'[e] = exec[e] \/ (e = x /\ exec'[e] = row /\ HoldsLease(w, x, t))
  BY <1>1 DEF RowInv, TypeOK, StoreTypeOK
<1>7. CASE e = x /\ exec'[e] = row /\ HoldsLease(w, x, t)
  <2>1. Open(e) /\ exec[e].owner = w
    BY <1>7 DEF HoldsLease
  <2>2. task[w][e].pc = "failing"
    BY <1>1, <1>7 DEF TaskStep
  <2>3. task'[w][e] = NoTask
    BY <1>1, <1>7, OneTask
  <2> QED BY <1>1, <1>2, <1>4, <1>5, <1>7, <2>1, <2>2, <2>3 DEF LeaseMove, GivenBack
<1> QED BY <1>2, <1>6, <1>7 DEF LeaseMove

\* Every step of a delivery moves one task and at most its own row.
LEMMA DeliveryTasks ==
    ASSUME RowInv, NEW w \in Workers, NEW x \in Occurrences, DeliveryStep(w, x),
           NEW e \in Occurrences
    PROVE  LeaseMove(e) /\ \A v \in Workers : TaskMove(v, e)
<1>1. CASE \/ Resolve(w, x)
           \/ \E error \in Errors \ {"none"} : ResolveFails(w, x, error)
           \/ \E t \in Times : Recheck(w, x, t)
           \/ \E r \in Receivers, answer \in Answers : Post(w, x, r, answer)
  <2>1. LeaseMove(e)
    BY <1>1 DEF Resolve, ResolveFails, Recheck, Post, storeVars, LeaseMove
  <2> QED BY <1>1, <2>1, ResolveMoves, ResolveFailsMoves, RecheckMoves, PostMoves
<1>2. CASE \E t \in Times : MarkDelivered(w, x, t)
  BY <1>2, ClosingMoves DEF MarkDelivered
<1>3. CASE \E t \in Times : MarkFailed(w, x, t)
  BY <1>3, ClosingMoves DEF MarkFailed
<1>4. CASE \E t \in Times, delay \in RetryDelays(task[w][x].attempt) :
             MarkRetrying(w, x, t, delay)
  BY <1>4, RetryMoves
<1> QED BY <1>1, <1>2, <1>3, <1>4 DEF DeliveryStep

\* Steps that touch no task.
LEMMA StoreMoves ==
    ASSUME RowInv, NothingEarly, GoneTogether, UNCHANGED task, NEW e \in Occurrences,
           \/ UNCHANGED exec
           \/ \E E : FailOpen(E)
           \/ \E w \in Workers : CommitBatch(w)
           \/ \E w \in Workers, S \in SUBSET Schedules, t \in Times : Purge(w, S, t)
    PROVE  LeaseMove(e) /\ \A v \in Workers : TaskMove(v, e)
<1>1. \A v \in Workers : TaskMove(v, e)
  BY DEF TaskMove
<1>2. CASE UNCHANGED exec
  BY <1>1, <1>2 DEF LeaseMove
<1>3. CASE \E E : FailOpen(E)
  BY <1>1, <1>3, FailOpenLeaves
<1>4. CASE \E w \in Workers : CommitBatch(w)
  BY <1>1, <1>4, CommitBatchLeases
<1>5. CASE \E w \in Workers, S \in SUBSET Schedules, t \in Times : Purge(w, S, t)
  <2>1. exec'[e] = exec[e] \/ exec'[e] = NoExecution("purged")
    BY <1>5 DEF Purge
  <2> QED BY <1>1, <2>1 DEF LeaseMove, Left, NoExecution
<1> QED BY <1>2, <1>3, <1>4, <1>5

\* Every step of the system moves each row and each task in one of the ways above.
LEMMA Moves ==
    ASSUME RowInv, NothingEarly, GoneTogether, [Next]_vars, NEW e \in Occurrences
    PROVE  LeaseMove(e) /\ \A v \in Workers : TaskMove(v, e)
<1>1. CASE ApiNext /\ UNCHANGED workerVars
  <2>1. UNCHANGED exec \/ \E E : FailOpen(E)
    BY <1>1 DEF ApiNext, Create, ReadPatch, ReadBulk, CommitEdit, RefuseEdit, Archive,
       Subscribe, Unsubscribe, storeVars
  <2> QED BY <1>1, <2>1, StoreMoves DEF workerVars
<1>2. CASE LifecycleNext /\ UNCHANGED <<apiVars, workerVars>>
  <2>1. UNCHANGED exec \/ \E E : FailOpen(E)
    BY <1>2 DEF LifecycleNext, Suspend, SignIn, DeleteAccount
  <2> QED BY <1>2, <2>1, StoreMoves DEF workerVars
<1>3. CASE WorkerNext
  <2>1. PICK w \in Workers :
           WorkerStep(w) \/ Crash(w) \/ \E x \in Occurrences : TaskDies(w, x)
    BY <1>3 DEF WorkerNext
  <2>2. CASE \/ \E busy \in SUBSET Schedules, t \in Times : LockDue(w, busy, t)
             \/ CommitBatch(w) \/ AbortBatch(w) \/ Drained(w)
             \/ \E S \in SUBSET Schedules, t \in Times : Purge(w, S, t)
    <3>1. UNCHANGED task /\ (UNCHANGED exec \/ CommitBatch(w)
                            \/ \E S \in SUBSET Schedules, t \in Times : Purge(w, S, t))
      BY <2>2 DEF LockDue, CommitBatch, AbortBatch, Drained, Purge, storeVars
    <3> QED BY <3>1, StoreMoves
  <2>3. CASE \E busy \in SUBSET Occurrences, t \in Times : Claim(w, busy, t)
    BY <2>3, ClaimMoves
  <2>4. CASE \E x \in Occurrences : DeliveryStep(w, x)
    BY <2>4, DeliveryTasks
  <2>5. CASE Crash(w) \/ \E x \in Occurrences : TaskDies(w, x)
    <3>1. UNCHANGED exec /\ \A v \in Workers :
             task'[v][e] = task[v][e] \/ task'[v][e] = NoTask
      BY <2>5 DEF Crash, TaskDies, storeVars, RowInv, TypeOK, WorkerTypeOK
    <3> QED BY <3>1 DEF LeaseMove, TaskMove
  <2> QED BY <2>1, <2>2, <2>3, <2>4, <2>5 DEF WorkerStep
<1>4. CASE Tick /\ UNCHANGED <<apiVars, workerVars>>
  BY <1>4, StoreMoves DEF Tick, workerVars
<1>5. CASE UNCHANGED vars
  BY <1>5, StoreMoves DEF vars, storeVars, workerVars
<1> QED BY <1>1, <1>2, <1>3, <1>4, <1>5 DEF Next
----------------------------------------------------------------------------
(* Rows and the clock *)

\* Everything stored so far was due, and what is gone went with its reminder.
LEMMA TimelyRowsStep ==
    ASSUME TimelyRows, [Next]_vars
    PROVE  TimelyRows'
<1> USE DEF TimelyRows
<1>1. RowInv' /\ NothingEarly'
  BY NextRowInv, NothingEarlyStep
<1>2. clock \in Nat /\ clock' \in Nat /\ clock <= clock'
  BY ClockMoves, TimesAreNat
<1>3. GoneTogether'
  <2> SUFFICES ASSUME NEW e \in Occurrences, exec'[e].status = "purged"
               PROVE  sched'[e[1]].status = "purged"
    BY DEF GoneTogether
  <2>1. CASE Swept(e)
    BY <2>1 DEF Swept, NoSchedule
  <2>2. CASE ~Swept(e)
    <3>1. exec[e].status = "purged"
      BY <2>2, ExecutionMoves DEF ExecutionMove, Stored, Requeued, Ended
    <3>2. e[1] \in Schedules /\ sched[e[1]].status = "purged"
      BY <3>1, OccurrenceTypes DEF GoneTogether
    <3>3. ScheduleMove(e[1])
      BY <3>2, ScheduleMoves
    <3>4. NoSchedule("purged").status = "purged"
      BY DEF NoSchedule
    <3> QED BY <3>2, <3>3, <3>4 DEF ScheduleMove, Created, Bumped, Present, Removed
  <2> QED BY <2>1, <2>2
<1>4. StoredLate'
  <2> SUFFICES ASSUME NEW e \in Occurrences, exec'[e].status # "absent" PROVE e[2] <= clock'
    BY DEF StoredLate
  <2>1. e[2] \in Nat
    BY OccurrenceTypes
  <2>2. CASE Stored(e)
    BY <1>2, <2>1, <2>2, StoredIsDue
  <2>3. CASE ~Stored(e)
    <3>1. exec[e].status # "absent"
      BY <2>3, ExecutionMoves DEF ExecutionMove, Requeued, Ended, Swept, Exists, Open, Closed
    <3> QED BY <1>2, <2>1, <3>1 DEF StoredLate
  <2> QED BY <2>2, <2>3
<1> QED BY <1>1, <1>3, <1>4

\* What a claim writes.
LEMMA ClaimWrites ==
    ASSUME NEW row \in ValidExecutions, NEW w \in Workers, NEW t \in Times
    PROVE  /\ ClaimedRow(row, w, t).owner = w
           /\ ClaimedRow(row, w, t).attempts = row.attempts + 1
           /\ ClaimedRow(row, w, t).expires = t + Lease
           /\ ClaimedRow(row, w, t).next = row.next
           /\ ClaimedRow(row, w, t).status \in {"pending", "retrying"}
<1> DEFINE status == IF row.attempts = 0 THEN "pending" ELSE "retrying"
<1>1. ClaimedRow(row, w, t) = [row EXCEPT !.status = status, !.attempts = @ + 1, !.owner = w,
                                         !.expires = t + Lease]
  BY DEF ClaimedRow
<1>2. status \in {"pending", "retrying"}
  OBVIOUS
<1> HIDE DEF status
<1> QED BY <1>1, <1>2, Zenon DEF ValidExecutions, ExecutionRows

\* The fields of a new task.
LEMMA ClaimTaskIs ==
    ASSUME NEW e \in Occurrences, NEW t \in Times
    PROVE  /\ ClaimTask(e, t).pc = "claimed"
           /\ ClaimTask(e, t).attempt = exec[e].attempts + 1
           /\ ClaimTask(e, t).expires = t + Lease
           /\ ClaimTask(e, t).error = "none"
BY DEF ClaimTask, NoTask

\* A lease that runs keeps its row out of every claim.
LEMMA LeaseBlocks ==
    ASSUME RowInv, NEW w \in Workers, NEW e \in Occurrences, Knows(w, e), InHand(w, e),
           task[w][e].expires > clock, NEW t \in Stamps
    PROVE  ~Claimable(e, t)
<1> SUFFICES ASSUME Claimable(e, t) PROVE FALSE
  OBVIOUS
<1>1. Open(e) /\ (exec[e].expires = None \/ exec[e].expires <= t)
  BY DEF Claimable
<1>2. task[w][e].expires = exec[e].expires
  BY <1>1 DEF Knows
<1>3. task[w][e].expires \in Nat /\ clock \in Nat /\ t \in Nat /\ t <= clock
  BY TimesAreNat, TaskType DEF Stamps, RowInv, TypeOK, StoreTypeOK, Tasks
<1> QED BY <1>1, <1>2, <1>3, TimesAreNat

\* What a task knows of its row stays true, whatever others do to the row.
LEMMA HandsKnowStep ==
    ASSUME TimelyRows, HandsKnow, [Next]_vars, NEW w \in Workers, NEW e \in Occurrences
    PROVE  Knows(w, e)'
<1> USE DEF TimelyRows
<1>1. clock \in Nat /\ clock' \in Nat /\ clock <= clock'
  BY ClockMoves, TimesAreNat
<1>2. exec[e] \in ValidExecutions /\ task[w][e] \in Tasks /\ exec[e].attempts \in Nat
  BY DEF RowInv, TypeOK, StoreTypeOK, WorkerTypeOK, ValidExecutions, ExecutionRows
<1>3. Knows(w, e) /\ \A v \in Workers : Knows(v, e)
  BY DEF HandsKnow
<1>4. CASE Taken(w, e)
  <2>1. PICK t \in Stamps : /\ task'[w][e] = ClaimTask(e, t)
                            /\ exec'[e] = ClaimedRow(exec[e], w, t)
    BY <1>4 DEF Taken
  <2>2. t \in Times
    BY <2>1, StampsAreTimes
  <2>3. /\ exec'[e].owner = w /\ exec'[e].attempts = exec[e].attempts + 1
        /\ exec'[e].expires = t + Lease /\ exec'[e].status \in {"pending", "retrying"}
    BY <1>2, <2>1, <2>2, ClaimWrites
  <2>4. /\ task'[w][e].attempt = exec[e].attempts + 1
        /\ task'[w][e].expires = t + Lease
    BY <2>1, <2>2, ClaimTaskIs
  <2> QED BY <2>3, <2>4 DEF Knows
<1>5. CASE task'[w][e] = NoTask
  BY <1>5 DEF Knows, InHand, NoTask
<1>6. CASE task'[w][e] # NoTask /\ ~Taken(w, e)
  <2> SUFFICES ASSUME InHand(w, e)'
               PROVE  /\ exec'[e].status # "absent"
                      /\ Open(e)' /\ exec'[e].owner = w =>
                            /\ task'[w][e].attempt = exec'[e].attempts
                            /\ task'[w][e].expires = exec'[e].expires
                      /\ Open(e)' /\ task'[w][e].expires > clock' => exec'[e].owner = w
    BY DEF Knows
  <2>1. /\ InHand(w, e)
        /\ task'[w][e].attempt = task[w][e].attempt
        /\ task'[w][e].expires = task[w][e].expires
    BY <1>6, Moves DEF TaskMove, Worked, InHand
  <2>2. exec[e].status # "absent"
    BY <1>3, <2>1 DEF Knows
  <2>3. task[w][e].expires \in Nat
    BY <1>2 DEF Tasks
  <2>4. CASE exec'[e] = exec[e]
    BY <1>1, <1>3, <2>1, <2>2, <2>3, <2>4 DEF Knows, Open
  <2>5. CASE Left(e)
    BY <2>5 DEF Left, Open
  <2>6. CASE GivenBack(e)
    <3>1. PICK v \in Workers :
             Open(e) /\ exec[e].owner = v /\ exec'[e].owner = NoWorker /\ task'[v][e] = NoTask
      BY <2>6 DEF GivenBack
    <3>2. v # w
      BY <1>6, <3>1
    <3>3. ~(task[w][e].expires > clock)
      BY <1>3, <2>1, <3>1, <3>2 DEF Knows
    <3>4. exec'[e].status # "absent"
      BY <2>2, ExecutionMoves DEF ExecutionMove, Stored, Requeued, Ended, Swept
    <3> QED BY <1>1, <2>1, <2>3, <3>1, <3>3, <3>4, StoreAssumption
  <2>7. CASE StoredNew(e)
    BY <2>2, <2>7 DEF StoredNew
  <2>8. CASE \E v \in Workers : Taken(v, e)
    <3>1. PICK v \in Workers : Taken(v, e)
      BY <2>8
    <3>2. PICK t \in Stamps : Claimable(e, t) /\ exec'[e] = ClaimedRow(exec[e], v, t)
      BY <3>1 DEF Taken
    <3>3. exec'[e].owner = v /\ exec'[e].status \in {"pending", "retrying"} /\ v # w
      BY <1>2, <1>6, <3>1, <3>2, StampsAreTimes, ClaimWrites
    <3>4. ~(task[w][e].expires > clock)
      BY <1>3, <2>1, <3>2, LeaseBlocks
    <3> QED BY <1>1, <2>1, <2>3, <3>3, <3>4
  <2> QED BY <2>4, <2>5, <2>6, <2>7, <2>8, Moves DEF LeaseMove
<1> QED BY <1>4, <1>5, <1>6

\* A second worker gets hold of an execution only after the first one's lease.
LEMMA LeaseExcludesStep ==
    ASSUME TimelyRows, HandsKnow, LeaseExcludes, [Next]_vars
    PROVE  LeaseExcludes'
<1> SUFFICES ASSUME NEW w1 \in Workers, NEW w2 \in Workers, NEW e \in Occurrences,
                    w1 # w2, InHand(w1, e)', InHand(w2, e)',
                    task'[w1][e].expires > clock', task'[w2][e].expires > clock'
             PROVE  FALSE
  <2>1. \A w \in Workers, e \in Occurrences : task'[w][e].expires \in Nat
    BY NextRowInv DEF TimelyRows, RowInv, TypeOK, WorkerTypeOK, Tasks
  <2>2. clock' \in Nat
    BY ClockMoves, TimesAreNat DEF TimelyRows
  <2> QED BY <2>1, <2>2 DEF LeaseExcludes
<1> USE DEF TimelyRows
<1>1. clock \in Nat /\ clock' \in Nat /\ clock <= clock'
  BY ClockMoves, TimesAreNat
<1>2. Knows(w1, e)' /\ Knows(w2, e)'
  BY HandsKnowStep
<1>3. ASSUME NEW v \in Workers, NEW w \in Workers, v # w, Taken(v, e),
             InHand(w, e)', task'[w][e].expires > clock'
      PROVE  FALSE
  <2>1. PICK t \in Stamps : Claimable(e, t) /\ exec'[e] = ClaimedRow(exec[e], v, t)
    BY <1>3 DEF Taken
  <2>2. exec[e] \in ValidExecutions
    BY DEF RowInv, TypeOK, StoreTypeOK
  <2>3. exec'[e].owner = v /\ exec'[e].status \in {"pending", "retrying"}
    BY <2>1, <2>2, StampsAreTimes, ClaimWrites
  <2>4. Knows(w, e)'
    BY HandsKnowStep
  <2> QED BY <1>3, <2>3, <2>4 DEF Knows, Open
<1>4. ~Taken(w1, e) /\ ~Taken(w2, e)
  BY <1>3
<1>5. \A w \in {w1, w2} : InHand(w, e) /\ task'[w][e].expires = task[w][e].expires
  BY <1>4, Moves DEF TaskMove, Worked, InHand, NoTask
<1>6. task[w1][e].expires \in Nat /\ task[w2][e].expires \in Nat
  BY DEF RowInv, TypeOK, WorkerTypeOK, Tasks
<1> QED BY <1>1, <1>5, <1>6 DEF LeaseExcludes

\* A row waits for a retry only after an attempt below the maximum, and its wait
\* only gets shorter.
LEMMA RetriesAreLeftStep ==
    ASSUME TimelyRows, HandsKnow, RetriesAreLeft, [Next]_vars
    PROVE  RetriesAreLeft'
<1> SUFFICES ASSUME NEW e \in Occurrences, Open(e)', exec'[e].owner = NoWorker
             PROVE  exec'[e].attempts < MaxAttempts /\ exec'[e].next <= clock' + MaxDelay
  BY DEF RetriesAreLeft
<1> USE DEF TimelyRows
<1>1. clock \in Nat /\ clock' \in Nat /\ clock <= clock' /\ MaxDelay \in Nat
  BY ClockMoves, TimesAreNat, WorkerAssumption
<1>2. CASE exec'[e] = exec[e]
  <2>1. Open(e) /\ exec[e].owner = NoWorker
    BY <1>2 DEF Open
  <2>2. exec[e].attempts < MaxAttempts /\ exec[e].next <= clock + MaxDelay
    BY <2>1 DEF RetriesAreLeft
  <2>3. exec[e].next \in Int
    BY DEF RowInv, TypeOK, StoreTypeOK, ValidExecutions, ExecutionRows, None
  <2> QED BY <1>1, <1>2, <2>2, <2>3
<1>3. CASE Left(e)
  BY <1>3 DEF Left, Open
<1>4. CASE GivenBack(e)
  BY <1>1, <1>4 DEF GivenBack, HandsKnow, Knows, InHand
<1>5. CASE StoredNew(e)
  BY <1>1, <1>5, WorkerAssumption DEF StoredNew
<1>6. CASE \E w \in Workers : Taken(w, e)
  <2>1. PICK w \in Workers, t \in Stamps : exec'[e] = ClaimedRow(exec[e], w, t)
    BY <1>6 DEF Taken
  <2>2. exec[e] \in ValidExecutions
    BY DEF RowInv, TypeOK, StoreTypeOK
  <2> QED BY <2>1, <2>2, StampsAreTimes, ClaimWrites, StoreAssumption
<1> QED BY <1>2, <1>3, <1>4, <1>5, <1>6, Moves DEF LeaseMove

\* Leases, with what tasks know of their rows, are preserved.
LEMMA LeaseInvStep ==
    ASSUME LeaseInv, [Next]_vars
    PROVE  LeaseInv'
<1>1. HandsKnow'
  BY HandsKnowStep DEF LeaseInv, HandsKnow
<1> QED BY <1>1, TimelyRowsStep, LeaseExcludesStep, RetriesAreLeftStep DEF LeaseInv

\* Nothing is stored or in hand at the start.
LEMMA InitLeaseInv == Init => LeaseInv
<1> SUFFICES ASSUME Init PROVE LeaseInv
  OBVIOUS
<1> USE DEF Init, StoreInit, WorkerInit
<1>1. RowInv
  BY InitRowInv
<1>2. NothingEarly
  BY InitOccurrenceInv DEF OccurrenceInv
<1>3. \A e \in Occurrences : exec[e].status = "absent"
  BY DEF NoExecution
<1>4. \A w \in Workers, e \in Occurrences : ~InHand(w, e)
  BY DEF InHand, NoTask
<1>5. GoneTogether /\ StoredLate /\ RetriesAreLeft
  BY <1>3 DEF GoneTogether, StoredLate, RetriesAreLeft, Open
<1>6. HandsKnow /\ LeaseExcludes
  BY <1>4 DEF HandsKnow, Knows, LeaseExcludes
<1> QED BY <1>1, <1>2, <1>5, <1>6 DEF LeaseInv, TimelyRows

\* While a lease runs, no other worker has the execution in hand, however old
\* the clock reads are.
THEOREM LeasesAreExclusive == Spec => []LeaseExcludes
<1>1. LeaseInv /\ [Next]_vars => LeaseInv'
  BY LeaseInvStep
<1>2. LeaseInv => LeaseExcludes
  BY DEF LeaseInv
<1> QED BY <1>1, <1>2, InitLeaseInv, PTL DEF Spec

\* An execution that waits for its next attempt has one left, and gets to it after
\* at most the cap on one delay.
THEOREM WaitingHasAttempts == Spec => []RetriesAreLeft
<1>1. LeaseInv /\ [Next]_vars => LeaseInv'
  BY LeaseInvStep
<1>2. LeaseInv => RetriesAreLeft
  BY DEF LeaseInv
<1> QED BY <1>1, <1>2, InitLeaseInv, PTL DEF Spec
----------------------------------------------------------------------------
(* How often, and never stranded *)

\* An execution waits out its lease or its retry delay between two attempts, and
\* a clock read that is Lag old takes that much off the delay.
Pace == Least(Lease, BaseDelay - Lag)

\* However many workers claim an execution, lose it and retry it, its attempts
\* keep their distance: n of them take n - 1 times the pace since it was due.
\* (MaxAttempts does not bound them all: see the run attempts.)
AttemptsArePaced ==
    \A e \in Occurrences : exec[e].attempts > 0 =>
        (exec[e].attempts - 1) * Pace <= clock - e[2]

\* An attempt beyond the maximum is made only because a worker let the lease of
\* an earlier one run out without a result: no refusal or timeout of a receiver
\* that a worker has lived to write down is followed by one.
OverrunsFollowLosses ==
    [][\A e \in Occurrences :
          exec'[e].attempts > exec[e].attempts /\ exec[e].attempts >= MaxAttempts
              => exec[e].owner # NoWorker /\ exec[e].expires <= clock]_vars

\* An open execution of a live account is claimable as it stands once its longest
\* delay or its lease has passed, whoever died or was suspended over it, unless
\* its reminder's retention has ended by then.
NoneIsStranded ==
    \A e \in Occurrences, t \in Times :
        /\ Open(e) /\ OwnerIsLive(e[1]) /\ Retained(e[1], t)
        /\ t >= clock + (IF exec[e].owner = NoWorker THEN MaxDelay ELSE Lease)
        => Claimable(e, t)

\* The times of one row: when it was claimed last, and when it may be next.
Paced(e) ==
    /\ exec[e].attempts > 0 => (exec[e].attempts - 1) * Pace <= clock - e[2]
    /\ Open(e) /\ exec[e].owner = NoWorker => exec[e].next >= e[2] + exec[e].attempts * Pace
    /\ Open(e) /\ exec[e].owner # NoWorker =>
          /\ exec[e].next <= clock
          /\ exec[e].expires <= clock + Lease
          /\ exec[e].expires - Lease >= e[2] + (exec[e].attempts - 1) * Pace

\* An execution is open only while its reminder has a row.
OpenIsPresent == \A e \in Occurrences : Open(e) => Present(e[1])

PaceInv ==
    /\ LeaseInv /\ ArchivedIsQuiet /\ OpenIsPresent
    /\ \A e \in Occurrences : Paced(e)

\* One attempt more takes one pace more.
LEMMA OnePaceMore ==
    ASSUME NEW a \in Nat
    PROVE  /\ Pace \in Int /\ Pace <= Lease /\ Pace <= BaseDelay - Lag
           /\ a * Pace \in Int /\ (a - 1) * Pace \in Int
           /\ a * Pace = (a - 1) * Pace + Pace
           /\ (a + 1) - 1 = a /\ 0 * Pace = 0
<1>1. Pace \in Int /\ Pace <= Lease /\ Pace <= BaseDelay - Lag
  BY StoreAssumption, WorkerAssumption DEF Pace, Least
<1> QED BY <1>1

\* The numbers in a row.
LEMMA RowNumbers ==
    ASSUME RowInv, NEW e \in Occurrences
    PROVE  /\ exec[e] \in ValidExecutions /\ exec[e].attempts \in Nat
           /\ Open(e) => exec[e].next \in Nat
           /\ exec[e].owner # NoWorker => exec[e].expires \in Nat /\ exec[e].expires # None
           /\ exec[e].owner = NoWorker => exec[e].expires = None
           /\ exec[e].owner # NoWorker => exec[e].attempts > 0
<1>1. exec[e] \in ValidExecutions
  BY DEF RowInv, TypeOK, StoreTypeOK
<1>2. exec[e] \in ExecutionRows /\ ExecutionChecks(exec[e])
  BY <1>1 DEF ValidExecutions
<1>3. /\ exec[e].attempts \in Nat /\ exec[e].next \in Nat \cup {None}
      /\ exec[e].expires \in Nat \cup {None}
  BY <1>2 DEF ExecutionRows
<1>4. /\ exec[e].next = None <=> exec[e].status \notin {"pending", "retrying"}
      /\ exec[e].owner = NoWorker <=> exec[e].expires = None
  BY <1>2 DEF ExecutionChecks
<1> QED BY <1>1, <1>3, <1>4 DEF Open, RowInv, LeasesCount

\* A claim comes a pace after the one before it.
LEMMA ClaimIsPaced ==
    ASSUME RowInv, NEW e \in Occurrences, Paced(e), NEW t \in Stamps, Claimable(e, t)
    PROVE  t >= e[2] + exec[e].attempts * Pace /\ exec[e].next <= t
<1>1. /\ t \in Nat /\ t <= clock /\ clock \in Nat
      /\ e[2] \in Nat /\ Lease \in Nat
  BY TimesAreNat, OccurrenceTypes, WorkerAssumption DEF Stamps, RowInv, TypeOK, StoreTypeOK
<1>2. /\ Open(e) /\ exec[e].next <= t /\ exec[e].next \in Nat /\ exec[e].attempts \in Nat
      /\ exec[e].expires = None \/ exec[e].expires <= t
  BY RowNumbers DEF Claimable
<1> DEFINE a == exec[e].attempts
<1>3. /\ Pace \in Int /\ Pace <= Lease /\ a * Pace \in Int /\ (a - 1) * Pace \in Int
      /\ a * Pace = (a - 1) * Pace + Pace
  BY <1>2, OnePaceMore
<1>4. CASE exec[e].owner = NoWorker
  <2>1. exec[e].next >= e[2] + a * Pace
    BY <1>2, <1>4 DEF Paced
  <2> QED BY <1>1, <1>2, <1>3, <2>1
<1>5. CASE exec[e].owner # NoWorker
  <2>1. exec[e].expires \in Nat /\ exec[e].expires <= t
    BY <1>2, <1>5, RowNumbers
  <2>2. exec[e].expires - Lease >= e[2] + (a - 1) * Pace
    BY <1>2, <1>5 DEF Paced
  <2> QED BY <1>1, <1>2, <1>3, <2>1, <2>2
<1> QED BY <1>4, <1>5

\* Every row keeps its pace.
LEMMA PacedStep ==
    ASSUME LeaseInv, NEW e \in Occurrences, Paced(e), [Next]_vars
    PROVE  Paced(e)'
<1> USE DEF LeaseInv, TimelyRows
<1>1. clock \in Nat /\ clock' \in Nat /\ clock <= clock' /\ e[2] \in Nat /\ Lease \in Nat
  BY ClockMoves, TimesAreNat, OccurrenceTypes, WorkerAssumption
<1> DEFINE a == exec[e].attempts
<1>2. a \in Nat /\ exec[e] \in ValidExecutions
  BY RowNumbers
<1>3. /\ Pace \in Int /\ Pace <= Lease /\ Pace <= BaseDelay - Lag
      /\ a * Pace \in Int /\ (a - 1) * Pace \in Int
      /\ a * Pace = (a - 1) * Pace + Pace
      /\ (a + 1) - 1 = a /\ 0 * Pace = 0
  BY <1>2, OnePaceMore
<1>4. a > 0 => (a - 1) * Pace <= clock' - e[2]
  BY <1>1, <1>3 DEF Paced
<1>5. CASE exec'[e] = exec[e]
  <2>1. Open(e)' = Open(e)
    BY <1>5 DEF Open
  <2>2. Open(e) /\ exec[e].owner # NoWorker =>
           exec[e].next <= clock' /\ exec[e].expires <= clock' + Lease
    BY <1>1, RowNumbers DEF Paced
  <2> QED BY <1>4, <1>5, <2>1, <2>2 DEF Paced
<1>6. CASE Left(e)
  BY <1>4, <1>6 DEF Left, Paced, Open
<1>7. CASE GivenBack(e)
  <2>1. /\ Open(e) /\ exec[e].owner # NoWorker
        /\ exec'[e].owner = NoWorker /\ exec'[e].attempts = a
        /\ exec'[e].next \in Nat /\ exec'[e].next >= clock - Lag + BaseDelay
    BY <1>7, StoreAssumption DEF GivenBack
  <2>2. /\ exec[e].expires \in Nat /\ exec[e].expires <= clock + Lease
        /\ exec[e].expires - Lease >= e[2] + (a - 1) * Pace
    BY <2>1, RowNumbers DEF Paced
  <2>3. BaseDelay \in Nat /\ Lag \in Nat
    BY StoreAssumption, WorkerAssumption
  <2>4. exec'[e].next >= e[2] + a * Pace
    BY <1>1, <1>3, <2>1, <2>2, <2>3
  <2> QED BY <1>4, <2>1, <2>4 DEF Paced
<1>8. CASE StoredNew(e)
  <2>1. /\ exec'[e].owner = NoWorker /\ exec'[e].attempts = 0
        /\ exec'[e].next \in Nat /\ exec'[e].next >= e[2]
    BY <1>8 DEF StoredNew
  <2> QED BY <1>1, <1>3, <2>1 DEF Paced
<1>9. CASE \E w \in Workers : Taken(w, e)
  <2>1. PICK w \in Workers, t \in Stamps :
           Claimable(e, t) /\ exec'[e] = ClaimedRow(exec[e], w, t) /\ UNCHANGED clock
    BY <1>9 DEF Taken
  <2>2. /\ exec'[e].owner = w /\ exec'[e].attempts = a + 1
        /\ exec'[e].expires = t + Lease /\ exec'[e].next = exec[e].next
    BY <1>2, <2>1, StampsAreTimes, ClaimWrites
  <2>3. t >= e[2] + a * Pace /\ exec[e].next <= t
    BY <2>1, ClaimIsPaced
  <2>4. t \in Nat /\ t <= clock /\ w # NoWorker
    BY <2>1, TimesAreNat, StoreAssumption DEF Stamps
  <2>5. exec[e].next \in Nat
    BY <2>1, RowNumbers DEF Claimable
  <2>6. a * Pace <= clock - e[2]
    BY <1>1, <1>3, <2>3, <2>4
  <2>7. /\ exec'[e].next <= clock' /\ exec'[e].expires <= clock' + Lease
        /\ exec'[e].expires - Lease >= e[2] + a * Pace
    BY <1>1, <1>3, <2>1, <2>2, <2>3, <2>4, <2>5
  <2> QED BY <1>1, <1>3, <2>1, <2>2, <2>4, <2>6, <2>7 DEF Paced
<1> QED BY <1>5, <1>6, <1>7, <1>8, <1>9, Moves DEF LeaseMove

\* A reminder's row goes only with its open executions.
LEMMA OpenIsPresentStep ==
    ASSUME LeaseInv, OpenIsPresent, [Next]_vars
    PROVE  OpenIsPresent'
<1> USE DEF LeaseInv, TimelyRows
<1> SUFFICES ASSUME NEW e \in Occurrences, Open(e)' PROVE Present(e[1])'
  BY DEF OpenIsPresent
<1>1. e[1] \in Schedules /\ e \in OccurrencesOf(e[1])
  BY OccurrenceTypes
<1>2. Present(e[1])
  <2>1. CASE Stored(e)
    BY <2>1 DEF Stored, RowInv, LocksHold, Present
  <2>2. CASE ~Stored(e)
    <3>1. Open(e)
      BY <2>2, ExecutionMoves DEF ExecutionMove, Requeued, Ended, Swept, Open
    <3> QED BY <3>1 DEF OpenIsPresent
  <2> QED BY <2>1, <2>2
<1>3. ScheduleMove(e[1])
  BY <1>1, ScheduleMoves
<1> QED BY <1>1, <1>2, <1>3 DEF ScheduleMove, Created, Bumped, Removed, Open, Present

\* All of it is preserved.
LEMMA PaceInvStep ==
    ASSUME PaceInv, [Next]_vars
    PROVE  PaceInv'
<1> USE DEF PaceInv
<1>1. LeaseInv' /\ OpenIsPresent'
  BY LeaseInvStep, OpenIsPresentStep
<1>2. ArchivedIsQuiet'
  BY ArchivedIsQuietStep DEF LeaseInv, TimelyRows
<1>3. \A e \in Occurrences : Paced(e)'
  BY PacedStep
<1> QED BY <1>1, <1>2, <1>3

\* Nothing has been attempted at the start.
LEMMA InitPaceInv == Init => PaceInv
<1> SUFFICES ASSUME Init PROVE PaceInv
  OBVIOUS
<1>1. LeaseInv
  BY InitLeaseInv
<1>2. \A e \in Occurrences : exec[e].status = "absent" /\ exec[e].attempts = 0
  BY DEF Init, StoreInit, NoExecution
<1>3. ArchivedIsQuiet
  BY DEF Init, StoreInit, ArchivedIsQuiet, NoSchedule
<1>4. OpenIsPresent /\ \A e \in Occurrences : Paced(e)
  BY <1>2 DEF OpenIsPresent, Paced, Open
<1> QED BY <1>1, <1>3, <1>4 DEF PaceInv

\* The attempts of one execution keep their distance, whichever workers make
\* them and however many lose their leases or die.
THEOREM AttemptsKeepDistance == Spec => []AttemptsArePaced
<1>1. PaceInv /\ [Next]_vars => PaceInv'
  BY PaceInvStep
<1>2. PaceInv => AttemptsArePaced
  BY DEF PaceInv, Paced, AttemptsArePaced
<1> QED BY <1>1, <1>2, InitPaceInv, PTL DEF Spec

\* No open execution of a live account is left where no worker would ever take
\* it: the state that EveryExecutionCloses needs, for every instance.
THEOREM OpenIsReachable == Spec => []NoneIsStranded
<1>1. PaceInv /\ [Next]_vars => PaceInv'
  BY PaceInvStep
<1>2. PaceInv => NoneIsStranded
  <2> SUFFICES ASSUME PaceInv, NEW e \in Occurrences, NEW t \in Times,
                      Open(e), OwnerIsLive(e[1]), Retained(e[1], t),
                      t >= clock + (IF exec[e].owner = NoWorker THEN MaxDelay ELSE Lease)
               PROVE  Claimable(e, t)
    BY DEF NoneIsStranded
  <2> USE DEF PaceInv, LeaseInv, TimelyRows
  <2>1. /\ clock \in Nat /\ t \in Nat /\ MaxDelay \in Nat /\ Lease \in Nat
        /\ exec[e].next \in Nat
    BY TimesAreNat, WorkerAssumption, RowNumbers DEF RowInv, TypeOK, StoreTypeOK
  <2>2. Deliverable(e[1], t)
    BY OccurrenceTypes DEF Deliverable, OpenIsPresent, ArchivedIsQuiet
  <2>3. CASE exec[e].owner = NoWorker
    <3>1. exec[e].next <= clock + MaxDelay /\ exec[e].expires = None
      BY <2>3, RowNumbers DEF RetriesAreLeft
    <3> QED BY <2>1, <2>2, <2>3, <3>1 DEF Claimable
  <2>4. CASE exec[e].owner # NoWorker
    <3>1. Paced(e) /\ exec[e].expires \in Nat
      BY <2>4, RowNumbers
    <3>2. exec[e].next <= clock /\ exec[e].expires <= clock + Lease
      BY <2>4, <3>1 DEF Paced
    <3> QED BY <2>1, <2>2, <2>4, <3>1, <3>2 DEF Claimable
  <2> QED BY <2>3, <2>4
<1> QED BY <1>1, <1>2, InitPaceInv, PTL DEF Spec

\* Attempts beyond the maximum come of lost leases only.
THEOREM OverrunsAreLosses == Spec => OverrunsFollowLosses
<1>1. PaceInv /\ [Next]_vars => PaceInv'
  BY PaceInvStep
<1>2. PaceInv /\ [Next]_vars =>
        \A e \in Occurrences :
          exec'[e].attempts > exec[e].attempts /\ exec[e].attempts >= MaxAttempts
              => exec[e].owner # NoWorker /\ exec[e].expires <= clock
  <2> SUFFICES ASSUME PaceInv, [Next]_vars, NEW e \in Occurrences,
                      exec'[e].attempts > exec[e].attempts, exec[e].attempts >= MaxAttempts
               PROVE  exec[e].owner # NoWorker /\ exec[e].expires <= clock
    OBVIOUS
  <2> USE DEF PaceInv, LeaseInv, TimelyRows
  <2>1. exec[e].attempts \in Nat /\ MaxAttempts \in Nat
    BY RowNumbers, WorkerAssumption
  <2>2. \E w \in Workers : Taken(w, e)
    BY <2>1, Moves, WorkerAssumption DEF LeaseMove, Left, GivenBack, StoredNew
  <2>3. PICK t \in Stamps : Claimable(e, t)
    BY <2>2 DEF Taken
  <2>4. t \in Nat /\ t <= clock /\ clock \in Nat
    BY TimesAreNat DEF Stamps, RowInv, TypeOK, StoreTypeOK
  <2>5. exec[e].owner # NoWorker
    BY <2>1, <2>3 DEF Claimable, RetriesAreLeft
  <2>6. exec[e].expires \in Nat /\ exec[e].expires <= t
    BY <2>3, <2>5, RowNumbers DEF Claimable
  <2> QED BY <2>4, <2>5, <2>6
<1> QED BY <1>1, <1>2, InitPaceInv, PTL DEF Spec, OverrunsFollowLosses
----------------------------------------------------------------------------
(* Who has been reached *)

\* The only steps that change subscriptions.
LEMMA HookMoves ==
    ASSUME [Next]_vars
    PROVE  \/ UNCHANGED hook
           \/ \E r \in Receivers : Subscribe(r) \/ Unsubscribe(r)
           \/ \E a \in Accounts : DeleteAccount(a)
<1>1. CASE ApiNext
  BY <1>1 DEF ApiNext, Create, ReadPatch, ReadBulk, CommitEdit, RefuseEdit, Archive, storeVars
<1>2. CASE LifecycleNext
  BY <1>2 DEF LifecycleNext, Suspend, SignIn
<1>3. CASE WorkerNext
  <2>1. PICK w \in Workers :
           WorkerStep(w) \/ Crash(w) \/ \E x \in Occurrences : TaskDies(w, x)
    BY <1>3 DEF WorkerNext
  <2>2. CASE \E x \in Occurrences : DeliveryStep(w, x)
    BY <2>2 DEF DeliveryStep, Resolve, ResolveFails, Recheck, Post, MarkDelivered,
       MarkRetrying, MarkFailed, WriteResult, storeVars
  <2>3. CASE ~\E x \in Occurrences : DeliveryStep(w, x)
    BY <2>1, <2>3 DEF WorkerStep, LockDue, CommitBatch, AbortBatch, Claim, Drained, Purge,
       Crash, TaskDies, storeVars
  <2> QED BY <2>2, <2>3
<1>4. CASE Tick \/ UNCHANGED vars
  BY <1>4 DEF Tick, vars, storeVars
<1> QED BY <1>1, <1>2, <1>3, <1>4 DEF Next

\* The receivers a stored occurrence is owed to become fewer: a subscription
\* made now is no older than the occurrence.
LEMMA OwedShrinks ==
    ASSUME TimelyRows, [Next]_vars, NEW e \in Occurrences, exec[e].status # "absent"
    PROVE  Owed(e)' \subseteq Owed(e)
<1>1. e[2] \in Nat /\ clock \in Nat /\ e[2] <= clock
  BY OccurrenceTypes, TimesAreNat DEF TimelyRows, StoredLate, RowInv, TypeOK, StoreTypeOK
<1>2. \A r \in Receivers : hook'[r] \in {hook[r], None, clock}
  <2>1. CASE UNCHANGED hook
    BY <2>1
  <2>2. CASE \E r \in Receivers : Subscribe(r) \/ Unsubscribe(r)
    BY <2>2 DEF Subscribe, Unsubscribe, TimelyRows, RowInv, TypeOK, StoreTypeOK
  <2>3. CASE \E a \in Accounts : DeleteAccount(a)
    BY <2>3 DEF DeleteAccount
  <2>4. UNCHANGED hook \/ (\E r \in Receivers : Subscribe(r) \/ Unsubscribe(r))
           \/ \E a \in Accounts : DeleteAccount(a)
    BY HookMoves
  <2> QED BY <2>1, <2>2, <2>3, <2>4
<1> QED BY <1>1, <1>2 DEF Owed

\* What an occurrence has reached grows, and only while a task has it in hand.
LEMMA GotGrows ==
    ASSUME RowInv, [Next]_vars, NEW e \in Occurrences
    PROVE  /\ got[e] \subseteq got'[e]
           /\ got'[e] # got[e] => \E w \in Workers : InHand(w, e)
<1>1. CASE UNCHANGED got
  BY <1>1
<1>2. CASE \E w \in Workers, x \in Occurrences, r \in Receivers, answer \in Answers :
              Post(w, x, r, answer)
  <2>1. PICK w \in Workers, x \in Occurrences, r \in Receivers, answer \in Answers :
           Post(w, x, r, answer)
    BY <1>2
  <2>2. InHand(w, x)
    BY <2>1 DEF Post, TaskStep, InHand
  <2>3. UNCHANGED got \/ got' = [got EXCEPT ![x] = @ \cup {r}]
    BY <2>1 DEF Post
  <2> QED BY <2>2, <2>3 DEF RowInv, TypeOK, StoreTypeOK
<1>3. CASE ApiNext \/ LifecycleNext \/ Tick \/ UNCHANGED vars
  BY <1>1, <1>3 DEF ApiNext, Create, ReadPatch, ReadBulk, CommitEdit, RefuseEdit, Archive,
     Subscribe, Unsubscribe, LifecycleNext, Suspend, SignIn, DeleteAccount, Tick, vars, storeVars
<1>4. CASE WorkerNext
  <2>1. PICK w \in Workers :
           WorkerStep(w) \/ Crash(w) \/ \E x \in Occurrences : TaskDies(w, x)
    BY <1>4 DEF WorkerNext
  <2>2. CASE \E x \in Occurrences : DeliveryStep(w, x)
    BY <1>1, <1>2, <2>2 DEF DeliveryStep, Resolve, ResolveFails, Recheck, MarkDelivered,
       MarkRetrying, MarkFailed, WriteResult, storeVars
  <2>3. CASE ~\E x \in Occurrences : DeliveryStep(w, x)
    BY <1>1, <2>1, <2>3 DEF WorkerStep, LockDue, CommitBatch, AbortBatch, Claim, Drained, Purge,
       Crash, TaskDies, storeVars
  <2> QED BY <2>2, <2>3
<1> QED BY <1>3, <1>4 DEF Next

\* A task goes on with everyone it found, or with those it has not reached yet.
LEMMA HandsCarryStep ==
    ASSUME LeaseInv, HandsCarry, [Next]_vars, NEW w \in Workers, NEW e \in Occurrences
    PROVE  Carries(w, e)'
<1> USE DEF LeaseInv, TimelyRows
<1>1. Carries(w, e)
  BY DEF HandsCarry
<1>2. got[e] \subseteq got'[e]
  BY GotGrows
<1>3. InHand(w, e) => Owed(e)' \subseteq Owed(e)
  BY OwedShrinks DEF HandsKnow, Knows
<1>4. CASE task'[w][e] = task[w][e]
  <2>1. CASE InHand(w, e)
    BY <1>1, <1>2, <1>3, <1>4, <2>1 DEF Carries
  <2>2. CASE ~InHand(w, e)
    BY <1>4, <2>2 DEF Carries, InHand
  <2> QED BY <2>1, <2>2
<1>5. CASE task'[w][e] = NoTask
  BY <1>5 DEF Carries, NoTask
<1>6. CASE Taken(w, e)
  <2>1. task'[w][e].pc = "claimed" /\ task'[w][e].error = "none"
    BY <1>6, StampsAreTimes, ClaimTaskIs DEF Taken
  <2> QED BY <2>1 DEF Carries
<1>7. CASE Worked(w, e)
  <2> DEFINE old == task[w][e]
             new == task'[w][e]
  <2>1. Owed(e)' \subseteq Owed(e)
    BY <1>3, <1>7 DEF Worked
  <2>2. CASE new.pc = "failing"
    BY <2>2 DEF Carries
  <2>3. CASE Resolved(old, new, e)
    <3>1. Owed(e) \subseteq Subscriptions(e[1])
      BY DEF Owed, Subscriptions
    <3> QED BY <1>1, <2>1, <2>3, <3>1 DEF Carries, Resolved
  <2>4. CASE Rechecked(old, new)
    BY <1>1, <1>2, <2>1, <2>4 DEF Carries, Rechecked
  <2>5. CASE Posted(old, new, e)
    BY <1>1, <1>2, <2>1, <2>5 DEF Carries, Posted
  <2> QED BY <1>7, <2>2, <2>3, <2>4, <2>5 DEF Worked
<1> QED BY <1>4, <1>5, <1>6, <1>7, Moves DEF TaskMove

\* The step that closes an execution as delivered finds everyone reached.
LEMMA ClosesReached ==
    ASSUME LeaseInv, HandsCarry, [Next]_vars, NEW e \in Occurrences,
           exec'[e].status = "delivered", exec[e].status # "delivered"
    PROVE  Owed(e) \subseteq got[e] /\ UNCHANGED <<hook, got>>
<1> USE DEF LeaseInv, TimelyRows
<1>1. ~StoredNew(e) /\ ~GivenBack(e)
  BY DEF StoredNew, Stored, GivenBack
<1>2. ~\E w \in Workers : Taken(w, e)
  <2>1. exec[e] \in ValidExecutions
    BY DEF RowInv, TypeOK, StoreTypeOK
  <2> QED BY <2>1, StampsAreTimes, ClaimWrites DEF Taken
<1>3. Left(e)
  BY <1>1, <1>2, Moves DEF LeaseMove
<1> QED BY <1>3 DEF Left, HandsCarry, Carries

\* What a delivered execution has reached stays enough.
LEMMA DeliveredReachedAllStep ==
    ASSUME ReachInv, [Next]_vars
    PROVE  DeliveredReachedAll'
<1> SUFFICES ASSUME NEW e \in Occurrences, exec'[e].status = "delivered"
             PROVE  Owed(e)' \subseteq got'[e]
  BY DEF DeliveredReachedAll
<1> USE DEF ReachInv, LeaseInv
<1>1. CASE exec[e].status = "delivered"
  <2>1. Owed(e)' \subseteq Owed(e) /\ got[e] \subseteq got'[e]
    BY <1>1, OwedShrinks, GotGrows DEF TimelyRows
  <2> QED BY <1>1, <2>1 DEF DeliveredReachedAll
<1>2. CASE exec[e].status # "delivered"
  BY <1>2, ClosesReached DEF Owed
<1> QED BY <1>1, <1>2

\* The invariant of what was reached is inductive.
LEMMA ReachInvStep ==
    ASSUME ReachInv, [Next]_vars
    PROVE  ReachInv'
<1>1. HandsCarry'
  BY HandsCarryStep DEF ReachInv, HandsCarry
<1> QED BY <1>1, LeaseInvStep, DeliveredReachedAllStep DEF ReachInv

\* No task carries anything at the start.
LEMMA InitReachInv == Init => ReachInv
<1> SUFFICES ASSUME Init PROVE ReachInv
  OBVIOUS
<1>1. HandsCarry
  BY DEF Init, WorkerInit, HandsCarry, Carries, NoTask
<1>2. DeliveredReachedAll
  BY DEF Init, StoreInit, NoExecution, DeliveredReachedAll
<1> QED BY <1>1, <1>2, InitLeaseInv DEF ReachInv

\* At least once: what counts as delivered has reached everyone that has been
\* subscribed since before it was due, over whatever attempts and workers.
THEOREM DeliveredIsReceived == Spec => []DeliveredReachedAll
<1>1. ReachInv /\ [Next]_vars => ReachInv'
  BY ReachInvStep
<1>2. ReachInv => DeliveredReachedAll
  BY DEF ReachInv
<1> QED BY <1>1, <1>2, InitReachInv, PTL DEF Spec
----------------------------------------------------------------------------
(* The tables implement the outbox *)

\* The phase of the outbox that each status stands for.
LEMMA PhaseOf ==
    ASSUME RowInv, NEW e \in Occurrences
    PROVE  /\ exec[e].status = "absent" => Phase(e) = "none"
           /\ Open(e) => Phase(e) = "open"
           /\ exec[e].status = "delivered" => Phase(e) = "delivered"
           /\ exec[e].status = "failed" => Phase(e) = "failed"
           /\ exec[e].status = "purged" => Phase(e) = "gone"
           /\ \/ exec[e].status \in {"absent", "delivered", "failed", "purged"}
              \/ Open(e)
<1>1. exec[e].status \in ExecutionStatus
  BY DEF RowInv, TypeOK, StoreTypeOK, ValidExecutions, ExecutionRows
<1> QED BY <1>1 DEF Phase, Open, ExecutionStatus

\* One occurrence moves along its life, or not at all.
LEMMA PhaseMoves ==
    ASSUME LeaseInv, HandsCarry, [Next]_vars, NEW e \in Occurrences
    PROVE  /\ Phase(e)' # Phase(e) => <<Phase(e), Phase(e)'>> \in Abstract!Moves
           /\ Phase(e)' = "delivered" /\ Phase(e) # "delivered" => Owed(e) \subseteq got[e]
           /\ Phase(e) = "none" => exec[e].status = "absent"
<1> USE DEF LeaseInv, TimelyRows
<1>1. RowInv'
  BY NextRowInv
<1>2. /\ exec'[e].status = "absent" => Phase(e)' = "none"
      /\ Open(e)' => Phase(e)' = "open"
      /\ exec'[e].status = "delivered" => Phase(e)' = "delivered"
      /\ exec'[e].status = "failed" => Phase(e)' = "failed"
      /\ exec'[e].status = "purged" => Phase(e)' = "gone"
      /\ \/ exec'[e].status \in {"absent", "delivered", "failed", "purged"}
         \/ Open(e)'
  <2>1. exec'[e].status \in ExecutionStatus
    BY <1>1 DEF RowInv, TypeOK, StoreTypeOK, ValidExecutions, ExecutionRows
  <2> QED BY <2>1 DEF Phase, Open, ExecutionStatus
<1>3. Phase(e) = "none" => exec[e].status = "absent"
  BY PhaseOf
<1>4. Phase(e)' = "delivered" /\ Phase(e) # "delivered" => Owed(e) \subseteq got[e]
  BY <1>2, PhaseOf, ClosesReached
<1>5. CASE exec'[e] = exec[e]
  BY <1>3, <1>4, <1>5 DEF Phase, Open
<1>6. CASE Stored(e)
  <2>1. exec[e].status = "absent"
    <3>1. exec[e].status # "purged"
      BY <1>6, OccurrenceTypes DEF Stored, GoneTogether, RowInv, LocksHold
    <3> QED BY <1>6, <3>1, PhaseOf DEF Stored, Exists, Open, Closed
  <2>2. Open(e)'
    BY <1>6 DEF Stored, Open
  <2> QED BY <1>2, <1>3, <1>4, <2>1, <2>2, PhaseOf DEF Abstract!Moves
<1>7. CASE Requeued(e)
  BY <1>2, <1>3, <1>4, <1>7, PhaseOf DEF Requeued, Open
<1>8. CASE Ended(e)
  BY <1>2, <1>3, <1>4, <1>8, PhaseOf DEF Ended, Abstract!Moves
<1>9. CASE Swept(e)
  BY <1>2, <1>3, <1>4, <1>9, PhaseOf DEF Swept, Exists, Closed, Abstract!Moves
<1> QED BY <1>5, <1>6, <1>7, <1>8, <1>9, ExecutionMoves DEF ExecutionMove

\* Every step of Remind is a step of the outbox.
LEMMA OutboxStep ==
    ASSUME ReachInv, [Next]_vars
    PROVE  Abstract!Next /\ Abstract!TypeOK'
<1> USE DEF ReachInv
<1>1. Abstract!TypeOK'
  <2>1. RowInv'
    BY NextRowInv DEF LeaseInv, TimelyRows
  <2>2. got' \in [Occurrences -> SUBSET Receivers]
    BY <2>1 DEF RowInv, TypeOK, StoreTypeOK
  <2>3. \A e \in Occurrences : Owed(e)' \subseteq Receivers
    BY DEF Owed
  <2>4. \A e \in Occurrences : Phase(e)' \in {"none", "open", "delivered", "failed", "gone"}
    <3> TAKE e \in Occurrences
    <3>1. exec'[e].status \in ExecutionStatus
      BY <2>1 DEF RowInv, TypeOK, StoreTypeOK, ValidExecutions, ExecutionRows
    <3> QED BY <3>1 DEF Phase, Open, ExecutionStatus
  <2> QED BY <2>2, <2>3, <2>4 DEF Abstract!TypeOK
<1>2. Abstract!Next
  <2> SUFFICES ASSUME NEW e \in Occurrences
               PROVE  /\ Phase(e)' # Phase(e) => <<Phase(e), Phase(e)'>> \in Abstract!Moves
                      /\ Phase(e)' = "delivered" /\ Phase(e) # "delivered"
                            => Owed(e) \subseteq got[e]
                      /\ got'[e] # got[e] => Phase(e) # "none" /\ got[e] \subseteq got'[e]
                      /\ Phase(e) # "none" => Owed(e)' \subseteq Owed(e)
    BY DEF Abstract!Next
  <2>1. got'[e] # got[e] => exec[e].status # "absent" /\ got[e] \subseteq got'[e]
    BY GotGrows DEF LeaseInv, TimelyRows, HandsKnow, Knows
  <2>2. Phase(e) # "none" => exec[e].status # "absent"
    BY PhaseOf DEF LeaseInv, TimelyRows
  <2> QED BY <2>1, <2>2, PhaseMoves, OwedShrinks DEF LeaseInv
<1> QED BY <1>1, <1>2

\* The empty tables are an empty outbox.
LEMMA OutboxInit == Init => Abstract!Init
<1> SUFFICES ASSUME Init PROVE Abstract!Init
  OBVIOUS
<1>1. \A e \in Occurrences : Phase(e) = "none"
  <2>1. \A e \in Occurrences : exec[e].status = "absent"
    BY DEF Init, StoreInit, NoExecution
  <2> QED BY <2>1, InitRowInv, PhaseOf
<1>2. \A e \in Occurrences : Owed(e) \subseteq Receivers
  BY DEF Owed
<1> QED BY <1>1, <1>2 DEF Abstract!Init, Init, StoreInit

\* The tables and their workers implement the outbox: each occurrence is stored
\* once, closed once, and closed as delivered only after it has been sent to
\* everyone it is owed to.
THEOREM TablesImplementOutbox == Spec => ImplementsOutbox
<1>1. ReachInv /\ [Next]_vars => ReachInv'
  BY ReachInvStep
<1>2. ReachInv /\ [Next]_vars => [Abstract!Next /\ Abstract!TypeOK']_(Abstract!vars)
  BY OutboxStep
<1> QED BY <1>1, <1>2, InitReachInv, OutboxInit, PTL DEF Spec, ImplementsOutbox, Abstract!Spec

\* What the outbox promises by itself, and with it everything that implements it:
\* an item counts as delivered only while everyone it is still owed to has it.
THEOREM OutboxKeepsItsPromise == Abstract!Spec => []Abstract!DeliveredReached
<1>1. Abstract!Init => Abstract!DeliveredReached
  BY DEF Abstract!Init, Abstract!DeliveredReached
<1>2. Abstract!DeliveredReached /\ [Abstract!Next /\ Abstract!TypeOK']_(Abstract!vars)
        => Abstract!DeliveredReached'
  <2>1. CASE Abstract!Next
    BY <2>1 DEF Abstract!Next, Abstract!Moves, Abstract!DeliveredReached
  <2>2. CASE UNCHANGED Abstract!vars
    BY <2>2 DEF Abstract!vars, Abstract!DeliveredReached
  <2> QED BY <2>1, <2>2
<1> QED BY <1>1, <1>2, PTL DEF Abstract!Spec
----------------------------------------------------------------------------
(* Deleted accounts *)

\* The only steps that change accounts.
LEMMA AccountMoves ==
    ASSUME [Next]_vars
    PROVE  UNCHANGED account \/ \E a \in Accounts : Suspend(a) \/ SignIn(a) \/ DeleteAccount(a)
<1>1. CASE ApiNext
  BY <1>1 DEF ApiNext, Create, ReadPatch, ReadBulk, CommitEdit, RefuseEdit, Archive, Subscribe,
     Unsubscribe, storeVars
<1>2. CASE WorkerNext
  <2>1. PICK w \in Workers :
           WorkerStep(w) \/ Crash(w) \/ \E x \in Occurrences : TaskDies(w, x)
    BY <1>2 DEF WorkerNext
  <2>2. CASE \E x \in Occurrences : DeliveryStep(w, x)
    BY <2>2 DEF DeliveryStep, Resolve, ResolveFails, Recheck, Post, MarkDelivered,
       MarkRetrying, MarkFailed, WriteResult, storeVars
  <2>3. CASE ~\E x \in Occurrences : DeliveryStep(w, x)
    BY <2>1, <2>3 DEF WorkerStep, LockDue, CommitBatch, AbortBatch, Claim, Drained, Purge,
       Crash, TaskDies, storeVars
  <2> QED BY <2>2, <2>3
<1>3. CASE LifecycleNext \/ Tick \/ UNCHANGED vars
  BY <1>3 DEF LifecycleNext, Tick, vars, storeVars
<1> QED BY <1>1, <1>2, <1>3 DEF Next

\* A deleted account was deleted already, or this step deletes it.
LEMMA DeletedBefore ==
    ASSUME RowInv, [Next]_vars, NEW a \in Accounts, account'[a] = "deleted", ~DeleteAccount(a)
    PROVE  account[a] = "deleted"
BY AccountMoves DEF Suspend, SignIn, DeleteAccount, RowInv, TypeOK, StoreTypeOK

\* A lock that a step takes is on a reminder of a live owner.
LEMMA LockMoves ==
    ASSUME RowInv, [Next]_vars, NEW w \in Workers, NEW s \in lock'[w]
    PROVE  s \in lock[w] \/ (OwnerIsLive(s) /\ UNCHANGED account)
<1>1. CASE UNCHANGED lock
  BY <1>1
<1>2. CASE ApiNext \/ LifecycleNext \/ Tick \/ UNCHANGED vars
  BY <1>1, <1>2 DEF ApiNext, Create, ReadPatch, ReadBulk, CommitEdit, RefuseEdit, Archive,
     Subscribe, Unsubscribe, LifecycleNext, Suspend, SignIn, DeleteAccount, Tick, vars, storeVars
<1>3. CASE WorkerNext
  <2>1. PICK v \in Workers :
           WorkerStep(v) \/ Crash(v) \/ \E x \in Occurrences : TaskDies(v, x)
    BY <1>3 DEF WorkerNext
  <2>2. CASE \E busy \in SUBSET Schedules, t \in Times : LockDue(v, busy, t)
    <3>1. PICK S \in SUBSET {x \in Schedules : OwnerIsLive(x)} : lock' = [lock EXCEPT ![v] = S]
      BY <2>2 DEF LockDue, Due
    <3>2. UNCHANGED account
      BY <2>2 DEF LockDue
    <3> QED BY <3>1, <3>2 DEF RowInv, TypeOK, StoreTypeOK
  <2>3. CASE CommitBatch(v) \/ AbortBatch(v) \/ Crash(v)
    <3>1. lock' = [lock EXCEPT ![v] = {}]
      BY <2>3 DEF CommitBatch, AbortBatch, Crash
    <3> QED BY <3>1 DEF RowInv, TypeOK, StoreTypeOK
  <2>4. CASE \E x \in Occurrences : DeliveryStep(v, x)
    BY <1>1, <2>4 DEF DeliveryStep, Resolve, ResolveFails, Recheck, Post, MarkDelivered,
       MarkRetrying, MarkFailed, WriteResult, storeVars
  <2>5. CASE \/ \E busy \in SUBSET Occurrences, t \in Times : Claim(v, busy, t)
             \/ Drained(v) \/ \E x \in Occurrences : TaskDies(v, x)
             \/ \E S \in SUBSET Schedules, t \in Times : Purge(v, S, t)
    BY <1>1, <2>5 DEF Claim, Drained, Purge, TaskDies, storeVars
  <2> QED BY <2>1, <2>2, <2>3, <2>4, <2>5 DEF WorkerStep
<1> QED BY <1>2, <1>3 DEF Next

\* A deletion waits for the locks on the reminders of its account.
LEMMA LocksOfTheLivingStep ==
    ASSUME RowInv, LocksOfTheLiving, [Next]_vars
    PROVE  LocksOfTheLiving'
<1> SUFFICES ASSUME NEW w \in Workers, NEW s \in lock'[w], account'[Owner[s]] = "deleted"
             PROVE  FALSE
  BY DEF LocksOfTheLiving
<1>1. s \in Schedules /\ Owner[s] \in Accounts
  BY NextRowInv, StoreAssumption DEF RowInv, TypeOK, StoreTypeOK
<1>2. s \in lock[w]
  BY LockMoves DEF OwnerIsLive
<1>3. DeleteAccount(Owner[s])
  BY <1>1, <1>2, DeletedBefore DEF LocksOfTheLiving
<1>4. s \in ToArchive(Owner[s])
  BY <1>1, <1>2 DEF RowInv, LocksHold, ToArchive, OwnedBy, Present
<1>5. ~Locked(s)
  BY <1>3, <1>4 DEF DeleteAccount, CanArchive
<1> QED BY <1>2, <1>5 DEF Locked

\* A deletion archives the reminders and closes or disables what hangs on them.
LEMMA DeletionQuiets ==
    ASSUME RowInv, NEW a \in Accounts, DeleteAccount(a)
    PROVE  /\ \A s \in OwnedBy(a) :
                 Present(s)' => sched'[s].deleted \/ sched'[s].status = "completed"
           /\ \A e \in OwnedExecutions(a) : ~Open(e)'
           /\ \A r \in Receivers : Subscriber[r] = a => hook'[r] = None
<1>1. ASSUME NEW s \in OwnedBy(a), Present(s)'
      PROVE  sched'[s].deleted \/ sched'[s].status = "completed"
  <2>1. s \in Schedules /\ sched[s] \in ValidSchedules
    BY <1>1 DEF OwnedBy, RowInv, TypeOK, StoreTypeOK
  <2>2. CASE s \in ToArchive(a)
    <3>1. sched'[s] = Archived(sched[s], clock)
      BY <2>1, <2>2 DEF DeleteAccount
    <3> QED BY <2>1, <3>1, ArchivedRow
  <2>3. CASE s \notin ToArchive(a)
    <3>1. sched'[s] = sched[s]
      BY <2>1, <2>3 DEF DeleteAccount
    <3> QED BY <1>1, <2>3, <3>1 DEF ToArchive, Present
  <2> QED BY <2>2, <2>3
<1>2. \A e \in OwnedExecutions(a) : ~Open(e)'
  BY FailOpenMoves DEF DeleteAccount, OwnedExecutions, Open
<1>3. \A r \in Receivers : Subscriber[r] = a => hook'[r] = None
  BY DEF DeleteAccount
<1> QED BY <1>1, <1>2, <1>3

\* Nothing that was in flight wakes a deleted account up.
LEMMA DeletedAccountIsQuietStep ==
    ASSUME QuietInv, [Next]_vars
    PROVE  DeletedAccountIsQuiet'
<1> USE DEF QuietInv
<1> SUFFICES ASSUME NEW a \in Accounts, account'[a] = "deleted"
             PROVE  /\ \A s \in OwnedBy(a) :
                          Present(s)' => sched'[s].deleted \/ sched'[s].status = "completed"
                    /\ \A e \in OwnedExecutions(a) : ~Open(e)'
                    /\ \A r \in Receivers : Subscriber[r] = a => hook'[r] = None
  BY DEF DeletedAccountIsQuiet, OwnedBy, OwnedExecutions
<1>1. CASE DeleteAccount(a)
  BY <1>1, DeletionQuiets
<1>2. CASE ~DeleteAccount(a)
  <2>1. account[a] = "deleted"
    BY <1>2, DeletedBefore
  <2>2. \A s \in OwnedBy(a) : s \in Schedules /\ ~OwnerIsLive(s) /\ ~Locked(s)
    BY <2>1 DEF OwnedBy, OwnerIsLive, Locked, LocksOfTheLiving
  <2>3. ASSUME NEW s \in OwnedBy(a), Present(s)'
        PROVE  sched'[s].deleted \/ sched'[s].status = "completed"
    <3>1. NoSchedule("purged").status = "purged"
      BY DEF NoSchedule
    <3>2. ScheduleMove(s)
      BY <2>2, ScheduleMoves
    <3>3. sched'[s] = sched[s] \/ Silenced(s)
      BY <2>2, <2>3, <3>1, <3>2 DEF ScheduleMove, Created, Written, Fired, Locked, Present, Removed
    <3> QED BY <2>1, <2>3, <3>3 DEF Silenced, DeletedAccountIsQuiet, Present
  <2>4. ASSUME NEW e \in OwnedExecutions(a) PROVE ~Open(e)'
    <3>1. e \in Occurrences /\ e[1] \in OwnedBy(a)
      BY OccurrenceTypes DEF OwnedExecutions, OwnedBy
    <3>2. ~Open(e) /\ ~Stored(e)
      BY <2>1, <2>2, <3>1 DEF DeletedAccountIsQuiet, Stored, Locked
    <3> QED BY <3>1, <3>2, ExecutionMoves DEF ExecutionMove, Requeued, Ended, Swept, Open
  <2>5. ASSUME NEW r \in Receivers, Subscriber[r] = a PROVE hook'[r] = None
    <3>1. hook[r] = None /\ ~Subscribe(r)
      BY <2>1, <2>5 DEF DeletedAccountIsQuiet, Subscribe
    <3> QED BY <3>1, HookMoves DEF Subscribe, Unsubscribe, DeleteAccount, RowInv, TypeOK,
           StoreTypeOK
  <2> QED BY <2>3, <2>4, <2>5
<1> QED BY <1>1, <1>2

\* A deleted account keeps no running reminder, no open execution and no
\* subscription, whatever batches, edits and tasks were in flight.
THEOREM DeletedStaysQuiet == Spec => []DeletedAccountIsQuiet
<1>1. Init => QuietInv
  BY InitRowInv DEF Init, StoreInit, QuietInv, LocksOfTheLiving, DeletedAccountIsQuiet
<1>2. QuietInv /\ [Next]_vars => QuietInv'
  BY NextRowInv, LocksOfTheLivingStep, DeletedAccountIsQuietStep DEF QuietInv
<1>3. QuietInv => DeletedAccountIsQuiet
  BY DEF QuietInv
<1> QED BY <1>1, <1>2, <1>3, PTL DEF Spec
=============================================================================
