-------------------------------- MODULE Api --------------------------------
(***************************************************************************)
(* The API processes' writes to the shared tables: creating, editing,     *)
(* pausing, resuming and archiving reminders, and (un)subscribing         *)
(* webhooks.  An edit reads the clock, later reads the row without        *)
(* locking it, computes the new row, and later still commits it if the    *)
(* row's version has not changed: three moments with other processes'     *)
(* steps between them.                                                    *)
(***************************************************************************)
EXTENDS Store

CONSTANTS
    Requests   \* bound: edit requests, each served once

VARIABLE req   \* edit requests in flight: what each has computed from its read

apiVars == <<req>>
----------------------------------------------------------------------------
\* One reminder's part of an edit: the new values and the version they replace.
Edits == [id : Schedules, expected : Nat, status : {"active", "paused"},
          kind : Kinds, cron : Crons, next : Nat \cup {None}]

ApiTypeOK ==
    req \in [Requests -> [pc : {"new", "read", "done"}, bulk : BOOLEAN, edits : SUBSET Edits]]

NewRequest == [pc |-> "new", bulk |-> FALSE, edits |-> {}]
Served == [pc |-> "done", bulk |-> FALSE, edits |-> {}]

ApiInit == req = [q \in Requests |-> NewRequest]
----------------------------------------------------------------------------
\* POST /schedules.  The owner's account is locked and must be active.
Create(s, kind, cron, t) ==
    /\ sched[s].status = "absent"
    /\ OwnerIsLive(s)
    /\ sched' = [sched EXCEPT ![s] =
          [status |-> "active", kind |-> kind, cron |-> cron, next |-> NextAfter(cron, t),
           version |-> 1, deleted |-> FALSE, purge |-> None]]
    /\ UNCHANGED <<clock, exec, account, hook, lock, got, req>>

\* Mutant of NextOnEdit: every edit of an active reminder recomputes its next run.
NextOnEveryEdit(row, status, kind, cron, t) ==
    IF status = "paused" THEN None ELSE NextAfter(cron, t)

\* The next_run_at a merge patch computes from the row it read and its own clock.
NextOnEdit(row, status, kind, cron, t) ==
    CASE status = "paused" -> None
      [] status = "active" /\ (kind # row.kind \/ cron # row.cron \/ row.status = "paused")
            -> NextAfter(cron, t)
      [] OTHER -> row.next

EditOf(s, status, kind, cron, t) ==
    [id |-> s, expected |-> sched[s].version, status |-> status, kind |-> kind,
     cron |-> cron, next |-> NextOnEdit(sched[s], status, kind, cron, t)]

\* Only a current reminder can be edited.
Editable(s) ==
    Present(s) /\ Retained(s, clock) /\ ~sched[s].deleted /\ sched[s].status # "completed"

\* PATCH /schedules/{id}, first half: the row is read, not locked.  A patch
\* that leaves status, kind and cron as they are changes the text alone.
ReadPatch(q, s, status, kind, cron, t) ==
    /\ req[q].pc = "new"
    /\ Editable(s)
    /\ req' = [req EXCEPT ![q] =
          [pc |-> "read", bulk |-> FALSE, edits |-> {EditOf(s, status, kind, cron, t)}]]
    /\ UNCHANGED storeVars

\* PATCH /schedules, first half: one desired status for several of an owner's rows.
ReadBulk(q, S, status, t) ==
    /\ req[q].pc = "new"
    /\ \A s \in S : Editable(s)
    /\ req' = [req EXCEPT ![q] =
          [pc |-> "read", bulk |-> TRUE,
           edits |-> {EditOf(s, status, sched[s].kind, sched[s].cron, t) : s \in S}]]
    /\ UNCHANGED storeVars

\* Mutant of StillCurrent: the commit trusts what the read found.
StillPresent(edit) == Present(edit.id)

\* Under the row lock: the row is still editable, at the version that was read.
StillCurrent(edit) ==
    /\ Present(edit.id)
    /\ ~sched[edit.id].deleted
    /\ sched[edit.id].status # "completed"
    /\ sched[edit.id].version = edit.expected

Edited(row, edit) ==
    [row EXCEPT !.status = edit.status, !.kind = edit.kind, !.cron = edit.cron,
                !.next = edit.next, !.version = @ + 1]

\* A batch leaves alone the rows that already have the desired status.
Changes(q) ==
    {edit \in req[q].edits : req[q].bulk => sched[edit.id].status # edit.status}

\* The rows are locked in id order (waiting for whoever holds them), checked
\* and updated together, in one transaction.
CommitEdit(q) ==
    /\ req[q].pc = "read"
    /\ \A edit \in req[q].edits : ~Locked(edit.id) /\ OwnerIsLive(edit.id) /\ StillCurrent(edit)
    /\ sched' = [s \in Schedules |->
          IF \E edit \in Changes(q) : edit.id = s
          THEN Edited(sched[s], CHOOSE edit \in Changes(q) : edit.id = s)
          ELSE sched[s]]
    /\ req' = [req EXCEPT ![q] = Served]
    /\ UNCHANGED <<clock, exec, account, hook, lock, got>>

\* Version conflict, invalid state, not found or silicon unavailable: a batch
\* is refused as a whole.
RefuseEdit(q) ==
    /\ req[q].pc = "read"
    /\ \/ \E edit \in req[q].edits : ~OwnerIsLive(edit.id)
       \/ /\ \A edit \in req[q].edits : ~Locked(edit.id)
          /\ \E edit \in req[q].edits : ~StillCurrent(edit)
    /\ req' = [req EXCEPT ![q] = Served]
    /\ UNCHANGED storeVars
----------------------------------------------------------------------------
\* DELETE /schedules/{id}.  An archived or completed reminder keeps its archive
\* time; its unaccepted executions fail either way.
Archive(s, t) ==
    /\ Present(s)
    /\ Retained(s, clock)
    /\ OwnerIsLive(s)
    /\ ~Locked(s)
    /\ sched' = IF sched[s].status # "completed" /\ ~sched[s].deleted
                THEN [sched EXCEPT ![s] = Archived(@, t)] ELSE sched
    /\ FailOpen(OccurrencesOf(s))
    /\ UNCHANGED <<clock, account, hook, lock, got, req>>

\* POST /webhooks and DELETE /webhooks/{id}; a subscription that returns has a new row.
Subscribe(r) ==
    /\ hook[r] = None
    /\ account[Subscriber[r]] = "active"
    /\ hook' = [hook EXCEPT ![r] = clock]
    /\ UNCHANGED <<clock, sched, exec, account, lock, got, req>>

Unsubscribe(r) ==
    /\ hook[r] # None
    /\ hook' = [hook EXCEPT ![r] = None]
    /\ UNCHANGED <<clock, sched, exec, account, lock, got, req>>
----------------------------------------------------------------------------
SameOwner(S) == \A s1, s2 \in S : Owner[s1] = Owner[s2]

ApiNext ==
    \/ \E s \in Schedules, k \in Kinds, c \in Crons, t \in Stamps : Create(s, k, c, t)
    \/ \E q \in Requests, s \in Schedules, st \in {"active", "paused"}, k \in Kinds,
          c \in Crons, t \in Stamps : ReadPatch(q, s, st, k, c, t)
    \/ \E q \in Requests, S \in SUBSET Schedules \ {{}}, st \in {"active", "paused"},
          t \in Stamps : SameOwner(S) /\ ReadBulk(q, S, st, t)
    \/ \E q \in Requests : CommitEdit(q) \/ RefuseEdit(q)
    \/ \E s \in Schedules, t \in Stamps : Archive(s, t)
    \/ \E r \in Receivers : Subscribe(r) \/ Unsubscribe(r)
=============================================================================
