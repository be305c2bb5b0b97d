----------------------------- MODULE Lifecycle -----------------------------
(***************************************************************************)
(* What Silicon Accounts' events do to the shared tables: an account that *)
(* removes Remind's access is suspended until it signs in again, and a    *)
(* deleted account is gone for good.                                      *)
(***************************************************************************)
EXTENDS Store

OwnedBy(a) == {s \in Schedules : Owner[s] = a}
OwnedExecutions(a) == {e \in Occurrences : Owner[e[1]] = a}

\* membership.access_removed: schedules stay, unaccepted executions fail.  The
\* transaction takes no schedule lock, so it does not wait for a worker's batch
\* and does not see the executions that batch has not committed yet.
Suspend(a) ==
    /\ account[a] = "active"
    /\ account' = [account EXCEPT ![a] = "access_removed"]
    /\ FailOpen(OwnedExecutions(a))
    /\ UNCHANGED <<clock, sched, hook, lock, got>>

\* A newer sign-in ends the suspension.
SignIn(a) ==
    /\ account[a] = "access_removed"
    /\ account' = [account EXCEPT ![a] = "active"]
    /\ UNCHANGED <<clock, sched, exec, hook, lock, got>>

\* Mutant of ToArchive: paused reminders are left behind.
ToArchiveIfActive(a) ==
    {s \in OwnedBy(a) : sched[s].status = "active" /\ ~sched[s].deleted}

\* The reminders an account deletion archives; a fired one-time reminder already is.
ToArchive(a) ==
    {s \in OwnedBy(a) : Present(s) /\ sched[s].status # "completed" /\ ~sched[s].deleted}

\* The UPDATE of these rows waits for the transactions that hold them.
CanArchive(a) == \A s \in ToArchive(a) : ~Locked(s)

\* account.deleted: archive the schedules, disable the subscriptions, then fail
\* what is still unaccepted.
DeleteAccount(a) ==
    /\ account[a] # "deleted"
    /\ CanArchive(a)
    /\ account' = [account EXCEPT ![a] = "deleted"]
    /\ sched' = [s \in Schedules |->
          IF s \in ToArchive(a) THEN Archived(sched[s], clock) ELSE sched[s]]
    /\ hook' = [r \in Receivers |-> IF Subscriber[r] = a THEN None ELSE hook[r]]
    /\ FailOpen(OwnedExecutions(a))
    /\ UNCHANGED <<clock, lock, got>>

LifecycleNext ==
    \E a \in Accounts : Suspend(a) \/ SignIn(a) \/ DeleteAccount(a)
=============================================================================
