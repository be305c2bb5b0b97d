------------------------------- MODULE Remind -------------------------------
(***************************************************************************)
(* Silicon Remind's core: API processes, worker processes and account     *)
(* events over one database, and the properties that make it correct.     *)
(***************************************************************************)
EXTENDS Api, Worker, Lifecycle

vars == <<storeVars, apiVars, workerVars>>

Init == StoreInit /\ ApiInit /\ WorkerInit

Next ==
    \/ Tick /\ UNCHANGED <<apiVars, workerVars>>
    \/ ApiNext /\ UNCHANGED workerVars
    \/ WorkerNext /\ UNCHANGED apiVars
    \/ LifecycleNext /\ UNCHANGED <<apiVars, workerVars>>

Spec == Init /\ [][Next]_vars

\* Every table, request and task holds values of its type, and no statement
\* breaks a CHECK constraint of its table.
TypeOK == StoreTypeOK /\ ApiTypeOK /\ WorkerTypeOK
----------------------------------------------------------------------------
(* Reminders and occurrences *)

\* Occurrence safety (D-015): the next run of a reminder is never an occurrence
\* that has been materialised already.  Otherwise the worker's INSERT meets a
\* row of another version, and every batch that holds the reminder rolls back.
NextRunIsNew ==
    \A s \in Schedules : sched[s].next # None =>
        \A e \in OccurrencesOf(s) : Exists(e) => e[2] # sched[s].next

\* What is left of it: the worker itself never sends a reminder back.  An
\* occurrence at or after the next run exists only where an edit has come since,
\* and lies after it by less than the clock value that the edit used was old.
SentBackOnlyByEdits ==
    \A s \in Schedules : sched[s].next # None =>
        \A e \in OccurrencesOf(s) : Exists(e) /\ e[2] >= sched[s].next =>
            exec[e].version < sched[s].version /\ e[2] < sched[s].next + Lag

\* An edit that keeps the timing and the status loses no occurrence: an active
\* reminder leaves its next run only by materialising it.
NoOccurrenceLost ==
    [][\A s \in Schedules :
          /\ sched[s].status = "active"
          /\ sched'[s].status = "active"
          /\ ~sched'[s].deleted
          /\ sched'[s].cron = sched[s].cron
          /\ sched'[s].kind = sched[s].kind
          /\ sched'[s].next # sched[s].next
          => <<s, sched[s].next>> \in Occurrences /\ exec'[<<s, sched[s].next>>].status # "absent"
      ]_vars

\* D-038: archiving a reminder stops every execution no receiver has accepted,
\* and none appears later, whatever batch was in flight.
ArchivedIsQuiet ==
    \A s \in Schedules : sched[s].deleted =>
        sched[s].next = None /\ \A e \in OccurrencesOf(s) : ~Open(e)

\* A deleted account keeps no running reminder, no open execution and no
\* subscription.
DeletedAccountIsQuiet ==
    \A a \in Accounts : account[a] = "deleted" =>
        /\ \A s \in OwnedBy(a) : Present(s) => sched[s].deleted \/ sched[s].status = "completed"
        /\ \A e \in OwnedExecutions(a) : ~Open(e)
        /\ \A r \in Receivers : Subscriber[r] = a => hook[r] = None
----------------------------------------------------------------------------
(* Executions *)

\* While a worker's lease runs, no other worker has the execution in hand.
LeaseExcludes ==
    \A w1, w2 \in Workers, e \in Occurrences :
        w1 # w2 /\ InHand(w1, e) /\ InHand(w2, e)
            => task[w1][e].expires <= clock \/ task[w2][e].expires <= clock

\* The receivers an occurrence is owed to: subscribed since before its instant.
Owed(e) ==
    {r \in Receivers : hook[r] # None /\ hook[r] < e[2] /\ Subscriber[r] = Owner[e[1]]}

\* At-least-once: an occurrence is delivered only when each receiver that has
\* been subscribed all along has got it, over however many attempts and workers.
DeliveredReachedAll ==
    \A e \in Occurrences : exec[e].status = "delivered" => Owed(e) \subseteq got[e]

\* A failed attempt goes back to the queue only while attempts are left, and not
\* for longer than the cap on one delay, however often it has doubled.
RetriesAreLeft ==
    \A e \in Occurrences : Open(e) /\ exec[e].owner = NoWorker =>
        exec[e].attempts < MaxAttempts /\ exec[e].next <= clock + MaxDelay

\* D-011: the default maximum is eight attempts.
AttemptsAreBounded ==
    \A e \in Occurrences : exec[e].attempts <= MaxAttempts

\* A delivered or failed execution stays as it is until it is purged with its
\* reminder, whatever a worker that lost its lease still does.
ClosedStaysClosed ==
    [][\A e \in Occurrences : Closed(e) =>
          exec'[e] = exec[e] \/ exec'[e].status = "purged"]_vars
----------------------------------------------------------------------------
(* The abstract view *)

Phase(e) ==
    CASE exec[e].status = "absent" -> "none"
      [] Open(e) -> "open"
      [] exec[e].status = "purged" -> "gone"
      [] OTHER -> exec[e].status

Abstract ==
    INSTANCE Outbox WITH Items <- Occurrences, Audience <- Receivers,
        phase <- [e \in Occurrences |-> Phase(e)],
        audience <- [e \in Occurrences |-> Owed(e)],
        reached <- got

\* The tables implement the outbox: each occurrence is stored once, closed once
\* and closed as delivered only after it was sent to everyone it is owed to.
ImplementsOutbox == Abstract!Spec
----------------------------------------------------------------------------
(* Progress *)

\* Nothing is left for the workers to do at this instant.
Quiet ==
    /\ \A w \in Workers : lock[w] = {} /\ \A e \in Occurrences : ~InHand(w, e)
    /\ \A s \in Schedules : ~Due(s, clock)
    /\ \A e \in Occurrences : ~Claimable(e, clock)

\* One unit of time outlasts a work cycle: the configuration demands a lease
\* longer than one request, two database budgets and a poll interval together.
\* (Many receivers that all time out are beyond it: see AttemptsAreBounded.)
TimelyNext == Next /\ (clock' # clock => Quiet)

\* A live process goes on with its cycle and its tasks; a row is not found
\* locked by someone else in every cycle; and the retention sweep, on a timer
\* of its own, comes between two cycles again and again.
Fairness ==
    /\ WF_vars(Tick /\ Quiet /\ UNCHANGED <<apiVars, workerVars>>)
    /\ \A w \in Workers :
          /\ SF_vars(LockDue(w, {}, clock) /\ UNCHANGED apiVars)
          /\ WF_vars((CommitBatch(w) \/ AbortBatch(w)) /\ UNCHANGED apiVars)
          /\ SF_vars(Claim(w, {}, clock) /\ UNCHANGED apiVars)
          /\ WF_vars(Drained(w) /\ UNCHANGED apiVars)
          /\ SF_vars(\E S \in SUBSET Schedules : Purge(w, S, clock) /\ UNCHANGED apiVars)
          /\ \A e \in Occurrences : WF_vars(DeliveryStep(w, e) /\ UNCHANGED apiVars)

TimelySpec == Init /\ [][TimelyNext]_vars /\ Fairness

\* Every execution of a live account is closed in the end, whichever workers
\* die and whatever the receivers answer.
EveryExecutionCloses ==
    \A e \in Occurrences : Open(e) ~> ~Open(e) \/ ~OwnerIsLive(e[1])

\* A due reminder does not stay due.
DueIsMaterialised ==
    \A s \in Schedules, t \in Times :
        Due(s, clock) /\ sched[s].next = t ~> ~(Due(s, clock) /\ sched[s].next = t)
=============================================================================
