------------------------------ MODULE Reports ------------------------------
(***************************************************************************)
(* Bug reports of one account: submission, with its limit per hour and its  *)
(* answer to a repeated key, and the queue from which every worker process *)
(* sends them by mail.                                                     *)
(*                                                                         *)
(* Both sides use the clock of the database.  now() is the instant at      *)
(* which a transaction began, which may be long before it gets the         *)
(* account's lock.  A sender claims a report for a while, makes one        *)
(* request that is answered or not, and writes what came of it; it may be  *)
(* late at each step, or die.                                              *)
(*                                                                         *)
(* Left out: what a report says, and accounts that the limits keep apart.  *)
(***************************************************************************)
EXTENDS Naturals, FiniteSets

CONSTANTS
    Callers,      \* requests in progress
    Keys,         \* idempotency keys
    Senders,      \* worker processes
    MaxRecent,    \* reports that an account may submit in an hour
    Hour, Lease, Pause,  \* how long the limit looks back, a claim lasts, a retry waits
    MaxAttempts,  \* attempts after which a report is given up
    MaxMinute     \* bound: the clock stops here

NoCaller == "nobody"

ASSUME ReportsAssumption ==
    /\ NoCaller \notin Callers
    /\ MaxRecent \in Nat /\ {Hour, Lease, Pause} \subseteq Nat \ {0}
    /\ MaxAttempts \in Nat \ {0} /\ MaxMinute \in Nat

VARIABLES
    minute,
    report,      \* bug_reports: one per key
    submitting,  \* the request that holds the account's advisory lock
    caller,      \* what each request is doing, and when its transaction began
    sender       \* the claim each sender works on

reportsVars == <<minute, report, submitting, caller, sender>>
----------------------------------------------------------------------------
Minutes == 0 .. MaxMinute
Attempts == 0 .. MaxMinute + 1
Status == {"none", "simulated", "queued", "sending", "sent", "failed"}

ReportRows == [status : Status, created : Minutes, next : Nat, attempts : Attempts]
NoReport == [status |-> "none", created |-> 0, next |-> 0, attempts |-> 0]

Idle == [pc |-> "idle"]
Calls == [pc : {"begun", "insert"}, key : Keys, began : Minutes]
Claims == [pc : {"send", "record"}, key : Keys, attempts : Attempts,
           outcome : {"none", "sent", "refused", "unavailable"}]

\* The variables have their types; the lock is that of a submission.
ReportsTypeOK ==
    /\ minute \in Minutes
    /\ report \in [Keys -> ReportRows]
    /\ submitting \in Callers \cup {NoCaller}
    /\ caller \in [Callers -> Calls \cup {Idle}]
    /\ sender \in [Senders -> Claims \cup {Idle}]
    /\ \A c \in Callers : submitting = c => caller[c].pc = "insert"

ReportsInit ==
    /\ minute = 0
    /\ report = [k \in Keys |-> NoReport]
    /\ submitting = NoCaller
    /\ caller = [c \in Callers |-> Idle]
    /\ sender = [n \in Senders |-> Idle]
----------------------------------------------------------------------------
(* Submission *)

Submit(c, k) ==
    /\ caller[c] = Idle
    /\ caller' = [caller EXCEPT ![c] = [pc |-> "begun", key |-> k, began |-> minute]]
    /\ UNCHANGED <<minute, report, submitting, sender>>

Exists(k) == report[k].status # "none"

\* Reports of the account in the hour before t.
Recent(t) == {k \in Keys : Exists(k) /\ report[k].created + Hour > t}

\* Mutant of TakeTurn: submissions of an account do not wait for each other.
TakeTurnAlways(c) == UNCHANGED submitting

TakeTurn(c) == submitting = NoCaller /\ submitting' = c

\* Under the lock: a repeated key is answered with what is there, or refused when it
\* says something else; so is a report over the limit.
CountReports(c) ==
    /\ caller[c].pc = "begun"
    /\ \/ /\ ~Exists(caller[c].key)
          /\ Cardinality(Recent(caller[c].began)) < MaxRecent
          /\ TakeTurn(c)
          /\ caller' = [caller EXCEPT ![c].pc = "insert"]
       \/ /\ submitting = NoCaller
          /\ Exists(caller[c].key) \/ Cardinality(Recent(caller[c].began)) >= MaxRecent
          /\ caller' = [caller EXCEPT ![c] = Idle]
          /\ UNCHANGED submitting
    /\ UNCHANGED <<minute, report, sender>>

\* A test environment's reports are simulated.  The key is unique.
StoreReport(c) ==
    LET k == caller[c].key
    IN  /\ caller[c].pc = "insert"
        /\ \/ Exists(k) /\ UNCHANGED report
           \/ /\ ~Exists(k)
              /\ \E status \in {"queued", "simulated"} :
                    report' = [report EXCEPT ![k] = [NoReport EXCEPT
                       !.status = status, !.created = caller[c].began, !.next = caller[c].began]]
        /\ submitting' = NoCaller
        /\ caller' = [caller EXCEPT ![c] = Idle]
        /\ UNCHANGED <<minute, sender>>

\* The request's process dies, and its transaction with it.
Drop(c) ==
    /\ caller[c] # Idle
    /\ caller' = [caller EXCEPT ![c] = Idle]
    /\ submitting' = IF submitting = c THEN NoCaller ELSE submitting
    /\ UNCHANGED <<minute, report, sender>>
----------------------------------------------------------------------------
(* The queue *)

\* Also a report that is being sent, once its claim has run out.
Due(k) == report[k].status \in {"queued", "sending"} /\ report[k].next <= minute

Claim(n, k) ==
    /\ sender[n] = Idle
    /\ Due(k) /\ \A other \in Keys : Due(other) => report[k].next <= report[other].next
    /\ report' = [report EXCEPT ![k].status = "sending", ![k].attempts = @ + 1,
                                ![k].next = minute + Lease]
    /\ sender' = [sender EXCEPT ![n] =
          [pc |-> "send", key |-> k, attempts |-> report[k].attempts + 1, outcome |-> "none"]]
    /\ UNCHANGED <<minute, submitting, caller>>

\* The mail service accepts the report, refuses it, or does not answer in time.
Mail(n, outcome) ==
    /\ sender[n].pc = "send"
    /\ sender' = [sender EXCEPT ![n].pc = "record", ![n].outcome = outcome]
    /\ UNCHANGED <<minute, report, submitting, caller>>

\* Mutant of StillClaimed: the number of the attempt is not compared.
StillClaimedByAnyone(n) == report[sender[n].key].status = "sending"

StillClaimed(n) ==
    /\ report[sender[n].key].status = "sending"
    /\ report[sender[n].key].attempts = sender[n].attempts

Outcome(n) ==
    CASE sender[n].outcome = "sent" -> "sent"
      [] sender[n].outcome = "refused" -> "failed"
      [] OTHER -> IF sender[n].attempts >= MaxAttempts THEN "failed" ELSE "queued"

RecordOutcome(n) ==
    LET k == sender[n].key
    IN  /\ sender[n].pc = "record"
        /\ report' = IF StillClaimed(n)
                     THEN [report EXCEPT ![k].status = Outcome(n), ![k].next = minute + Pause]
                     ELSE report
        /\ sender' = [sender EXCEPT ![n] = Idle]
        /\ UNCHANGED <<minute, submitting, caller>>

\* The worker process dies; its claim runs out.
Stop(n) ==
    /\ sender[n] # Idle
    /\ sender' = [sender EXCEPT ![n] = Idle]
    /\ UNCHANGED <<minute, report, submitting, caller>>
----------------------------------------------------------------------------
ReportsTick ==
    /\ minute < MaxMinute
    /\ minute' = minute + 1
    /\ UNCHANGED <<report, submitting, caller, sender>>

ReportsNext ==
    \/ \E c \in Callers : CountReports(c) \/ StoreReport(c) \/ Drop(c) \/ \E k \in Keys : Submit(c, k)
    \/ \E n \in Senders :
          \/ RecordOutcome(n) \/ Stop(n)
          \/ \E k \in Keys : Claim(n, k)
          \/ \E outcome \in {"sent", "refused", "unavailable"} : Mail(n, outcome)
    \/ ReportsTick

ReportsSpec == ReportsInit /\ [][ReportsNext]_reportsVars
----------------------------------------------------------------------------
(* Properties *)

\* No hour has more reports of an account than the limit, though each submission counts
\* from the instant its transaction began, and not in that order.
ReportsAreLimited ==
    \A t \in Minutes :
        Cardinality({k \in Recent(t) : report[k].created <= t}) <= MaxRecent

\* Only the newest claim of a report decides what comes of it: while its sender is at
\* work, no late result of an earlier one puts the report back in the queue or ends it.
NewestClaimDecides ==
    \A n \in Senders :
        sender[n] # Idle /\ sender[n].attempts = report[sender[n].key].attempts =>
            report[sender[n].key].status = "sending"
=============================================================================
