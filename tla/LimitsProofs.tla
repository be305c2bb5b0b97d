---------------------------- MODULE LimitsProofs ----------------------------
(***************************************************************************)
(* Limits and lists, for any number of callers, keys, workers and rows and  *)
(* any size of window, page or limit:                                      *)
(*   - reports per hour, and which claim of a report decides (Reports);     *)
(*   - requests per minute, and callers kept (Budget);                      *)
(*   - pages of reminders (Listing).                                        *)
(***************************************************************************)
EXTENDS Reports, Budget, Listing, FiniteSetTheorems, SequenceTheorems, WellFoundedInduction, TLAPS
----------------------------------------------------------------------------
(* Finite sets *)

\* A finite set with one element more.
LEMMA WithOne ==
    ASSUME NEW S, IsFiniteSet(S), NEW x
    PROVE  /\ IsFiniteSet(S \cup {x}) /\ Cardinality(S) \in Nat /\ Cardinality(S \cup {x}) \in Nat
           /\ Cardinality(S \cup {x}) <= Cardinality(S) + 1
<1>1. IsFiniteSet(S \cup {x})
  BY FS_AddElement
<1>2. Cardinality(S \cup {x}) = IF x \in S THEN Cardinality(S) ELSE Cardinality(S) + 1
  BY FS_AddElement
<1>3. Cardinality(S) \in Nat
  BY FS_CardinalityType
<1> QED
  BY <1>1, <1>2, <1>3

\* A set of no more elements than a finite one.
LEMMA PartOf ==
    ASSUME NEW S, IsFiniteSet(S), NEW T, T \subseteq S
    PROVE  /\ IsFiniteSet(T) /\ Cardinality(T) \in Nat /\ Cardinality(S) \in Nat
           /\ Cardinality(T) <= Cardinality(S)
           /\ T # S => Cardinality(T) < Cardinality(S)
<1>1. IsFiniteSet(T) /\ Cardinality(T) <= Cardinality(S) /\ (Cardinality(S) = Cardinality(T) => S = T)
  BY FS_Subset
<1>2. Cardinality(S) \in Nat /\ Cardinality(T) \in Nat
  BY <1>1, FS_CardinalityType
<1> QED
  BY <1>1, <1>2

\* A set of numbers that is not empty has a least one.
LEMMA LeastNumber ==
    ASSUME NEW T, T \subseteq Nat, T # {}
    PROVE  \E m \in T : \A n \in T : m <= n
<1>1. PICK m \in T : \A n \in T : ~(<<n, m>> \in OpToRel(<, Nat))
  BY WFMin, NatLessThanWellFounded
<1>2. \A n \in T : n \in Nat /\ m \in Nat /\ ~(n < m)
  BY <1>1 DEF OpToRel
<1> QED
  BY <1>2
----------------------------------------------------------------------------
(* Reports: their number in an hour *)

Stored == {k \in Keys : Exists(k)}

\* The number of claims of a report is no more than the minutes that it took them.
ClaimsTakeTime ==
    \A k \in Keys : report[k].attempts <= minute + 1 /\ report[k].attempts <= report[k].next

\* Who inserts has the account's lock, and what it counted is still so.
InsertsAlone ==
    \A c \in Callers : caller[c].pc = "insert" =>
        submitting = c /\ Cardinality(Recent(caller[c].began)) < MaxRecent

HourInv == ReportsTypeOK /\ ClaimsTakeTime /\ IsFiniteSet(Stored) /\ InsertsAlone /\ ReportsAreLimited

\* Reports that are there stay, as old as they were, and none is added.
NoneAdded ==
    \A k \in Keys : (Exists(k)' <=> Exists(k)) /\ (Exists(k) => report'[k].created = report[k].created)

LEMMA NoneAddedRecent ==
    ASSUME NoneAdded
    PROVE  /\ \A t : Recent(t)' = Recent(t)
           /\ Stored' = Stored
           /\ \A t : {k \in Recent(t) : report[k].created <= t}' = {k \in Recent(t) : report[k].created <= t}
BY DEF NoneAdded, Recent, Stored

LEMMA NoneAddedKeeps ==
    ASSUME HourInv, NoneAdded,
           \A c \in Callers : caller'[c].pc = "insert" =>
              /\ submitting' = c
              /\ \/ caller[c] = caller'[c]
                 \/ Cardinality(Recent(caller'[c].began)) < MaxRecent
    PROVE  (IsFiniteSet(Stored) /\ InsertsAlone /\ ReportsAreLimited)'
<1>1. IsFiniteSet(Stored)'
  BY NoneAddedRecent DEF HourInv
<1>2. InsertsAlone'
  BY NoneAddedRecent DEF HourInv, InsertsAlone
<1>3. ReportsAreLimited'
  BY NoneAddedRecent DEF HourInv, ReportsAreLimited
<1> QED
  BY <1>1, <1>2, <1>3

\* Types, and the time that claims take.
ClaimInv == ReportsTypeOK /\ ClaimsTakeTime

LEMMA RowChange ==
    ASSUME NEW row \in ReportRows, NEW status, NEW next
    PROVE  [row EXCEPT !.status = status, !.next = next] =
              [status |-> status, created |-> row.created, next |-> next, attempts |-> row.attempts]
<1> DEFINE new == [row EXCEPT !.status = status, !.next = next]
<1>1. DOMAIN row = {"status", "created", "next", "attempts"}
  BY DEF ReportRows
<1>2. /\ DOMAIN new = {"status", "created", "next", "attempts"}
      /\ new.status = status /\ new.created = row.created
      /\ new.next = next /\ new.attempts = row.attempts
  BY <1>1
<1>3. new = [x \in DOMAIN new |-> new[x]]
  OBVIOUS
<1> HIDE DEF new
<1>4. new = [status |-> status, created |-> row.created, next |-> next, attempts |-> row.attempts]
  BY <1>2, <1>3
<1> QED
  BY <1>4 DEF new

LEMMA ClaimStep ==
    ASSUME ClaimInv, [ReportsNext]_reportsVars
    PROVE  ClaimInv'
<1> USE ReportsAssumption DEF ClaimInv, ReportsTypeOK, Minutes
<1>0. Lease \in Nat \ {0} /\ Pause \in Nat \ {0} /\ Hour \in Nat \ {0} /\ MaxMinute \in Nat
      /\ minute \in 0 .. MaxMinute
  BY DEF ReportsAssumption
<1>1. \A k \in Keys : /\ report[k].status \in Status /\ report[k].created \in 0 .. MaxMinute
                      /\ report[k].next \in Nat /\ report[k].attempts \in 0 .. MaxMinute + 1
                      /\ report[k].attempts <= minute + 1 /\ report[k].attempts <= report[k].next
  BY DEF ReportRows, Attempts, ClaimsTakeTime
<1>2. \A c \in Callers : caller[c].pc \in {"begun", "insert"} => caller[c] \in Calls
  BY DEF Idle
<1>3. \A n \in Senders : sender[n].pc \in {"send", "record"} => sender[n] \in Claims
  BY DEF Idle
<1>4. ASSUME NEW c \in Callers, NEW k \in Keys, Submit(c, k)
      PROVE  ClaimInv'
  BY <1>0, <1>4 DEF Submit, Calls, Idle, ClaimsTakeTime
<1>5. ASSUME NEW c \in Callers, CountReports(c)
      PROVE  ClaimInv'
  <2>1. caller[c] \in Calls
    BY <1>2, <1>5 DEF CountReports
  <2>2. caller' \in [Callers -> Calls \cup {Idle}]
    BY <1>5, <2>1 DEF CountReports, Calls
  <2>3. submitting' \in Callers \cup {NoCaller}
        /\ \A d \in Callers : submitting' = d => caller'[d].pc = "insert"
    <3>1. CASE submitting' = c /\ caller' = [caller EXCEPT ![c].pc = "insert"]
      BY <2>1, <3>1 DEF Calls, ReportsAssumption
    <3>2. CASE submitting = NoCaller /\ submitting' = submitting
      BY <3>2 DEF ReportsAssumption
    <3> QED
      BY <1>5, <3>1, <3>2 DEF CountReports, TakeTurn
  <2> QED
    BY <1>5, <2>2, <2>3 DEF CountReports, ClaimsTakeTime
<1>6. ASSUME NEW c \in Callers, StoreReport(c)
      PROVE  ClaimInv'
  <2>1. caller[c] \in Calls
    BY <1>2, <1>6 DEF StoreReport
  <2> DEFINE k == caller[c].key
             b == caller[c].began
  <2>2. k \in Keys /\ b \in 0 .. MaxMinute
    BY <2>1 DEF Calls
  <2>3. \/ report' = report
        \/ \E status \in {"queued", "simulated"} : report' = [report EXCEPT ![k] =
              [status |-> status, created |-> b, next |-> b, attempts |-> 0]]
    BY <1>6 DEF StoreReport, NoReport
  <2> HIDE DEF k, b
  <2>4. report' \in [Keys -> ReportRows] /\ minute' = minute
    BY <1>0, <1>6, <2>2, <2>3 DEF StoreReport, ReportRows, Status, Attempts
  <2>5. ClaimsTakeTime'
    BY <1>0, <1>1, <2>2, <2>3, <2>4 DEF ClaimsTakeTime
  <2>6. /\ submitting' = NoCaller /\ sender' = sender
        /\ caller' \in [Callers -> Calls \cup {Idle}]
    BY <1>6 DEF StoreReport
  <2>7. \A d \in Callers : submitting' # d
    BY <2>6 DEF ReportsAssumption
  <2> QED
    BY <1>0, <2>4, <2>5, <2>6, <2>7
<1>7. ASSUME NEW c \in Callers, Drop(c)
      PROVE  ClaimInv'
  <2>1. /\ submitting' \in Callers \cup {NoCaller}
        /\ \A d \in Callers : submitting' = d => d # c /\ submitting = d
    BY <1>7 DEF Drop, ReportsAssumption
  <2> QED
    BY <1>7, <2>1 DEF Drop, ClaimsTakeTime
<1>8. ASSUME NEW n \in Senders, NEW k \in Keys, Claim(n, k)
      PROVE  ClaimInv'
  <2> DEFINE row == [status |-> "sending", created |-> report[k].created,
                     next |-> minute + Lease, attempts |-> report[k].attempts + 1]
  <2>1. report[k] \in ReportRows /\ report[k].next <= minute
    BY <1>8 DEF Claim, Due
  <2>2. report' = [report EXCEPT ![k] = row]
    BY <1>8, <2>1 DEF Claim, ReportRows
  <2>3. row \in ReportRows /\ row.attempts <= minute + 1 /\ row.attempts <= row.next
        /\ report[k].attempts + 1 \in Attempts
    BY <1>0, <1>1, <2>1 DEF ReportRows, Status, Attempts
  <2> HIDE DEF row
  <2>4. report' \in [Keys -> ReportRows] /\ minute' = minute
    BY <1>8, <2>2, <2>3 DEF Claim
  <2>5. ClaimsTakeTime'
    BY <1>1, <2>2, <2>3, <2>4 DEF ClaimsTakeTime
  <2>6. sender' \in [Senders -> Claims \cup {Idle}] /\ UNCHANGED <<submitting, caller>>
    BY <1>8, <2>3 DEF Claim, Claims
  <2> QED
    BY <1>0, <2>4, <2>5, <2>6
<1>9. ASSUME NEW n \in Senders, NEW outcome \in {"sent", "refused", "unavailable"}, Mail(n, outcome)
      PROVE  ClaimInv'
  <2>1. sender[n] \in Claims
    BY <1>3, <1>9 DEF Mail
  <2>2. sender' \in [Senders -> Claims \cup {Idle}]
    BY <1>9, <2>1 DEF Mail, Claims
  <2> QED
    BY <1>9, <2>2 DEF Mail, ClaimsTakeTime
<1>10. ASSUME NEW n \in Senders, RecordOutcome(n)
       PROVE  ClaimInv'
  <2>1. sender[n] \in Claims
    BY <1>3, <1>10 DEF RecordOutcome
  <2> DEFINE k == sender[n].key
             row == [status |-> Outcome(n), created |-> report[k].created,
                     next |-> minute + Pause, attempts |-> report[k].attempts]
  <2>2. k \in Keys /\ report[k] \in ReportRows
    BY <2>1 DEF Claims
  <2>3. report' = report \/ report' = [report EXCEPT ![k] = row]
    <3>1. CASE StillClaimed(n)
      <4>1. report' = [report EXCEPT ![k] = [@ EXCEPT !.status = Outcome(n), !.next = minute + Pause]]
        BY <1>10, <3>1 DEF RecordOutcome
      <4>2. [report[k] EXCEPT !.status = Outcome(n), !.next = minute + Pause] = row
        BY <2>2, RowChange
      <4> QED
        BY <4>1, <4>2
    <3>2. CASE ~StillClaimed(n)
      BY <1>10, <3>2 DEF RecordOutcome
    <3> QED
      BY <3>1, <3>2
  <2>4. Outcome(n) \in Status
    BY DEF Outcome, Status
  <2>5. row \in ReportRows /\ row.attempts <= minute + 1 /\ row.attempts <= row.next
    BY <1>0, <1>1, <2>2, <2>4 DEF ReportRows, Attempts
  <2> HIDE DEF row, k
  <2>6. report' \in [Keys -> ReportRows] /\ minute' = minute
    BY <1>10, <2>2, <2>3, <2>5 DEF RecordOutcome
  <2>7. ClaimsTakeTime'
    BY <1>1, <2>2, <2>3, <2>5, <2>6 DEF ClaimsTakeTime
  <2>8. sender' \in [Senders -> Claims \cup {Idle}] /\ UNCHANGED <<submitting, caller>>
    BY <1>10 DEF RecordOutcome
  <2> QED
    BY <1>0, <2>6, <2>7, <2>8
<1>11. ASSUME NEW n \in Senders, Stop(n)
       PROVE  ClaimInv'
  BY <1>11 DEF Stop, ClaimsTakeTime
<1>12. CASE ReportsTick
  <2>1. minute' = minute + 1 /\ minute' \in 0 .. MaxMinute /\ UNCHANGED <<report, submitting, caller, sender>>
    BY <1>0, <1>12 DEF ReportsTick
  <2>2. ClaimsTakeTime'
    BY <1>0, <1>1, <2>1 DEF ClaimsTakeTime
  <2> QED
    BY <2>1, <2>2
<1>13. CASE UNCHANGED reportsVars
  BY <1>13 DEF reportsVars, ClaimsTakeTime
<1> QED
  BY <1>4, <1>5, <1>6, <1>7, <1>8, <1>9, <1>10, <1>11, <1>12, <1>13 DEF ReportsNext

\* A step of the queue, or of nobody, adds no report.
LEMMA QueueAdds ==
    ASSUME ClaimInv, NEW n \in Senders,
           \/ RecordOutcome(n) \/ Stop(n)
           \/ \E k \in Keys : Claim(n, k)
           \/ \E outcome \in {"sent", "refused", "unavailable"} : Mail(n, outcome)
    PROVE  NoneAdded /\ UNCHANGED <<submitting, caller>>
<1>1. report \in [Keys -> ReportRows]
  BY DEF ClaimInv, ReportsTypeOK
<1>2. CASE RecordOutcome(n)
  <2>1. Outcome(n) # "none"
    BY DEF Outcome
  <2>2. CASE StillClaimed(n)
    BY <1>1, <1>2, <2>1, <2>2 DEF RecordOutcome, StillClaimed, NoneAdded, Exists, ReportRows
  <2>3. CASE ~StillClaimed(n)
    BY <1>2, <2>3 DEF RecordOutcome, NoneAdded, Exists
  <2> QED
    BY <1>2, <2>2, <2>3 DEF RecordOutcome
<1>3. ASSUME NEW k \in Keys, Claim(n, k)
      PROVE  NoneAdded /\ UNCHANGED <<submitting, caller>>
  BY <1>1, <1>3 DEF Claim, Due, NoneAdded, Exists, ReportRows
<1>4. CASE Stop(n) \/ \E outcome \in {"sent", "refused", "unavailable"} : Mail(n, outcome)
  BY <1>4 DEF Stop, Mail, NoneAdded, Exists
<1> QED
  BY <1>2, <1>3, <1>4

LEMMA HourStep ==
    ASSUME HourInv, [ReportsNext]_reportsVars
    PROVE  HourInv'
<1> DEFINE Kept == (IsFiniteSet(Stored) /\ InsertsAlone /\ ReportsAreLimited)'
<1>0. ClaimInv /\ ClaimInv'
  BY ClaimStep DEF ClaimInv, HourInv
<1>1. /\ report \in [Keys -> ReportRows] /\ caller \in [Callers -> Calls \cup {Idle}]
      /\ minute \in Nat /\ Minutes \subseteq Nat /\ Hour \in Nat \ {0} /\ MaxRecent \in Nat
      /\ \A k \in Keys : report[k].created \in Minutes
  BY ReportsAssumption DEF HourInv, ReportsTypeOK, Minutes, ReportRows, ReportsAssumption
<1>2. \A c \in Callers : caller[c].pc \in {"begun", "insert"} => caller[c] \in Calls
  BY <1>1 DEF Idle
<1>3. ASSUME NEW c \in Callers, NEW k \in Keys, Submit(c, k)
      PROVE  Kept
  <2>1. NoneAdded /\ \A d \in Callers : caller'[d].pc = "insert" => caller'[d] = caller[d] /\ submitting' = d
    BY <1>1, <1>3 DEF Submit, NoneAdded, Exists, HourInv, InsertsAlone
  <2> QED
    BY <2>1, NoneAddedKeeps
<1>4. ASSUME NEW c \in Callers, CountReports(c)
      PROVE  Kept
  <2>1. NoneAdded
    BY <1>4 DEF CountReports, NoneAdded, Exists
  <2>2. ASSUME NEW d \in Callers, caller'[d].pc = "insert"
        PROVE  /\ submitting' = d
               /\ caller[d] = caller'[d] \/ Cardinality(Recent(caller'[d].began)) < MaxRecent
    <3>1. caller[c] \in Calls
      BY <1>2, <1>4 DEF CountReports
    <3>2. CASE d # c
      <4>1. caller'[d] = caller[d] /\ submitting = d
        BY <1>1, <1>4, <2>2, <3>2 DEF CountReports, HourInv, InsertsAlone
      <4> QED
        BY <1>4, <4>1, ReportsAssumption DEF CountReports, TakeTurn, ReportsAssumption
    <3>3. CASE d = c
      <4>1. caller' = [caller EXCEPT ![c].pc = "insert"]
        BY <1>1, <1>4, <2>2, <3>3 DEF CountReports, Idle
      <4>2. caller'[c].began = caller[c].began /\ caller'[c].pc # "idle"
        BY <1>1, <3>1, <4>1 DEF Calls
      <4>3. Cardinality(Recent(caller[c].began)) < MaxRecent /\ TakeTurn(c)
        BY <1>1, <1>4, <4>2 DEF CountReports, Idle
      <4> QED
        BY <3>3, <4>2, <4>3 DEF TakeTurn
    <3> QED
      BY <3>2, <3>3
  <2> QED
    BY <2>1, <2>2, NoneAddedKeeps
<1>5. ASSUME NEW c \in Callers, StoreReport(c)
      PROVE  Kept
  <2> DEFINE k == caller[c].key
             b == caller[c].began
  <2>1. k \in Keys /\ b \in Minutes
    BY <1>2, <1>5 DEF StoreReport, Calls
  <2>2. /\ submitting = c /\ Cardinality(Recent(b)) < MaxRecent
        /\ submitting' = NoCaller /\ \A d \in Callers : caller'[d].pc # "insert"
    BY <1>1, <1>5 DEF StoreReport, HourInv, InsertsAlone, Idle
  <2>3. CASE Exists(k)
    <3>1. NoneAdded
      BY <1>5, <2>3 DEF StoreReport, NoneAdded, Exists
    <3> QED
      BY <2>2, <3>1, NoneAddedKeeps
  <2>4. CASE ~Exists(k)
    <3>1. PICK status \in {"queued", "simulated"} : report' = [report EXCEPT ![k] =
             [status |-> status, created |-> b, next |-> b, attempts |-> 0]]
      BY <1>5, <2>4 DEF StoreReport, NoReport
    <3> HIDE DEF k, b
    <3>2. \A j \in Keys : /\ j # k => report'[j] = report[j]
                          /\ j = k => report'[j].created = b /\ report'[j].status # "none"
      BY <1>1, <3>1
    <3>3. Stored' = Stored \cup {k}
      BY <2>1, <3>2 DEF Stored, Exists
    <3>4. IsFiniteSet(Stored)'
      BY <3>3, WithOne DEF HourInv
    <3>5. ASSUME NEW t \in Minutes
          PROVE  Cardinality({j \in Recent(t) : report[j].created <= t}') <= MaxRecent
      <4> DEFINE S == {j \in Recent(t) : report[j].created <= t}
                 T == {j \in Recent(t) : report[j].created <= t}'
      <4>1. S \subseteq Stored /\ Recent(b) \subseteq Stored
        BY DEF Recent, Stored
      <4>2. CASE b <= t /\ t < b + Hour
        <5>1. S \subseteq Recent(b)
          <6>1. ASSUME NEW j \in S
                PROVE  j \in Keys /\ Exists(j) /\ report[j].created + Hour > t
            BY DEF Recent
          <6>2. ASSUME NEW j \in S
                PROVE  report[j].created + Hour > b
            <7>1. report[j].created \in Nat /\ t \in Nat /\ b \in Nat
              BY <1>1, <2>1, <6>1
            <7> QED
              BY <1>1, <4>2, <6>1, <7>1
          <6> QED
            BY <6>1, <6>2 DEF Recent
        <5>2. T \subseteq S \cup {k}
          BY <3>2 DEF Recent, Exists
        <5> HIDE DEF S, T
        <5>3. IsFiniteSet(S) /\ Cardinality(S) \in Nat /\ Cardinality(S) < MaxRecent
          <6>1. IsFiniteSet(Recent(b))
            BY <4>1, PartOf DEF HourInv
          <6> QED
            BY <1>1, <2>2, <5>1, <6>1, PartOf
        <5>4. /\ IsFiniteSet(S \cup {k}) /\ Cardinality(S \cup {k}) \in Nat
              /\ Cardinality(S \cup {k}) <= Cardinality(S) + 1
          BY <5>3, WithOne
        <5>5. Cardinality(T) \in Nat /\ Cardinality(T) <= Cardinality(S \cup {k})
          BY <5>2, <5>4, PartOf
        <5> QED
          BY <1>1, <5>3, <5>4, <5>5 DEF T
      <4>3. CASE ~(b <= t /\ t < b + Hour)
        <5>1. T \subseteq S
          BY <1>1, <2>1, <3>2, <4>3 DEF Recent, Exists
        <5>2. IsFiniteSet(S) /\ Cardinality(S) <= MaxRecent
          BY <4>1, PartOf DEF HourInv, ReportsAreLimited
        <5> HIDE DEF S, T
        <5>3. Cardinality(T) \in Nat /\ Cardinality(S) \in Nat /\ Cardinality(T) <= Cardinality(S)
          BY <5>1, <5>2, PartOf
        <5> QED
          BY <1>1, <5>2, <5>3 DEF T
      <4> QED
        BY <4>2, <4>3
    <3>6. ReportsAreLimited'
      BY <3>5 DEF ReportsAreLimited, Minutes
    <3> QED
      BY <2>2, <3>4, <3>6 DEF InsertsAlone
  <2> QED
    BY <2>3, <2>4
<1>6. ASSUME NEW c \in Callers, Drop(c)
      PROVE  Kept
  <2>1. NoneAdded /\ \A d \in Callers : caller'[d].pc = "insert" => caller'[d] = caller[d] /\ submitting' = d
    BY <1>1, <1>6 DEF Drop, NoneAdded, Exists, HourInv, InsertsAlone, Idle
  <2> QED
    BY <2>1, NoneAddedKeeps
<1>7. ASSUME NEW n \in Senders,
             \/ RecordOutcome(n) \/ Stop(n)
             \/ \E k \in Keys : Claim(n, k)
             \/ \E outcome \in {"sent", "refused", "unavailable"} : Mail(n, outcome)
      PROVE  Kept
  BY <1>0, <1>7, QueueAdds, NoneAddedKeeps DEF HourInv, InsertsAlone
<1>8. ASSUME ReportsTick \/ UNCHANGED reportsVars
      PROVE  Kept
  <2>1. NoneAdded
    BY <1>8 DEF ReportsTick, reportsVars, NoneAdded, Exists
  <2>2. \A d \in Callers : caller'[d].pc = "insert" => caller'[d] = caller[d] /\ submitting' = d
    BY <1>8 DEF HourInv, InsertsAlone, ReportsTick, reportsVars
  <2> QED
    BY <2>1, <2>2, NoneAddedKeeps
<1>9. Kept
  <2>1. CASE \E c \in Callers : \/ CountReports(c) \/ StoreReport(c) \/ Drop(c)
                                \/ \E k \in Keys : Submit(c, k)
    BY <1>3, <1>4, <1>5, <1>6, <2>1
  <2> QED
    BY <1>7, <1>8, <2>1 DEF ReportsNext
<1> QED
  BY <1>0, <1>9 DEF HourInv, ClaimInv, Kept

LEMMA HourInit == ReportsInit => HourInv
<1> SUFFICES ASSUME ReportsInit PROVE HourInv
  OBVIOUS
<1> USE ReportsAssumption DEF ReportsInit
<1>1. \A k \in Keys : ~Exists(k)
  BY DEF Exists, NoReport
<1>2. Stored = {} /\ \A t : Recent(t) = {}
  BY <1>1 DEF Stored, Recent
<1>3. ReportsTypeOK /\ ClaimsTakeTime
  BY DEF ReportsTypeOK, ClaimsTakeTime, ReportRows, NoReport, Status, Minutes, Attempts,
         ReportsAssumption
<1>4. IsFiniteSet(Stored)
  BY <1>2, FS_EmptySet
<1>5. InsertsAlone
  BY DEF InsertsAlone, Idle
<1>6. ReportsAreLimited
  <2>1. \A t \in Minutes : Cardinality({k \in Recent(t) : report[k].created <= t}) = 0
    <3>1. \A t \in Minutes : {k \in Recent(t) : report[k].created <= t} = {}
      BY <1>2
    <3> QED
      BY <3>1, FS_EmptySet
  <2> QED
    BY <2>1 DEF ReportsAreLimited, ReportsAssumption
<1> QED
  BY <1>3, <1>4, <1>5, <1>6 DEF HourInv

\* The reports of an account in any hour stay within the limit of create(), and reports
\* and claims keep the types of the bug_reports table.
THEOREM ReportsWithinHour == ReportsSpec => [](ReportsTypeOK /\ ReportsAreLimited)
<1>1. HourInv => ReportsTypeOK /\ ReportsAreLimited
  BY DEF HourInv
<1> QED
  BY <1>1, HourInit, HourStep, PTL DEF ReportsSpec
----------------------------------------------------------------------------
(* Reports: which claim decides *)

\* A claim is of a report that is there; a later claim of it has a higher number, and
\* the one whose number the report has is the one that is being sent.
ClaimsCount ==
    /\ \A n \in Senders : sender[n] # Idle =>
          /\ sender[n].attempts <= report[sender[n].key].attempts
          /\ sender[n].attempts = report[sender[n].key].attempts =>
                report[sender[n].key].status = "sending"
    /\ \A n, m \in Senders :
          n # m /\ sender[n] # Idle /\ sender[m] # Idle /\ sender[n].key = sender[m].key =>
              sender[n].attempts # sender[m].attempts
    \* Before its first claim a report has none.
    /\ \A n \in Senders : sender[n] # Idle => sender[n].attempts > 0
    /\ \A k \in Keys : ~Exists(k) => report[k].attempts = 0

NewestInv == ClaimInv /\ ClaimsCount

LEMMA NewestStep ==
    ASSUME NewestInv, [ReportsNext]_reportsVars
    PROVE  NewestInv'
<1>0. ClaimInv /\ ClaimInv'
  BY ClaimStep DEF NewestInv
<1>1. /\ report \in [Keys -> ReportRows] /\ sender \in [Senders -> Claims \cup {Idle}]
      /\ \A k \in Keys : report[k].attempts \in Nat
      /\ \A n \in Senders : sender[n] # Idle => /\ sender[n] \in Claims /\ sender[n].key \in Keys
                                                /\ sender[n].attempts \in Nat
  BY <1>0, ReportsAssumption
     DEF ClaimInv, ReportsTypeOK, ReportRows, Claims, Attempts, ReportsAssumption
<1>2. ASSUME NEW c \in Callers, StoreReport(c)
      PROVE  ClaimsCount'
  <2>1. caller[c].key \in Keys
    BY <1>0, <1>2 DEF ClaimInv, ReportsTypeOK, StoreReport, Calls, Idle
  <2>2. sender' = sender
    BY <1>2 DEF StoreReport
  <2>3. \A k \in Keys : /\ Exists(k) => report'[k] = report[k]
                        /\ report'[k] # report[k] => /\ report'[k].attempts = 0 /\ ~Exists(k)
                                                     /\ report'[k].status # "none"
    BY <1>1, <1>2, <2>1 DEF StoreReport, NoReport, Exists
  <2>4. \A n \in Senders : sender[n] # Idle => Exists(sender[n].key)
    BY <1>1 DEF NewestInv, ClaimsCount
  <2>5. \A n \in Senders : sender[n] # Idle => report'[sender[n].key] = report[sender[n].key]
    BY <1>1, <2>3, <2>4
  <2>6. \A k \in Keys : report'[k].status = "none" => report'[k].attempts = 0
    BY <2>3 DEF NewestInv, ClaimsCount, Exists
  <2> QED
    BY <2>2, <2>5, <2>6 DEF NewestInv, ClaimsCount, Exists
<1>3. ASSUME NEW n \in Senders, NEW k \in Keys, Claim(n, k)
      PROVE  ClaimsCount'
  <2>1. /\ sender[n] = Idle /\ Exists(k)
        /\ sender'[n] # Idle /\ sender'[n].key = k /\ sender'[n].attempts = report[k].attempts + 1
        /\ \A m \in Senders : m # n => sender'[m] = sender[m]
    BY <1>1, <1>3 DEF Claim, Due, Exists, Idle
  <2>2. /\ report'[k].status = "sending" /\ report'[k].attempts = report[k].attempts + 1
        /\ \A j \in Keys : j # k => report'[j] = report[j]
    BY <1>1, <1>3 DEF Claim, ReportRows
  <2> QED
    BY <1>1, <2>1, <2>2 DEF NewestInv, ClaimsCount, Exists
<1>4. ASSUME NEW n \in Senders, NEW outcome \in {"sent", "refused", "unavailable"}, Mail(n, outcome)
      PROVE  ClaimsCount'
  <2>1. sender[n] # Idle
    BY <1>4 DEF Mail, Idle
  <2>2. /\ report' = report /\ sender'[n].key = sender[n].key /\ sender'[n].attempts = sender[n].attempts
        /\ \A m \in Senders : m # n => sender'[m] = sender[m]
    BY <1>1, <1>4, <2>1 DEF Mail, Claims
  <2>3. \A m \in Senders : sender'[m] # Idle =>
           /\ sender[m] # Idle /\ sender'[m].key = sender[m].key /\ sender'[m].attempts = sender[m].attempts
    BY <2>1, <2>2
  <2> QED
    BY <2>2, <2>3 DEF NewestInv, ClaimsCount, Exists
<1>5. ASSUME NEW n \in Senders, RecordOutcome(n)
      PROVE  ClaimsCount'
  <2>1. sender[n] # Idle /\ sender[n].key \in Keys
    BY <1>1, <1>5 DEF RecordOutcome, Idle
  <2>2. sender'[n] = Idle /\ \A m \in Senders : m # n => sender'[m] = sender[m]
    BY <1>1, <1>5 DEF RecordOutcome
  <2>3. CASE StillClaimed(n)
    <3>1. /\ report'[sender[n].key].attempts = report[sender[n].key].attempts
          /\ \A j \in Keys : j # sender[n].key => report'[j] = report[j]
          /\ report'[sender[n].key].status = Outcome(n)
      BY <1>1, <1>5, <2>1, <2>3 DEF RecordOutcome, ReportRows
    <3>2. Outcome(n) # "none" /\ report[sender[n].key].attempts = sender[n].attempts
      BY <2>3 DEF Outcome, StillClaimed
    <3>3. \A m \in Senders : m # n /\ sender[m] # Idle /\ sender[m].key = sender[n].key =>
             sender[m].attempts # report[sender[n].key].attempts
      BY <2>1, <3>2 DEF NewestInv, ClaimsCount
    <3> QED
      BY <1>1, <2>2, <3>1, <3>2, <3>3 DEF NewestInv, ClaimsCount, Exists
  <2>4. CASE ~StillClaimed(n)
    <3>1. report' = report
      BY <1>5, <2>4 DEF RecordOutcome
    <3> QED
      BY <2>2, <3>1 DEF NewestInv, ClaimsCount, Exists
  <2> QED
    BY <2>3, <2>4
<1>6. ASSUME NEW n \in Senders, Stop(n)
      PROVE  ClaimsCount'
  <2>1. report' = report /\ sender'[n] = Idle /\ \A m \in Senders : m # n => sender'[m] = sender[m]
    BY <1>1, <1>6 DEF Stop
  <2> QED
    BY <2>1 DEF NewestInv, ClaimsCount, Exists
<1>7. ASSUME UNCHANGED <<report, sender>>
      PROVE  ClaimsCount'
  BY <1>7 DEF NewestInv, ClaimsCount, Exists
<1>8. ClaimsCount'
  BY <1>2, <1>3, <1>4, <1>5, <1>6, <1>7
     DEF ReportsNext, Submit, CountReports, Drop, ReportsTick, reportsVars
<1> QED
  BY <1>0, <1>8 DEF NewestInv

\* While the sender of the newest claim is at work the report stays as it claimed it:
\* the UPDATE of the result compares the number of the attempt.
THEOREM NewestDecides == ReportsSpec => []NewestClaimDecides
<1>1. ReportsInit => NewestInv
  <2>1. ReportsInit => ClaimInv
    BY HourInit DEF HourInv, ClaimInv
  <2>2. ReportsInit => ClaimsCount
    BY DEF ReportsInit, ClaimsCount, NoReport
  <2> QED
    BY <2>1, <2>2 DEF NewestInv
<1>2. NewestInv => NewestClaimDecides
  BY DEF NewestInv, ClaimsCount, NewestClaimDecides
<1> QED
  BY <1>1, <1>2, NewestStep, PTL DEF ReportsSpec
----------------------------------------------------------------------------
(* Budget: requests of a caller in a window, and callers that are kept *)

Instants == 0 .. LastInstant
Kept == {s \in Spenders : window[s] # <<>>}

\* What is remembered is the end of what was admitted, and the rest has expired.
Remembers(rest, all) ==
    /\ rest \in Seq(Instants) /\ Len(rest) <= Len(all)
    /\ \A n \in 1 .. Len(rest) : rest[n] = all[Len(all) - Len(rest) + n]
    /\ \A n \in 1 .. Len(all) - Len(rest) : all[n] + Window <= instant

\* Admissions are in order, and each comes a window after the one PerWindow before it.
Spaced(all) ==
    /\ all \in Seq(Instants)
    /\ \A n \in 1 .. Len(all) : all[n] <= instant
    /\ \A m, n \in 1 .. Len(all) : m <= n => all[m] <= all[n]
    /\ \A n \in 1 .. Len(all) : n > PerWindow => all[n - PerWindow] + Window <= all[n]

SpendInv ==
    /\ BudgetTypeOK
    /\ \A s \in Spenders : Remembers(window[s], admitted[s]) /\ Spaced(admitted[s])
    /\ IsFiniteSet(Kept) /\ Cardinality(Kept) <= Tracked

\* Dropping what has expired keeps what is remembered right.
LEMMA RetainedRemembers ==
    ASSUME SpendInv, NEW s \in Spenders
    PROVE  Remembers(Retained[s], admitted[s])
<1> USE BudgetAssumption DEF BudgetAssumption
<1>1. /\ Remembers(window[s], admitted[s]) /\ Spaced(admitted[s])
      /\ instant \in Nat /\ Window \in Nat /\ \A i \in Instants : i \in Nat
  BY DEF SpendInv, BudgetTypeOK, Instants
<1> DEFINE all == admitted[s]
           w == window[s]
<1>2. CASE Retained[s] = w
  BY <1>1, <1>2
<1>3. CASE Retained[s] # w
  <2>1. Retained[s] = <<>> /\ w # <<>> /\ ~Counts(w[Len(w)])
    BY <1>3 DEF Retained
  <2> HIDE DEF all, w
  <2>2. w \in Seq(Instants) /\ all \in Seq(Instants) /\ Len(w) \in Nat \ {0} /\ Len(all) \in Nat
        /\ Len(w) <= Len(all)
    BY <1>1, <2>1 DEF Remembers, Spaced, all, w
  <2>3. w[Len(w)] = all[Len(all)]
    <3>1. Remembers(w, all)
      BY <1>1 DEF all, w
    <3>2. \A n \in 1 .. Len(w) : w[n] = all[Len(all) - Len(w) + n]
      BY <3>1 DEF Remembers
    <3>3. Len(w) \in 1 .. Len(w) /\ Len(all) - Len(w) + Len(w) = Len(all)
      BY <2>2
    <3> QED
      BY <3>2, <3>3
  <2>4. all[Len(all)] \in Nat /\ all[Len(all)] + Window <= instant
    <3>1. Len(all) \in 1 .. Len(all)
      BY <2>2
    <3>2. all[Len(all)] \in Instants
      BY <2>2, <3>1
    <3> QED
      BY <1>1, <2>1, <2>3, <3>2 DEF Counts
  <2>5. ASSUME NEW n \in 1 .. Len(all)
        PROVE  all[n] + Window <= instant
    <3>1. all[n] <= all[Len(all)]
      BY <1>1, <2>2 DEF Spaced, all
    <3>2. all[n] \in Nat
      BY <1>1, <2>2
    <3> QED
      BY <1>1, <2>4, <3>1, <3>2
  <2>6. <<>> \in Seq(Instants) /\ Len(<<>>) = 0
    OBVIOUS
  <2>7. \A n \in 1 .. Len(all) - 0 : all[n] + Window <= instant
    BY <2>2, <2>5
  <2> QED
    BY <2>1, <2>2, <2>6, <2>7 DEF Remembers, all
<1> QED
  BY <1>2, <1>3

LEMMA CountedRemembers ==
    ASSUME SpendInv, NEW s \in Spenders
    PROVE  /\ Remembers(Counted(s), admitted[s])
           /\ Retained[s] = <<>> => Counted(s) = <<>>
<1> USE BudgetAssumption DEF BudgetAssumption
<1> DEFINE all == admitted[s]
           r == Retained[s]
           Stops(n) == /\ \A m \in 1 .. n : ~Counts(r[m])
                       /\ n < Len(r) => Counts(r[n + 1])
           first == CHOOSE n \in 0 .. Len(r) : Stops(n)
<1>1. /\ Remembers(r, all) /\ all \in Seq(Instants)
      /\ instant \in Nat /\ Window \in Nat /\ \A i \in Instants : i \in Nat
  BY RetainedRemembers DEF SpendInv, BudgetTypeOK, Instants
<1>2. Counted(s) = SubSeq(r, first + 1, Len(r))
  BY DEF Counted
<1> HIDE DEF all, r
<1>3. r \in Seq(Instants) /\ Len(r) \in Nat /\ Len(all) \in Nat /\ Len(r) <= Len(all)
  BY <1>1 DEF Remembers
<1>4. first \in 0 .. Len(r) /\ Stops(first)
  <2> DEFINE T == {n \in 0 .. Len(r) : n < Len(r) => Counts(r[n + 1])}
  <2>1. T \subseteq Nat /\ Len(r) \in T
    BY <1>3
  <2>2. PICK n \in T : \A m \in T : n <= m
    <3> HIDE DEF T
    <3> QED
      BY <2>1, LeastNumber
  <2>3. ASSUME NEW m \in 1 .. n
        PROVE  ~Counts(r[m])
    <3>1. m - 1 \in 0 .. Len(r) /\ m - 1 < Len(r) /\ m - 1 < n /\ (m - 1) + 1 = m
      BY <1>3, <2>2
    <3>2. m - 1 \notin T
      BY <1>3, <2>2, <3>1
    <3> QED
      BY <3>1, <3>2
  <2>4. n \in 0 .. Len(r) /\ Stops(n)
    BY <2>2, <2>3
  <2> HIDE DEF Stops
  <2> QED
    BY <2>4
<1> HIDE DEF first
<1> DEFINE c == SubSeq(r, first + 1, Len(r))
<1>5. /\ c \in Seq(Instants) /\ Len(c) = Len(r) - first
      /\ \A n \in 1 .. Len(c) : c[n] = r[first + n]
  <2>1. first \in Nat /\ first <= Len(r)
    BY <1>3, <1>4
  <2>2. \A i \in first + 1 .. Len(r) : r[i] \in Instants
    BY <1>3, <2>1
  <2> QED
    BY <1>3, <2>1, <2>2, SubSeqProperties
<1> HIDE DEF c
<1>6. \A n \in 1 .. Len(c) : c[n] = all[Len(all) - Len(c) + n]
  <2> SUFFICES ASSUME NEW n \in 1 .. Len(c)
               PROVE  c[n] = all[Len(all) - Len(c) + n]
    OBVIOUS
  <2>1. first + n \in 1 .. Len(r)
    BY <1>3, <1>4, <1>5
  <2>2. r[first + n] = all[Len(all) - Len(r) + (first + n)]
    BY <1>1, <2>1 DEF Remembers
  <2>3. Len(all) - Len(r) + (first + n) = Len(all) - Len(c) + n
    BY <1>3, <1>4, <1>5
  <2> QED
    BY <1>5, <2>2, <2>3
<1>7. \A n \in 1 .. Len(all) - Len(c) : all[n] + Window <= instant
  <2> SUFFICES ASSUME NEW n \in 1 .. Len(all) - Len(c)
               PROVE  all[n] + Window <= instant
    OBVIOUS
  <2>1. CASE n <= Len(all) - Len(r)
    BY <1>1, <1>3, <2>1 DEF Remembers
  <2>2. CASE n > Len(all) - Len(r)
    <3> DEFINE m == n - (Len(all) - Len(r))
    <3>1. m \in 1 .. first /\ m \in 1 .. Len(r) /\ Len(all) - Len(r) + m = n
      BY <1>3, <1>4, <1>5, <2>2
    <3> HIDE DEF m
    <3>2. r[m] = all[n] /\ ~Counts(r[m]) /\ r[m] \in Instants
      <4>1. \A i \in 1 .. Len(r) : r[i] = all[Len(all) - Len(r) + i]
        BY <1>1 DEF Remembers
      <4>2. r[m] = all[n]
        BY <3>1, <4>1
      <4>3. ~Counts(r[m])
        BY <1>4, <3>1
      <4> QED
        BY <1>3, <3>1, <4>2, <4>3
    <3> QED
      BY <1>1, <3>2 DEF Counts
  <2> QED
    BY <1>3, <1>5, <2>1, <2>2
<1>8. Remembers(c, all)
  BY <1>3, <1>4, <1>5, <1>6, <1>7 DEF Remembers
<1>9. r = <<>> => c = <<>>
  BY <1>4, <1>5
<1> QED
  BY <1>2, <1>8, <1>9 DEF c, all, r

\* The callers that are kept after a request: those whose last admission counts, and s.
LEMMA KeptAfter ==
    ASSUME SpendInv, NEW s \in Spenders, NEW w, NEW K,
           K = {x \in Spenders : [Retained EXCEPT ![s] = w][x] # <<>>},
           MayEnter(s) \/ w = <<>>
    PROVE  IsFiniteSet(K) /\ Cardinality(K) <= Tracked
<1>1. Tracking \subseteq Kept /\ IsFiniteSet(Kept) /\ Cardinality(Kept) <= Tracked /\ Tracked \in Nat
  BY BudgetAssumption DEF Tracking, Kept, Retained, SpendInv, BudgetAssumption
<1>2. IsFiniteSet(Tracking) /\ Cardinality(Tracking) \in Nat /\ Cardinality(Tracking) <= Tracked
  <2>1. IsFiniteSet(Tracking) /\ Cardinality(Tracking) \in Nat /\ Cardinality(Kept) \in Nat
        /\ Cardinality(Tracking) <= Cardinality(Kept)
    BY <1>1, PartOf
  <2> QED
    BY <1>1, <2>1
<1>3. Retained \in [Spenders -> {Retained[x] : x \in Spenders}]
  BY DEF Retained
<1>4. \A x \in Spenders : [Retained EXCEPT ![s] = w][x] = IF x = s THEN w ELSE Retained[x]
  BY <1>3
<1>5. CASE s \in Tracking \/ w = <<>>
  <2>1. K \subseteq Tracking
    BY <1>4, <1>5 DEF Tracking
  <2>2. IsFiniteSet(K) /\ Cardinality(K) \in Nat /\ Cardinality(K) <= Cardinality(Tracking)
    BY <1>2, <2>1, PartOf
  <2> QED
    BY <1>1, <1>2, <2>2
<1>6. CASE Cardinality(Tracking) < Tracked
  <2>1. K \subseteq Tracking \cup {s}
    BY <1>4 DEF Tracking
  <2>2. /\ IsFiniteSet(Tracking \cup {s}) /\ Cardinality(Tracking \cup {s}) \in Nat
        /\ Cardinality(Tracking \cup {s}) <= Cardinality(Tracking) + 1
    BY <1>2, WithOne
  <2>3. /\ IsFiniteSet(K) /\ Cardinality(K) \in Nat
        /\ Cardinality(K) <= Cardinality(Tracking \cup {s})
    BY <2>1, <2>2, PartOf
  <2> QED
    BY <1>1, <1>2, <1>6, <2>2, <2>3
<1> QED
  BY <1>5, <1>6 DEF MayEnter

\* One admission more, when fewer than PerWindow are remembered.
LEMMA OneAdmission ==
    ASSUME SpendInv, NEW s \in Spenders, Len(Counted(s)) < PerWindow, UNCHANGED instant,
           NEW w, w = Append(Counted(s), instant),
           NEW all, all = Append(admitted[s], instant)
    PROVE  /\ w \in Seq(Instants) /\ all \in Seq(Instants)
           /\ Remembers(w, all) /\ Spaced(all)
<1> USE BudgetAssumption DEF BudgetAssumption
<1> DEFINE A == admitted[s]
           C == Counted(s)
<1>1. /\ Remembers(C, A) /\ Spaced(A) /\ instant \in Instants
      /\ instant \in Nat /\ Window \in Nat \ {0} /\ PerWindow \in Nat \ {0} /\ \A i \in Instants : i \in Nat
  BY CountedRemembers DEF SpendInv, BudgetTypeOK, Instants
<1>2. w = Append(C, instant) /\ all = Append(A, instant) /\ Len(C) < PerWindow
  OBVIOUS
<1> HIDE DEF A, C
<1>3. /\ C \in Seq(Instants) /\ A \in Seq(Instants)
      /\ Len(C) \in Nat /\ Len(A) \in Nat /\ Len(C) <= Len(A)
  BY <1>1 DEF Remembers, Spaced
<1>4. /\ w \in Seq(Instants) /\ Len(w) = Len(C) + 1 /\ w[Len(C) + 1] = instant
      /\ \A n \in 1 .. Len(C) : w[n] = C[n]
  BY <1>1, <1>2, <1>3, AppendProperties
<1>5. /\ all \in Seq(Instants) /\ Len(all) = Len(A) + 1 /\ all[Len(A) + 1] = instant
      /\ \A n \in 1 .. Len(A) : all[n] = A[n] /\ A[n] \in Nat
  <2>1. /\ all \in Seq(Instants) /\ Len(all) = Len(A) + 1 /\ all[Len(A) + 1] = instant
        /\ \A n \in 1 .. Len(A) : all[n] = A[n]
    BY <1>1, <1>2, <1>3, AppendProperties
  <2>2. \A n \in 1 .. Len(A) : A[n] \in Instants
    BY <1>3
  <2> QED
    BY <1>1, <2>1, <2>2
<1>6. Len(all) - Len(w) = Len(A) - Len(C)
  BY <1>3, <1>4, <1>5
<1>7. Remembers(w, all)
  <2>1. ASSUME NEW n \in 1 .. Len(w)
        PROVE  w[n] = all[Len(A) - Len(C) + n]
    <3>1. CASE n \in 1 .. Len(C)
      <4>1. C[n] = A[Len(A) - Len(C) + n]
        BY <1>1, <3>1 DEF Remembers
      <4>2. Len(A) - Len(C) + n \in 1 .. Len(A)
        BY <1>3, <3>1
      <4> QED
        BY <1>4, <1>5, <3>1, <4>1, <4>2
    <3>2. CASE n = Len(C) + 1
      <4>1. Len(A) - Len(C) + n = Len(A) + 1
        BY <1>3, <3>2
      <4> QED
        BY <1>4, <1>5, <3>2, <4>1
    <3>3. n \in 1 .. Len(C) \/ n = Len(C) + 1
      BY <1>3, <1>4
    <3> QED
      BY <3>1, <3>2, <3>3
  <2>2. ASSUME NEW n \in 1 .. Len(A) - Len(C)
        PROVE  all[n] + Window <= instant
    <3>1. A[n] + Window <= instant
      BY <1>1 DEF Remembers
    <3> QED
      BY <1>3, <1>5, <3>1
  <2>3. Len(w) <= Len(all)
    BY <1>3, <1>4, <1>5
  <2> QED
    BY <1>4, <1>6, <2>1, <2>2, <2>3 DEF Remembers
<1>8. Spaced(all)
  <2>1. \A n \in 1 .. Len(A) : A[n] <= instant
    BY <1>1 DEF Spaced
  <2>2. \A m, n \in 1 .. Len(A) : m <= n => A[m] <= A[n]
    BY <1>1 DEF Spaced
  <2>3. \A n \in 1 .. Len(A) : n > PerWindow => A[n - PerWindow] + Window <= A[n]
    BY <1>1 DEF Spaced
  <2>4. \A n \in 1 .. Len(all) : n \in 1 .. Len(A) \/ n = Len(A) + 1
    BY <1>3, <1>5
  <2>5. \A n \in 1 .. Len(all) : all[n] <= instant
    BY <1>1, <1>5, <2>1, <2>4
  <2>6. \A m, n \in 1 .. Len(all) : m <= n => all[m] <= all[n]
    BY <1>1, <1>3, <1>5, <2>2, <2>4, <2>5
  <2>7. ASSUME NEW n \in 1 .. Len(all), n > PerWindow
        PROVE  all[n - PerWindow] + Window <= all[n]
    <3>1. n - PerWindow \in 1 .. Len(A)
      BY <1>1, <1>3, <1>5, <2>4, <2>7
    <3>2. CASE n \in 1 .. Len(A)
      BY <1>5, <2>3, <2>7, <3>1, <3>2
    <3>3. CASE n = Len(A) + 1
      <4>1. n - PerWindow \in 1 .. Len(A) - Len(C)
        BY <1>1, <1>2, <1>3, <3>1, <3>3
      <4>2. A[n - PerWindow] + Window <= instant
        BY <1>1, <4>1 DEF Remembers
      <4> QED
        BY <1>5, <3>1, <3>3, <4>2
    <3> QED
      BY <2>4, <3>2, <3>3
  <2> QED
    BY <1>5, <2>5, <2>6, <2>7 DEF Spaced
<1> QED
  BY <1>4, <1>5, <1>7, <1>8

\* What a caller had, or has after the tidying, is as good as before.
LEMMA StillRemembers ==
    ASSUME NEW x, NEW w, NEW all, Remembers(w, all), Spaced(all), UNCHANGED instant,
           window'[x] = w, admitted'[x] = all
    PROVE  Remembers(window[x], admitted[x])' /\ Spaced(admitted[x])'
BY DEF Remembers, Spaced, Instants

LEMMA SpendStep ==
    ASSUME SpendInv, [BudgetNext]_budgetVars
    PROVE  SpendInv'
<1> USE BudgetAssumption DEF BudgetAssumption
<1>1. /\ instant \in Instants /\ instant \in Nat /\ Window \in Nat \ {0} /\ LastInstant \in Nat
      /\ window \in [Spenders -> Seq(Instants)] /\ admitted \in [Spenders -> Seq(Instants)]
      /\ \A i \in Instants : i \in Nat
      /\ \A s \in Spenders : Remembers(window[s], admitted[s]) /\ Spaced(admitted[s])
  BY DEF SpendInv, BudgetTypeOK, Instants
<1>2. /\ Retained \in [Spenders -> Seq(Instants)]
      /\ \A s \in Spenders : Remembers(Retained[s], admitted[s])
  <2>1. \A s \in Spenders : Remembers(Retained[s], admitted[s])
    BY RetainedRemembers
  <2>2. \A s \in Spenders : Retained[s] \in Seq(Instants)
    BY <2>1 DEF Remembers
  <2> QED
    BY <2>1, <2>2 DEF Retained
<1>3. ASSUME NEW s \in Spenders, Admit(s)
      PROVE  SpendInv'
  <2> DEFINE w == Append(Counted(s), instant)
             all == Append(admitted[s], instant)
  <2>1. /\ window' = [Retained EXCEPT ![s] = w] /\ admitted' = [admitted EXCEPT ![s] = all]
        /\ UNCHANGED instant /\ MayEnter(s) /\ Len(Counted(s)) < PerWindow
    BY <1>3 DEF Admit
  <2>2. /\ w \in Seq(Instants) /\ all \in Seq(Instants)
        /\ Remembers(w, all) /\ Spaced(all)
    BY <2>1, OneAdmission
  <2> HIDE DEF w, all
  <2>3. window' \in [Spenders -> Seq(Instants)] /\ admitted' \in [Spenders -> Seq(Instants)]
    BY <1>1, <1>2, <2>1, <2>2
  <2>4. ASSUME NEW x \in Spenders
        PROVE  Remembers(window[x], admitted[x])' /\ Spaced(admitted[x])'
    <3>1. CASE x = s
      <4>1. window'[x] = w /\ admitted'[x] = all
        BY <1>1, <1>2, <2>1, <3>1
      <4> QED
        BY <2>1, <2>2, <4>1 DEF Remembers, Spaced, Instants
    <3>2. CASE x # s
      <4>1. window'[x] = Retained[x] /\ admitted'[x] = admitted[x]
        BY <1>1, <1>2, <2>1, <3>2
      <4> QED
        BY <1>1, <1>2, <2>1, <4>1, StillRemembers
    <3> QED
      BY <3>1, <3>2
  <2>5. IsFiniteSet(Kept)' /\ (Cardinality(Kept) <= Tracked)'
    <3>1. Kept' = {x \in Spenders : [Retained EXCEPT ![s] = w][x] # <<>>}
      BY <2>1 DEF Kept
    <3> QED
      BY <2>1, <3>1, KeptAfter
  <2>6. BudgetTypeOK'
    BY <1>1, <2>1, <2>3 DEF BudgetTypeOK, Instants
  <2> QED
    BY <2>4, <2>5, <2>6 DEF SpendInv
<1>4. ASSUME NEW s \in Spenders, RefuseRequest(s)
      PROVE  SpendInv'
  <2> DEFINE w == IF MayEnter(s) THEN Counted(s) ELSE Retained[s]
  <2>1. /\ window' = [Retained EXCEPT ![s] = w] /\ UNCHANGED <<instant, admitted>>
    BY <1>2, <1>4 DEF RefuseRequest
  <2>2. Remembers(w, admitted[s]) /\ w \in Seq(Instants) /\ (MayEnter(s) \/ w = <<>>)
    <3>1. ~MayEnter(s) => Retained[s] = <<>>
      BY DEF MayEnter, Tracking
    <3> QED
      BY <1>2, <3>1, CountedRemembers DEF Remembers
  <2> HIDE DEF w
  <2>3. window' \in [Spenders -> Seq(Instants)]
    BY <1>2, <2>1, <2>2
  <2>4. ASSUME NEW x \in Spenders
        PROVE  Remembers(window[x], admitted[x])' /\ Spaced(admitted[x])'
    <3>1. CASE x = s
      <4>1. window'[x] = w /\ admitted'[x] = admitted[s]
        BY <1>1, <1>2, <2>1, <3>1
      <4> QED
        BY <1>1, <2>1, <2>2, <4>1 DEF Remembers, Spaced, Instants
    <3>2. CASE x # s
      <4>1. window'[x] = Retained[x] /\ admitted'[x] = admitted[x]
        BY <1>1, <1>2, <2>1, <3>2
      <4> QED
        BY <1>1, <1>2, <2>1, <4>1, StillRemembers
    <3> QED
      BY <3>1, <3>2
  <2>5. IsFiniteSet(Kept)' /\ (Cardinality(Kept) <= Tracked)'
    <3>1. Kept' = {x \in Spenders : [Retained EXCEPT ![s] = w][x] # <<>>}
      BY <2>1 DEF Kept
    <3> QED
      BY <2>2, <3>1, KeptAfter
  <2>6. BudgetTypeOK'
    BY <1>1, <2>1, <2>3 DEF BudgetTypeOK, Instants
  <2> QED
    BY <2>4, <2>5, <2>6 DEF SpendInv
<1>5. CASE NextInstant \/ UNCHANGED budgetVars
  <2>1. /\ UNCHANGED <<window, admitted>> /\ instant' \in Instants /\ instant <= instant'
        /\ instant' \in Nat
    BY <1>1, <1>5 DEF NextInstant, budgetVars, Instants
  <2>2. \A s \in Spenders : Remembers(window[s], admitted[s])' /\ Spaced(admitted[s])'
    <3>1. ASSUME NEW s \in Spenders
          PROVE  Remembers(window[s], admitted[s])' /\ Spaced(admitted[s])'
      <4>1. \A n \in 1 .. Len(admitted[s]) : admitted[s][n] \in Nat
        <5>1. admitted[s] \in Seq(Instants)
          BY <1>1
        <5>2. \A n \in 1 .. Len(admitted[s]) : admitted[s][n] \in Instants
          BY <5>1
        <5> QED
          BY <1>1, <5>2
      <4>2. Spaced(admitted[s])'
        BY <1>1, <2>1, <4>1 DEF Spaced, Instants
      <4>3. Len(window[s]) \in Nat /\ Len(admitted[s]) \in Nat
        BY <1>1
      <4>4. \A n \in 1 .. Len(admitted[s]) - Len(window[s]) :
               n \in 1 .. Len(admitted[s]) /\ admitted[s][n] + Window <= instant
        BY <1>1, <4>3 DEF Remembers
      <4>5. \A n \in 1 .. Len(admitted[s]) - Len(window[s]) : admitted[s][n] + Window <= instant'
        BY <1>1, <2>1, <4>1, <4>4
      <4>6. Remembers(window[s], admitted[s])'
        BY <1>1, <2>1, <4>5 DEF Remembers, Instants
      <4> QED
        BY <4>2, <4>6
    <3> QED
      BY <3>1
  <2> QED
    BY <1>1, <2>1, <2>2 DEF SpendInv, BudgetTypeOK, Kept, Instants
<1> QED
  BY <1>3, <1>4, <1>5 DEF BudgetNext

\* Admissions within one window are no more than PerWindow: the one PerWindow after the
\* first of them is beyond it.
LEMMA SpacedCount ==
    ASSUME NEW all, Spaced(all), instant \in Nat, LastInstant \in Nat, NEW t \in Nat
    PROVE  Cardinality({n \in 1 .. Len(all) : all[n] \in t .. t + Window - 1}) <= PerWindow
<1> USE BudgetAssumption DEF BudgetAssumption
<1> DEFINE S == {n \in 1 .. Len(all) : all[n] \in t .. t + Window - 1}
<1>1. /\ all \in Seq(Instants) /\ Len(all) \in Nat /\ \A n \in 1 .. Len(all) : all[n] \in Nat
      /\ Window \in Nat \ {0} /\ PerWindow \in Nat \ {0} /\ S \subseteq Nat
  BY DEF Spaced, Instants
<1>2. ASSUME S = {}
      PROVE  Cardinality(S) <= PerWindow
  <2>1. Cardinality(S) = 0
    BY <1>2, FS_EmptySet
  <2> QED
    BY <1>1, <2>1
<1>3. ASSUME S # {}
      PROVE  Cardinality(S) <= PerWindow
  <2>1. PICK m \in S : \A n \in S : m <= n
    <3> HIDE DEF S
    <3> QED
      BY <1>1, <1>3, LeastNumber
  <2>2. S \subseteq m .. m + PerWindow - 1
    <3> SUFFICES ASSUME NEW n \in S, ~(n <= m + PerWindow - 1)
                 PROVE  FALSE
      BY <1>1, <2>1
    <3>1. /\ n \in 1 .. Len(all) /\ n > PerWindow /\ n - PerWindow \in 1 .. Len(all)
          /\ m \in 1 .. Len(all) /\ m <= n - PerWindow
      BY <1>1
    <3>2. all[n - PerWindow] + Window <= all[n] /\ all[m] <= all[n - PerWindow]
      BY <3>1 DEF Spaced
    <3>3. t <= all[m] /\ all[n] <= t + Window - 1
      BY <1>1
    <3> QED
      BY <1>1, <3>1, <3>2, <3>3
  <2> HIDE DEF S
  <2>3. m \in Int /\ m + PerWindow - 1 \in Int /\ m \in Nat
    BY <1>1, <2>1
  <2>4. IsFiniteSet(m .. m + PerWindow - 1) /\ Cardinality(m .. m + PerWindow - 1) = PerWindow
    <3>1. /\ IsFiniteSet(m .. m + PerWindow - 1)
          /\ Cardinality(m .. m + PerWindow - 1) = IF m > m + PerWindow - 1 THEN 0
                                                   ELSE (m + PerWindow - 1) - m + 1
      BY <2>3, FS_Interval
    <3> QED
      BY <1>1, <2>3, <3>1
  <2>5. Cardinality(S) <= Cardinality(m .. m + PerWindow - 1)
    BY <2>2, <2>4, PartOf
  <2> QED
    BY <2>4, <2>5
<1> QED
  BY <1>2, <1>3

\* No caller is admitted more often than the budget allows, in any window, and no more
\* callers than the table has room for are kept (the 300 per 60 s and the 10 000 callers
\* of RequestBudget::admit).
THEOREM SpendingLimited == BudgetSpec => [](BudgetTypeOK /\ SpendingIsLimited)
<1>1. BudgetInit => SpendInv
  <2> SUFFICES ASSUME BudgetInit PROVE SpendInv
    OBVIOUS
  <2> USE BudgetAssumption DEF BudgetAssumption, BudgetInit
  <2>1. BudgetTypeOK
    BY DEF BudgetTypeOK
  <2>2. <<>> \in Seq(Instants) /\ Len(<<>>) = 0
    OBVIOUS
  <2>3. \A s \in Spenders : Remembers(window[s], admitted[s]) /\ Spaced(admitted[s])
    <3>1. \A s \in Spenders : window[s] = <<>> /\ admitted[s] = <<>>
      OBVIOUS
    <3> QED
      BY <2>2, <3>1 DEF Remembers, Spaced
  <2>4. Kept = {}
    BY DEF Kept
  <2> QED
    BY <2>1, <2>3, <2>4, FS_EmptySet DEF SpendInv
<1>2. SpendInv => SpendingIsLimited
  <2> SUFFICES ASSUME SpendInv PROVE SpendingIsLimited
    OBVIOUS
  <2>1. instant \in Nat /\ LastInstant \in Nat /\ 0 .. LastInstant \subseteq Nat
    BY BudgetAssumption DEF BudgetAssumption, SpendInv, BudgetTypeOK
  <2>2. \A s \in Spenders, t \in 0 .. LastInstant :
          Cardinality({n \in 1 .. Len(admitted[s]) : admitted[s][n] \in t .. t + Window - 1}) <= PerWindow
    BY <2>1, SpacedCount DEF SpendInv
  <2> QED
    BY <2>2 DEF SpendingIsLimited, SpendInv, Kept
<1>3. SpendInv /\ [BudgetNext]_budgetVars => SpendInv'
  BY SpendStep
<1>4. SpendInv => BudgetTypeOK
  BY DEF SpendInv
<1> QED
  BY <1>1, <1>2, <1>3, <1>4, PTL DEF BudgetSpec
----------------------------------------------------------------------------
(* Listing: the pages of one reader *)

Newer(all, i) == {j \in all : Below(Place(i), Place(j))}
Rank(all, i) == Cardinality(Newer(all, i))

\* Rows have one order: no two have the same place.
LEMMA RowsInOrder ==
    /\ \A i, j \in Rows : i # j => Below(Place(i), Place(j)) \/ Below(Place(j), Place(i))
    /\ \A i \in Rows : ~Below(Place(i), Place(i))
    /\ \A i, j, k \in Rows :
          Below(Place(i), Place(j)) /\ Below(Place(j), Place(k)) => Below(Place(i), Place(k))
<1>1. \A i \in Rows : i \in Nat /\ Created[i] \in Nat /\ Place(i)[1] = Created[i] /\ Place(i)[2] = i
  BY ListingAssumption DEF ListingAssumption, Place
<1> QED
  BY <1>1 DEF Below

\* Rows that are not the newest have their place in the order: each number of newer rows,
\* below the number of all, belongs to exactly one row.
LEMMA RanksAreExact ==
    ASSUME NEW all, all \subseteq Rows
    PROVE  /\ IsFiniteSet(all) /\ Cardinality(all) \in Nat
           /\ \A i \in all : Rank(all, i) \in 0 .. Cardinality(all) - 1
           /\ \A i, j \in all : Below(Place(i), Place(j)) <=> Rank(all, j) < Rank(all, i)
           /\ \A i, j \in all : Rank(all, i) = Rank(all, j) => i = j
           /\ \A n \in 1 .. Cardinality(all) : \E i \in all : Rank(all, i) = n - 1
<1>1. IsFiniteSet(all) /\ Cardinality(all) \in Nat
  BY PartOf, ListingAssumption DEF ListingAssumption
<1>2. ASSUME NEW i \in all
      PROVE  /\ IsFiniteSet(Newer(all, i)) /\ Rank(all, i) \in 0 .. Cardinality(all) - 1
             /\ Rank(all, i) \in Nat
  <2>1. Newer(all, i) \subseteq all /\ i \notin Newer(all, i)
    BY RowsInOrder DEF Newer
  <2>2. /\ IsFiniteSet(Newer(all, i)) /\ Cardinality(Newer(all, i)) \in Nat
        /\ Cardinality(Newer(all, i)) < Cardinality(all)
    BY <1>1, <2>1, PartOf
  <2> QED
    BY <1>1, <2>2 DEF Rank
<1>3. ASSUME NEW i \in all, NEW j \in all, Below(Place(i), Place(j))
      PROVE  Rank(all, j) < Rank(all, i)
  <2>1. Newer(all, j) \subseteq Newer(all, i) /\ Newer(all, j) # Newer(all, i)
    <3>1. j \in Newer(all, i) /\ j \notin Newer(all, j)
      BY <1>3, RowsInOrder DEF Newer
    <3> QED
      BY <1>3, <3>1, RowsInOrder DEF Newer
  <2> QED
    BY <1>2, <2>1, PartOf DEF Rank
<1>4. \A i, j \in all : Below(Place(i), Place(j)) <=> Rank(all, j) < Rank(all, i)
  <2>1. ASSUME NEW i \in all, NEW j \in all, Rank(all, j) < Rank(all, i)
        PROVE  Below(Place(i), Place(j))
    <3>1. CASE i = j
      BY <1>2, <2>1, <3>1
    <3>2. CASE Below(Place(j), Place(i))
      BY <1>2, <1>3, <2>1, <3>2
    <3> QED
      BY <3>1, <3>2, RowsInOrder
  <2> QED
    BY <1>3, <2>1
<1>5. \A i, j \in all : Rank(all, i) = Rank(all, j) => i = j
  BY <1>2, <1>3, RowsInOrder
<1>6. \A n \in 1 .. Cardinality(all) : \E i \in all : Rank(all, i) = n - 1
  <2> DEFINE T == 0 .. Cardinality(all) - 1
             f == [i \in all |-> Rank(all, i)]
  <2>1. f \in Injection(all, T)
    BY <1>2, <1>5 DEF Injection, IsInjective
  <2>2. IsFiniteSet(T) /\ Cardinality(T) = Cardinality(all)
    <3>1. /\ IsFiniteSet(T)
          /\ Cardinality(T) = IF 0 > Cardinality(all) - 1 THEN 0 ELSE (Cardinality(all) - 1) - 0 + 1
      BY <1>1, FS_Interval
    <3> QED
      BY <1>1, <3>1
  <2>3. f \in Surjection(all, T)
    <3> HIDE DEF f, T
    <3> QED
      BY <2>1, <2>2, FS_Injection
  <2>4. \A t \in T : \E i \in all : Rank(all, i) = t
    BY <2>3 DEF Surjection
  <2> QED
    BY <1>1, <2>4
<1> QED
  BY <1>1, <1>2, <1>4, <1>5, <1>6

Descending(rows) == \A m, n \in 1 .. Len(rows) : m < n => Below(Place(rows[n]), Place(rows[m]))
Has(rows, i) == \E n \in 1 .. Len(rows) : rows[n] = i

\* Rows by their number of newer ones: the newest, newest first; one that is left out is
\* older than those.
LEMMA RankedIsExact ==
    ASSUME NEW all, all \subseteq Rows, NEW limit \in Nat \ {0},
           NEW size \in Nat, size <= Cardinality(all), size < Cardinality(all) => size = limit + 1,
           NEW rows, rows = [n \in 1 .. size |-> rows[n]],
           \A n \in 1 .. size : rows[n] = CHOOSE i \in all : Rank(all, i) = n - 1
    PROVE  /\ rows \in Seq(all) /\ Descending(rows)
           /\ \A i \in all : \/ Has(rows, i)
                             \/ /\ Len(rows) = limit + 1
                                /\ \A n \in 1 .. Len(rows) : Below(Place(i), Place(rows[n]))
<1>1. all \subseteq Rows
  OBVIOUS
<1>2. \A n \in 1 .. size : rows[n] = CHOOSE i \in all : Rank(all, i) = n - 1
  OBVIOUS
<1>3. size \in Nat /\ size <= Cardinality(all) /\ Cardinality(all) \in Nat
  BY <1>1, RanksAreExact
<1>4. size < Cardinality(all) => size = limit + 1
  OBVIOUS
<1>5. \A n \in 1 .. size : rows[n] \in all /\ Rank(all, rows[n]) = n - 1
  <2> SUFFICES ASSUME NEW n \in 1 .. size
               PROVE  rows[n] \in all /\ Rank(all, rows[n]) = n - 1
    OBVIOUS
  <2>1. \E i \in all : Rank(all, i) = n - 1
    <3>1. \A t \in 1 .. Cardinality(all) : \E i \in all : Rank(all, i) = t - 1
      BY <1>1, RanksAreExact
    <3>2. n \in 1 .. Cardinality(all)
      BY <1>3
    <3> QED
      BY <3>1, <3>2
  <2> QED
    BY <1>2, <2>1
<1>6. rows \in Seq(all) /\ Len(rows) = size
  <2>1. rows \in [1 .. size -> all]
    <3>1. rows = [n \in 1 .. size |-> rows[n]]
      OBVIOUS
    <3> QED
      BY <1>5, <3>1
  <2> QED
    BY <1>3, <2>1
<1>7. Descending(rows)
  <2>1. \A i, j \in all : Rank(all, j) < Rank(all, i) => Below(Place(i), Place(j))
    BY <1>1, RanksAreExact
  <2>2. ASSUME NEW m \in 1 .. size, NEW n \in 1 .. size, m < n
        PROVE  Below(Place(rows[n]), Place(rows[m]))
    <3>1. Rank(all, rows[m]) = m - 1 /\ Rank(all, rows[n]) = n - 1 /\ m - 1 < n - 1
      BY <1>3, <1>5, <2>2
    <3> QED
      BY <1>5, <2>1, <3>1
  <2> QED
    BY <1>6, <2>2 DEF Descending
<1>8. ASSUME NEW i \in all
      PROVE  \/ Has(rows, i)
             \/ /\ Len(rows) = limit + 1
                /\ \A n \in 1 .. Len(rows) : Below(Place(i), Place(rows[n]))
  <2>1. Rank(all, i) \in 0 .. Cardinality(all) - 1
    BY <1>1, RanksAreExact
  <2>2. CASE Rank(all, i) < size
    <3>1. Rank(all, i) + 1 \in 1 .. size /\ (Rank(all, i) + 1) - 1 = Rank(all, i)
      BY <1>3, <2>1, <2>2
    <3>2. rows[Rank(all, i) + 1] \in all /\ Rank(all, rows[Rank(all, i) + 1]) = Rank(all, i)
      BY <1>5, <3>1
    <3>3. rows[Rank(all, i) + 1] = i
      BY <1>1, <3>2, RanksAreExact
    <3> QED
      BY <1>6, <3>1, <3>3 DEF Has
  <2>3. CASE size <= Rank(all, i)
    <3>1. size = limit + 1
      BY <1>3, <1>4, <2>1, <2>3
    <3>2. \A n \in 1 .. size : Rank(all, rows[n]) < Rank(all, i)
      BY <1>3, <1>5, <2>1, <2>3
    <3>3. \A n \in 1 .. size : Below(Place(i), Place(rows[n]))
      BY <1>1, <1>5, <3>2, RanksAreExact
    <3> QED
      BY <1>6, <3>1, <3>3
  <2> QED
    BY <1>3, <2>1, <2>2, <2>3
<1> QED
  BY <1>6, <1>7, <1>8

Candidates(filter, cursor) == {i \in Matching(filter) : After(i, cursor)}

LEMMA QueryIsExact ==
    ASSUME NEW filter, NEW cursor, NEW limit \in Nat \ {0}
    PROVE  /\ Query(filter, cursor, limit) \in Seq(Candidates(filter, cursor))
           /\ Descending(Query(filter, cursor, limit))
           /\ \A i \in Candidates(filter, cursor) :
                 \/ Has(Query(filter, cursor, limit), i)
                 \/ /\ Len(Query(filter, cursor, limit)) = limit + 1
                    /\ \A n \in 1 .. Len(Query(filter, cursor, limit)) :
                          Below(Place(i), Place(Query(filter, cursor, limit)[n]))
<1> DEFINE all == Candidates(filter, cursor)
           rows == Query(filter, cursor, limit)
           size == IF Cardinality(all) > limit THEN limit + 1 ELSE Cardinality(all)
<1>1. all \subseteq Rows
  BY DEF Matching, Candidates
<1>2. rows = [n \in 1 .. size |-> CHOOSE i \in all : Rank(all, i) = n - 1]
  BY DEF Query, Rank, Newer, Candidates
<1> HIDE DEF all, rows
<1>3. size \in Nat /\ size <= Cardinality(all) /\ (size < Cardinality(all) => size = limit + 1)
  <2>1. Cardinality(all) \in Nat
    BY <1>1, RanksAreExact
  <2> QED
    BY <2>1
<1> HIDE DEF size
<1>4. /\ rows = [n \in 1 .. size |-> rows[n]]
      /\ \A n \in 1 .. size : rows[n] = CHOOSE i \in all : Rank(all, i) = n - 1
  BY <1>2
<1>5. /\ rows \in Seq(all) /\ Descending(rows)
      /\ \A i \in all : \/ Has(rows, i)
                        \/ /\ Len(rows) = limit + 1
                           /\ \A n \in 1 .. Len(rows) : Below(Place(i), Place(rows[n]))
  BY <1>1, <1>3, <1>4, RankedIsExact
<1> QED
  BY <1>5 DEF all, rows

Page(filter, cursor, limit) == PageFromRows(Query(filter, cursor, limit), limit)

\* A page holds candidates, newest first; those it leaves out are after its last row.
LEMMA PageIsExact ==
    ASSUME NEW filter, NEW cursor, NEW limit \in Nat \ {0}
    PROVE  /\ Page(filter, cursor, limit).items \in Seq(Candidates(filter, cursor))
           /\ Descending(Page(filter, cursor, limit).items)
           /\ Page(filter, cursor, limit).more => Len(Page(filter, cursor, limit).items) > 0
           /\ \A i \in Candidates(filter, cursor) :
                 \/ Has(Page(filter, cursor, limit).items, i)
                 \/ /\ Page(filter, cursor, limit).more
                    /\ Below(Place(i), NextCursor(Page(filter, cursor, limit)))
<1> DEFINE all == Candidates(filter, cursor)
           rows == Query(filter, cursor, limit)
           items == Page(filter, cursor, limit).items
           more == Page(filter, cursor, limit).more
<1>1. /\ items = IF Len(rows) > limit THEN SubSeq(rows, 1, limit) ELSE rows
      /\ more <=> Len(rows) > limit
  <2>1. more = (Len(rows) > limit)
    BY DEF Page, PageFromRows
  <2>2. items = IF Len(rows) > limit THEN SubSeq(rows, 1, limit) ELSE rows
    BY DEF Page, PageFromRows
  <2> QED
    BY <2>1, <2>2, Zenon
<1>2. /\ rows \in Seq(all) /\ Descending(rows)
      /\ \A i \in all : \/ Has(rows, i)
                        \/ /\ Len(rows) = limit + 1
                           /\ \A n \in 1 .. Len(rows) : Below(Place(i), Place(rows[n]))
  BY QueryIsExact
<1>3. NextCursor(Page(filter, cursor, limit)) = Place(items[Len(items)])
  BY DEF NextCursor
<1> HIDE DEF all, rows, items, more
<1>4. Len(rows) \in Nat /\ limit \in Nat /\ 1 <= limit
  BY <1>2
<1>5. CASE Len(rows) <= limit
  <2>1. items = rows /\ ~more
    BY <1>1, <1>4, <1>5
  <2>2. \A i \in all : Has(items, i)
    BY <1>2, <1>4, <1>5, <2>1
  <2> QED
    BY <1>1, <1>2, <2>1, <2>2 DEF all, rows, items, more
<1>6. CASE Len(rows) > limit
  <2>1. /\ items \in Seq(all) /\ Len(items) = limit
        /\ \A n \in 1 .. limit : items[n] = rows[n]
    <3>1. items = SubSeq(rows, 1, limit) /\ limit \in 1 .. Len(rows)
      BY <1>1, <1>4, <1>6
    <3>2. \A n \in 1 .. limit : rows[n] \in all
      BY <1>2, <1>4, <3>1
    <3> QED
      BY <1>2, <1>4, <3>1, <3>2, SubSeqProperties
  <2>2. \A n \in 1 .. limit : n \in 1 .. Len(rows)
    BY <1>4, <1>6
  <2>3. Descending(items)
    BY <1>2, <2>1, <2>2 DEF Descending
  <2>4. ASSUME NEW i \in all
        PROVE  Has(items, i) \/ Below(Place(i), Place(items[Len(items)]))
    <3>1. CASE Has(rows, i)
      <4>1. PICK n \in 1 .. Len(rows) : rows[n] = i
        BY <3>1 DEF Has
      <4>2. CASE n <= limit
        <5>1. n \in 1 .. Len(items) /\ items[n] = i
          BY <1>4, <2>1, <4>1, <4>2
        <5> QED
          BY <5>1 DEF Has
      <4>3. CASE limit < n
        <5>1. limit \in 1 .. Len(rows)
          BY <1>4, <1>6
        <5>2. Below(Place(rows[n]), Place(rows[limit]))
          BY <1>2, <4>3, <5>1 DEF Descending
        <5>3. rows[limit] = items[Len(items)]
          BY <1>4, <2>1
        <5> QED
          BY <4>1, <5>2, <5>3
      <4> QED
        BY <1>4, <4>2, <4>3
    <3>2. CASE \A n \in 1 .. Len(rows) : Below(Place(i), Place(rows[n]))
      <4>1. limit \in 1 .. Len(rows) /\ rows[limit] = items[Len(items)]
        BY <1>4, <1>6, <2>1
      <4> QED
        BY <3>2, <4>1
    <3> QED
      BY <1>2, <3>1, <3>2
  <2>5. more /\ Len(items) > 0
    BY <1>1, <1>4, <1>6, <2>1
  <2> QED
    BY <1>1, <1>3, <2>1, <2>3, <2>4, <2>5 DEF all, rows, items, more
<1> QED
  BY <1>4, <1>5, <1>6

\* What is read so far is in order, up to the cursor; a row that matched all along is read,
\* or comes after the cursor.
ListInv ==
    /\ ListingTypeOK
    /\ Descending(listed)
    /\ reader.pc = "reading" =>
          /\ IF listed = <<>> THEN reader.cursor = Start
                              ELSE reader.cursor = Place(listed[Len(listed)])
          /\ steady \subseteq Matching(reader.filter)
          /\ \A i \in steady : Has(listed, i) \/ After(i, reader.cursor)
    /\ reader.pc = "done" => \A i \in steady : Has(listed, i)

LEMMA ListStep ==
    ASSUME ListInv, [ListingNext]_listingVars
    PROVE  ListInv'
<1> USE ListingAssumption DEF ListingAssumption
<1>1. /\ rowState \in [Rows -> RowStates] /\ reader \in Readers /\ listed \in Seq(Rows)
      /\ steady \subseteq Rows /\ Len(listed) \in Nat
      /\ reader.filter \in Filters /\ reader.cursor \in Places \cup {Start}
      /\ reader.pc \in {"idle", "reading", "done"}
  BY DEF ListInv, ListingTypeOK, Readers
<1>2. ASSUME NEW filter \in Filters, Begin(filter)
      PROVE  ListInv'
  <2>1. /\ reader' = [pc |-> "reading", filter |-> filter, cursor |-> Start] /\ listed' = <<>>
        /\ steady' = Matching(filter) /\ UNCHANGED rowState
    BY <1>2 DEF Begin
  <2>2. ListingTypeOK'
    BY <1>1, <2>1 DEF ListingTypeOK, Readers, Matching
  <2>3. Descending(listed')
    BY <2>1 DEF Descending
  <2> QED
    BY <2>1, <2>2, <2>3 DEF ListInv, Descending, Matching, After
<1>3. ASSUME NEW i \in Rows, NEW state \in RowStates, Becomes(i, state)
      PROVE  ListInv'
  <2>1. /\ rowState' = [rowState EXCEPT ![i] = state] /\ UNCHANGED <<reader, listed>>
        /\ steady' = IF state \in reader.filter THEN steady ELSE steady \ {i}
    BY <1>3 DEF Becomes
  <2>2. steady' \subseteq steady /\ (i \in steady' => state \in reader.filter)
    BY <2>1
  <2>3. ListingTypeOK'
    BY <1>1, <2>1, <2>2 DEF ListingTypeOK
  <2>4. reader.pc = "reading" => steady' \subseteq Matching(reader.filter)'
    BY <1>1, <2>1, <2>2 DEF ListInv, Matching
  <2> QED
    BY <2>1, <2>2, <2>3, <2>4 DEF ListInv, Descending, Has, After
<1>4. ASSUME NEW limit \in Limits, List(limit)
      PROVE  ListInv'
  <2> DEFINE all == Candidates(reader.filter, reader.cursor)
             page == Page(reader.filter, reader.cursor, limit)
             items == page.items
             last == NextCursor(page)
  <2>1. /\ reader.pc = "reading" /\ listed' = listed \o items /\ UNCHANGED <<rowState, steady>>
        /\ page.more => reader' = [reader EXCEPT !.cursor = last]
        /\ ~page.more => reader' = [reader EXCEPT !.pc = "done", !.cursor = Start]
    BY <1>4 DEF List, Page
  <2>2. /\ items \in Seq(all) /\ Descending(items)
        /\ page.more => Len(items) > 0
        /\ \A i \in all : Has(items, i) \/ (page.more /\ Below(Place(i), last))
    BY PageIsExact
  <2>3. /\ last = Place(items[Len(items)])
        /\ \A i \in all : i \in Rows /\ After(i, reader.cursor)
        /\ \A i \in Matching(reader.filter) : After(i, reader.cursor) => i \in all
    BY DEF NextCursor, Candidates, Matching
  <2> HIDE DEF all, items, last, page
  <2>4. /\ items \in Seq(Rows) /\ Len(items) \in Nat /\ \A n \in 1 .. Len(items) : items[n] \in all
    <3>1. \A n \in 1 .. Len(items) : items[n] \in all
      BY <2>2
    <3> QED
      BY <2>2, <2>3, <3>1
  <2>5. /\ listed' \in Seq(Rows) /\ Len(listed') = Len(listed) + Len(items)
        /\ \A n \in 1 .. Len(listed') : listed'[n] = IF n <= Len(listed) THEN listed[n]
                                                    ELSE items[n - Len(listed)]
    BY <1>1, <2>1, <2>4, ConcatProperties
  <2>6. /\ \A n \in 1 .. Len(listed) : n \in 1 .. Len(listed') /\ listed'[n] = listed[n]
        /\ \A n \in 1 .. Len(items) : /\ Len(listed) + n \in 1 .. Len(listed')
                                      /\ listed'[Len(listed) + n] = items[n]
        /\ \A n \in 1 .. Len(listed') : n > Len(listed) =>
              n - Len(listed) \in 1 .. Len(items) /\ listed'[n] = items[n - Len(listed)]
    <3>1. ASSUME NEW n \in 1 .. Len(listed)
          PROVE  n \in 1 .. Len(listed') /\ listed'[n] = listed[n]
      BY <1>1, <2>4, <2>5
    <3>2. ASSUME NEW n \in 1 .. Len(items)
          PROVE  Len(listed) + n \in 1 .. Len(listed') /\ listed'[Len(listed) + n] = items[n]
      <4>1. /\ Len(listed) + n \in 1 .. Len(listed') /\ ~(Len(listed) + n <= Len(listed))
            /\ Len(listed) + n - Len(listed) = n
        BY <1>1, <2>4, <2>5
      <4> QED
        BY <2>5, <4>1
    <3>3. ASSUME NEW n \in 1 .. Len(listed'), n > Len(listed)
          PROVE  n - Len(listed) \in 1 .. Len(items) /\ listed'[n] = items[n - Len(listed)]
      <4>1. n - Len(listed) \in 1 .. Len(items) /\ ~(n <= Len(listed))
        BY <1>1, <2>4, <2>5, <3>3
      <4> QED
        BY <2>5, <4>1
    <3> QED
      BY <3>1, <3>2, <3>3
  <2>7. ASSUME NEW m \in 1 .. Len(listed), NEW n \in 1 .. Len(items)
        PROVE  Below(Place(items[n]), Place(listed[m]))
    <3>1. Len(listed) \in 1 .. Len(listed) /\ listed # <<>>
      BY <1>1
    <3>2. reader.cursor = Place(listed[Len(listed)])
      BY <2>1, <3>1 DEF ListInv
    <3>3. listed[Len(listed)] \in Rows /\ listed[m] \in Rows /\ items[n] \in Rows
      BY <1>1, <2>3, <2>4, <3>1
    <3>4. Place(listed[Len(listed)]) # Start
      BY DEF Place, Start
    <3>5. Below(Place(items[n]), Place(listed[Len(listed)]))
      BY <2>3, <2>4, <3>2, <3>4 DEF After
    <3>6. m = Len(listed) \/ Below(Place(listed[Len(listed)]), Place(listed[m]))
      BY <1>1, <3>1 DEF ListInv, Descending
    <3> QED
      BY <3>3, <3>5, <3>6, RowsInOrder
  <2>8. Descending(listed)'
    <3>1. ASSUME NEW m \in 1 .. Len(listed'), NEW n \in 1 .. Len(listed'), m < n
          PROVE  Below(Place(listed'[n]), Place(listed'[m]))
      <4>1. CASE n <= Len(listed)
        <5>1. m \in 1 .. Len(listed) /\ n \in 1 .. Len(listed)
          BY <1>1, <2>4, <2>5, <3>1, <4>1
        <5> QED
          BY <2>6, <3>1, <5>1 DEF ListInv, Descending
      <4>2. CASE m <= Len(listed) /\ Len(listed) < n
        <5>1. m \in 1 .. Len(listed)
          BY <1>1, <4>2
        <5>2. n - Len(listed) \in 1 .. Len(items) /\ listed'[n] = items[n - Len(listed)]
          BY <2>6, <4>2
        <5> QED
          BY <2>6, <2>7, <5>1, <5>2
      <4>3. CASE Len(listed) < m
        <5>1. Len(listed) < n
          BY <1>1, <2>4, <2>5, <3>1, <4>3
        <5>2. /\ n - Len(listed) \in 1 .. Len(items) /\ listed'[n] = items[n - Len(listed)]
              /\ m - Len(listed) \in 1 .. Len(items) /\ listed'[m] = items[m - Len(listed)]
          BY <2>6, <4>3, <5>1
        <5>3. m - Len(listed) < n - Len(listed)
          BY <1>1, <3>1
        <5> QED
          BY <2>2, <5>2, <5>3 DEF Descending
      <4> QED
        BY <1>1, <4>1, <4>2, <4>3
    <3> QED
      BY <3>1 DEF Descending, Place, Below
  <2>9. ASSUME NEW i \in steady
        PROVE  Has(listed', i) \/ (page.more /\ Below(Place(i), last))
    <3>1. CASE Has(listed, i)
      BY <2>6, <3>1 DEF Has
    <3>2. CASE After(i, reader.cursor)
      <4>1. i \in all
        BY <2>1, <2>3, <3>2 DEF ListInv
      <4>2. CASE Has(items, i)
        BY <2>6, <4>2 DEF Has
      <4> QED
        BY <2>2, <4>1, <4>2
    <3> QED
      BY <2>1, <3>1, <3>2 DEF ListInv
  <2>10. CASE page.more
    <3>1. /\ reader' = [reader EXCEPT !.cursor = last] /\ Len(items) > 0
          /\ Len(items) \in 1 .. Len(items)
      BY <2>1, <2>2, <2>4, <2>10
    <3>2. last = Place(listed'[Len(listed')]) /\ listed' # <<>> /\ last \in Places
      <4>1. listed'[Len(listed')] = items[Len(items)] /\ items[Len(items)] \in Rows
        BY <2>3, <2>4, <2>5, <2>6, <3>1
      <4>2. listed' # <<>>
        BY <1>1, <2>4, <2>5, <3>1
      <4> QED
        BY <2>3, <4>1, <4>2 DEF Places
    <3>3. reader'.pc = "reading" /\ reader'.filter = reader.filter /\ reader'.cursor = last
          /\ reader' \in Readers
      BY <1>1, <2>1, <3>1, <3>2 DEF Readers
    <3>4. ListingTypeOK'
      BY <1>1, <2>1, <2>5, <3>3 DEF ListingTypeOK
    <3>5. steady' \subseteq Matching(reader.filter)'
      BY <2>1, <3>3 DEF ListInv, Matching
    <3>6. \A i \in steady' : Has(listed', i) \/ After(i, reader'.cursor)
      BY <2>1, <2>9, <3>3 DEF After
    <3> QED
      BY <2>8, <3>2, <3>3, <3>4, <3>5, <3>6 DEF ListInv, Has, After, Place, Below
  <2>11. CASE ~page.more
    <3>1. reader'.pc = "done" /\ reader' \in Readers
      BY <1>1, <2>1, <2>11 DEF Readers
    <3>2. ListingTypeOK'
      BY <1>1, <2>1, <2>5, <3>1 DEF ListingTypeOK
    <3>3. \A i \in steady' : Has(listed', i)
      BY <2>1, <2>9, <2>11
    <3> QED
      BY <2>8, <3>1, <3>2, <3>3 DEF ListInv, Has
  <2> QED
    BY <2>2, <2>10, <2>11
<1>5. CASE UNCHANGED listingVars
  BY <1>5 DEF listingVars, ListInv, ListingTypeOK, Descending, Has, Matching, After
<1> QED
  BY <1>2, <1>3, <1>4, <1>5 DEF ListingNext

\* A reader gets every row that matched all along, none twice, and the newest first,
\* whatever is created, changed and purged between the pages (PageCursor, list_schedules).
THEOREM ListingExact == ListingSpec => [](ListingTypeOK /\ ListingIsExact)
<1>1. ListingInit => ListInv
  BY DEF ListingInit, ListInv, ListingTypeOK, Descending, RowStates, Readers, Filters, Start
<1>2. ListInv /\ [ListingNext]_listingVars => ListInv'
  BY ListStep
<1>3. ListInv => ListingTypeOK /\ ListingIsExact
  BY DEF ListInv, ListingIsExact, Descending, Has
<1> QED
  BY <1>1, <1>2, <1>3, PTL DEF ListingSpec
=============================================================================
