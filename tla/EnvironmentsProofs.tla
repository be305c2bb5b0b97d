------------------------- MODULE EnvironmentsProofs -------------------------
(***************************************************************************)
(* What the advisory lock of a test environment protects, for any number   *)
(* of environments, requests, workers and connections: leases, limits and  *)
(* what can still be recovered.                                            *)
(*                                                                         *)
(* The argument: of two processes at one lock one came before the other;   *)
(* a process that holds the lock is in conflict with nobody before it; so  *)
(* who holds it exclusively holds it alone, and what was read under the    *)
(* lock stays true until the operation ends.                               *)
(***************************************************************************)
EXTENDS Environments, FiniteSetTheorems, WellFoundedInduction, TLAPS
----------------------------------------------------------------------------
(* The inductive invariants *)

\* A row obeys the table's constraints, and one that is not there has nothing in it.
SoundRow(row) ==
    /\ row \in Rows
    /\ ~Exists(row) => row = NoRow
    /\ Exists(row) => /\ (row.deleted = None) = (row.purge = None)
                      /\ (row.deleted = None) = (row.key # NoKey)

SoundRows == \A i \in Ids : SoundRow(env[i])

\* Operations under way that may issue a key have one left to issue.
Issuers == {p \in Processes : task[p].pc # "idle" /\ task[p].op \in Issuing}

KeysSuffice == IsFiniteSet(Issuers) /\ issued + Cardinality(Issuers) <= MaxKeys

\* What is done at each stage of an operation.
StageFits(t) ==
    /\ t.pc = "queued" => t.op # "create"
    /\ t.pc = "admitted" => t.op \in Admissions
    /\ t.pc = "waiting" => t.op = "create" /\ t.owner \in Owners
    /\ t.pc = "counted" => t.op \in {"create", "restore"} /\ t.owner \in Owners

Stages == \A p \in Processes : StageFits(task[p])

TablesInv == EnvironmentsTypeOK /\ SoundRows /\ KeysSuffice /\ Stages

\* Of two processes at a lock exactly one came before the other.
Line ==
    \A p, q \in Processes :
        /\ q \in ahead[p] => /\ p # q /\ p \notin ahead[q]
                             /\ task[p].pc # "idle" /\ task[q].pc # "idle"
                             /\ task[q].id = task[p].id
        /\ p # q /\ task[p].pc # "idle" /\ task[q].pc # "idle" /\ task[q].id = task[p].id =>
              q \in ahead[p] \/ p \in ahead[q]

Holds(p) == task[p].pc \in {"admitted", "counted"}

\* Nobody passes a lock that is in conflict with its own.
HoldersAgree ==
    \A p \in Processes : Holds(p) =>
        \A q \in ahead[p] : ~Exclusive(task[p].op) /\ ~Exclusive(task[q].op)

\* A creation has its id to itself.
Creates(t) == t.pc # "idle" /\ t.op = "create"

CreatorsAlone ==
    \A p \in Processes : Creates(task[p]) =>
        Present(task[p].id) = {p} /\ env[task[p].id] = NoRow

LockInv == TablesInv /\ Line /\ HoldersAgree /\ CreatorsAlone

FenceInv == LockInv /\ LeaseFences
----------------------------------------------------------------------------
(* Rows and keys *)

USE EnvironmentsAssumption

\* Nothing is being done, and there is no row.
LEMMA Blank == NoTask \in Tasks /\ NoTask.pc = "idle" /\ NoTask.op = "use" /\ SoundRow(NoRow)
<1>1. (CHOOSE i \in Ids : TRUE) \in Ids
  OBVIOUS
<1>2. NoTask \in Tasks /\ NoTask.pc = "idle" /\ NoTask.op = "use"
  BY <1>1 DEF NoTask, Tasks, Admissions, Changes, NoKey
<1>3. SoundRow(NoRow)
  BY DEF SoundRow, NoRow, Rows, Exists, Times, NoKey, None
<1> QED
  BY <1>2, <1>3

\* The updates of a row keep the table's constraints.
LEMMA RowUpdates ==
    ASSUME clock \in 0 .. MaxTime, NEW row \in Rows, SoundRow(row)
    PROVE  SoundRow(Touched(row)) /\ SoundRow(Retirement(row))
<1>1. clock \in Times /\ clock # None /\ clock + Recovery \in Times /\ clock + Recovery # None
  BY DEF Times, None
<1>2. SoundRow(Touched(row))
  BY <1>1 DEF SoundRow, Rows, Touched, Exists, NoRow
<1>3. CASE ~Exists(row) \/ row.deleted # None
  BY <1>2, <1>3 DEF Retirement
<1>4. CASE Exists(row) /\ row.deleted = None
  <2> DEFINE at == RetiredAt(row)
  <2>1. at \in 0 .. MaxTime
    BY DEF RetiredAt, Lapsed, Rows, Times
  <2>2. at \in Times /\ at # None /\ at + Recovery \in Times /\ at + Recovery # None
    BY <2>1 DEF Times, None
  <2> HIDE DEF at
  <2>3. Retirement(row) = [owner |-> row.owner, key |-> NoKey, used |-> row.used,
                           deleted |-> at, purge |-> at + Recovery, revived |-> row.revived]
    BY <1>4 DEF Retirement, Rows, at
  <2>4. SoundRow(Retirement(row))
    BY <2>2, <2>3, <1>4 DEF SoundRow, Rows, Exists, NoKey
  <2> QED
    BY <1>2, <2>4
<1> QED
  BY <1>3, <1>4

\* A row opened for an owner with the next key is one.
LEMMA RowOpens ==
    ASSUME clock \in 0 .. MaxTime, issued \in 0 .. MaxKeys, issued + 1 <= MaxKeys,
           NEW row, NEW o \in Owners, NEW past \in BOOLEAN
    PROVE  /\ SoundRow(Opened(row, o)) /\ Exists(Opened(row, o))
           /\ SoundRow([Opened(row, o) EXCEPT !.revived = past])
           /\ Exists([Opened(row, o) EXCEPT !.revived = past])
<1>1. ASSUME NEW b \in BOOLEAN, NEW new,
             new = [owner |-> o, key |-> issued + 1, used |-> clock,
                    deleted |-> None, purge |-> None, revived |-> b]
      PROVE  SoundRow(new) /\ Exists(new)
  BY <1>1 DEF SoundRow, Rows, Exists, Times, None, NoKey
<1>2. [Opened(row, o) EXCEPT !.revived = past] =
        [owner |-> o, key |-> issued + 1, used |-> clock, deleted |-> None, purge |-> None,
         revived |-> past]
  BY DEF Opened
<1>3. Opened(row, o) = [owner |-> o, key |-> issued + 1, used |-> clock, deleted |-> None,
                        purge |-> None, revived |-> FALSE]
  BY DEF Opened
<1> QED
  BY <1>1, <1>2, <1>3

\* A finite set with one element less or more.
LEMMA OneLess ==
    ASSUME NEW S, IsFiniteSet(S), NEW x
    PROVE  /\ IsFiniteSet(S \ {x}) /\ Cardinality(S) \in Nat /\ Cardinality(S \ {x}) \in Nat
           /\ Cardinality(S \ {x}) = IF x \in S THEN Cardinality(S) - 1 ELSE Cardinality(S)
BY FS_RemoveElement, FS_CardinalityType

LEMMA OneMore ==
    ASSUME NEW S, IsFiniteSet(S), NEW x
    PROVE  /\ IsFiniteSet(S \cup {x}) /\ Cardinality(S) \in Nat /\ Cardinality(S \cup {x}) \in Nat
           /\ Cardinality(S \cup {x}) = IF x \in S THEN Cardinality(S) ELSE Cardinality(S) + 1
<1>1. IsFiniteSet(S \cup {x})
  BY FS_AddElement
<1>2. Cardinality(S \cup {x}) = IF x \in S THEN Cardinality(S) ELSE Cardinality(S) + 1
  BY FS_AddElement
<1>3. Cardinality(S) \in Nat
  BY FS_CardinalityType
<1> QED
  BY <1>1, <1>2, <1>3

\* A process that begins to issue takes one of the keys that are left.
LEMMA KeysKept ==
    ASSUME TablesInv, NEW p \in Processes, NEW t \in Tasks, Become(p, t), issued' = issued,
           t.pc # "idle" /\ t.op \in Issuing => p \in Issuers \/ KeyLeft
    PROVE  KeysSuffice'
<1> DEFINE issuing == t.pc # "idle" /\ t.op \in Issuing
<1>0. task' = [task EXCEPT ![p] = t] /\ task \in [Processes -> Tasks]
  BY DEF TablesInv, EnvironmentsTypeOK, Become
<1>1. Issuers' = IF issuing THEN Issuers \cup {p} ELSE Issuers \ {p}
  BY <1>0 DEF Issuers
<1>2. IsFiniteSet(Issuers) /\ issued + Cardinality(Issuers) <= MaxKeys /\ issued \in 0 .. MaxKeys
  BY DEF TablesInv, KeysSuffice, EnvironmentsTypeOK
<1>3. Cardinality(Issuers) \in Nat
  BY <1>2, FS_CardinalityType
<1>4. CASE ~issuing
  <2>1. IsFiniteSet(Issuers') /\ Cardinality(Issuers') \in Nat
        /\ Cardinality(Issuers') <= Cardinality(Issuers)
    BY <1>1, <1>2, <1>4, OneLess
  <2> QED
    BY <1>2, <1>3, <2>1 DEF KeysSuffice
<1>5. CASE issuing
  <2>1. p \in Issuers \/ issued + Cardinality(Issuers) < MaxKeys
    BY <1>5 DEF KeyLeft, Issuers
  <2>2. IsFiniteSet(Issuers') /\ Cardinality(Issuers') \in Nat
        /\ Cardinality(Issuers') = IF p \in Issuers THEN Cardinality(Issuers)
                                                   ELSE Cardinality(Issuers) + 1
    BY <1>1, <1>2, <1>5, OneMore
  <2> QED
    BY <1>2, <1>3, <2>1, <2>2 DEF KeysSuffice
<1> QED
  BY <1>4, <1>5

\* Who was to issue a key has done so.
LEMMA KeyIssued ==
    ASSUME TablesInv, NEW p \in Issuers, Become(p, NoTask), issued' = issued + 1
    PROVE  KeysSuffice' /\ issued + 1 <= MaxKeys
<1>0. task' = [task EXCEPT ![p] = NoTask] /\ task \in [Processes -> Tasks] /\ p \in Processes
  BY DEF TablesInv, EnvironmentsTypeOK, Become, Issuers
<1>1. Issuers' = Issuers \ {p}
  BY <1>0, Blank DEF Issuers
<1>2. IsFiniteSet(Issuers) /\ issued + Cardinality(Issuers) <= MaxKeys /\ issued \in 0 .. MaxKeys
  BY DEF TablesInv, KeysSuffice, EnvironmentsTypeOK
<1>3. Cardinality(Issuers) \in Nat /\ Cardinality(Issuers') = Cardinality(Issuers) - 1
      /\ IsFiniteSet(Issuers') /\ Cardinality(Issuers') \in Nat
  BY <1>1, <1>2, FS_CardinalityType, FS_RemoveElement
<1> QED
  BY <1>2, <1>3 DEF KeysSuffice
----------------------------------------------------------------------------
(* The lock *)

LockTypes == task \in [Processes -> Tasks] /\ ahead \in [Processes -> SUBSET Processes]

\* p goes to the lock behind whoever is there, or holds it at once when nobody is.
Joins(p, t) ==
    /\ task[p].pc = "idle" /\ t.pc # "idle"
    /\ t.pc # "queued" => Present(t.id) = {}
    /\ Become(p, t)
    /\ ahead' = [ahead EXCEPT ![p] = Present(t.id)]

\* p passes the lock, or its owner's when nobody else is at the first, and keeps it.
Passes(p, t) ==
    /\ Granted(p) \/ (task[p].pc = "waiting" /\ ahead[p] = {})
    /\ Become(p, t)
    /\ t.pc \in {"admitted", "counted"} /\ t.op = task[p].op /\ t.id = task[p].id
    /\ UNCHANGED ahead

\* Two processes are at the lock of one environment.
Meet(p, q) == p # q /\ task[p].pc # "idle" /\ task[q].pc # "idle" /\ task[p].id = task[q].id

\* Who came before is at the same lock and did not come after.
LEMMA InLine ==
    ASSUME Line, NEW p \in Processes, NEW q \in Processes
    PROVE  /\ q \in ahead[p] => Meet(p, q) /\ p \notin ahead[q]
           /\ Meet(p, q) => q \in ahead[p] \/ p \in ahead[q]
BY DEF Line, Meet

\* Two that hold a lock, or hold it and may pass it, do so as readers.
LEMMA Alone ==
    ASSUME Line, HoldersAgree, NEW p \in Processes, NEW q \in Processes, Meet(p, q),
           Holds(p) \/ Granted(p), Holds(q)
    PROVE  ~Exclusive(task[p].op) /\ ~Exclusive(task[q].op)
<1>1. CASE q \in ahead[p]
  BY <1>1 DEF HoldersAgree, Granted
<1>2. CASE p \in ahead[q]
  BY <1>2 DEF HoldersAgree
<1> QED
  BY <1>1, <1>2, InLine

LEMMA JoinsInLine ==
    ASSUME LockTypes, Line, HoldersAgree, NEW p \in Processes, NEW t \in Tasks, Joins(p, t)
    PROVE  LockTypes' /\ Line' /\ HoldersAgree'
<1>1. /\ task' = [task EXCEPT ![p] = t] /\ ahead' = [ahead EXCEPT ![p] = Present(t.id)]
      /\ Present(t.id) \in SUBSET Processes
  BY DEF Joins, Become, Present
<1>2. LockTypes'
  BY <1>1 DEF LockTypes
<1>3. \A q \in Processes : p \notin ahead[q] /\ ahead[p] = {}
  BY DEF Line, Joins, LockTypes
<1>4. ASSUME NEW a \in Processes, NEW b \in Processes
      PROVE  /\ b \in ahead'[a] => /\ a # b /\ a \notin ahead'[b]
                                   /\ task'[a].pc # "idle" /\ task'[b].pc # "idle"
                                   /\ task'[b].id = task'[a].id
             /\ a # b /\ task'[a].pc # "idle" /\ task'[b].pc # "idle"
                /\ task'[b].id = task'[a].id => b \in ahead'[a] \/ a \in ahead'[b]
  <2>1. CASE a # p /\ b # p
    <3>1. ahead'[a] = ahead[a] /\ ahead'[b] = ahead[b] /\ task'[a] = task[a] /\ task'[b] = task[b]
      BY <1>1, <2>1 DEF LockTypes
    <3> QED
      BY <3>1 DEF Line
  <2>2. CASE a = p /\ b # p
    <3>1. ahead'[a] = Present(t.id) /\ ahead'[b] = ahead[b] /\ task'[a] = t /\ task'[b] = task[b]
      BY <1>1, <2>2 DEF LockTypes
    <3> QED
      BY <3>1, <2>2, <1>3 DEF Joins, Present
  <2>3. CASE a # p /\ b = p
    <3>1. ahead'[b] = Present(t.id) /\ ahead'[a] = ahead[a] /\ task'[b] = t /\ task'[a] = task[a]
      BY <1>1, <2>3 DEF LockTypes
    <3> QED
      BY <3>1, <2>3, <1>3 DEF Joins, Present
  <2>4. CASE a = p /\ b = p
    <3>1. ahead'[b] = Present(t.id)
      BY <1>1, <2>4 DEF LockTypes
    <3> QED
      BY <3>1, <2>4 DEF Joins, Present
  <2> QED
    BY <2>1, <2>2, <2>3, <2>4
<1>5. Line'
  BY <1>4 DEF Line
<1>6. ASSUME NEW a \in Processes, Holds(a)', NEW b \in ahead'[a]
      PROVE  ~Exclusive(task'[a].op) /\ ~Exclusive(task'[b].op)
  <2>1. CASE a = p
    BY <2>1, <1>1, <1>6 DEF Joins, Holds, LockTypes
  <2>2. CASE a # p
    <3>1. ahead'[a] = ahead[a] /\ task'[a] = task[a] /\ b \in Processes /\ b # p
      BY <2>2, <1>1, <1>3, <1>6 DEF LockTypes
    <3>2. task'[b] = task[b]
      BY <3>1, <1>1 DEF LockTypes
    <3> QED
      BY <3>1, <3>2, <1>6 DEF HoldersAgree, Holds
  <2> QED
    BY <2>1, <2>2
<1> QED
  BY <1>2, <1>5, <1>6 DEF HoldersAgree

LEMMA PassesInLine ==
    ASSUME LockTypes, Line, HoldersAgree, NEW p \in Processes, NEW t \in Tasks, Passes(p, t)
    PROVE  LockTypes' /\ Line' /\ HoldersAgree'
<1>1. task' = [task EXCEPT ![p] = t] /\ ahead' = ahead
  BY DEF Passes, Become
<1>2. \A q \in Processes : /\ task'[q].op = task[q].op /\ task'[q].id = task[q].id
                           /\ (task'[q].pc = "idle") <=> (task[q].pc = "idle")
                           /\ q # p => task'[q] = task[q]
  BY <1>1 DEF LockTypes, Passes, Granted
<1>3. LockTypes'
  BY <1>1 DEF LockTypes
<1>4. Line'
  BY <1>1, <1>2 DEF Line
<1>5. ASSUME NEW a \in Processes, Holds(a)', NEW b \in ahead[a]
      PROVE  ~Exclusive(task'[a].op) /\ ~Exclusive(task'[b].op)
  <2>1. b \in Processes
    BY DEF LockTypes
  <2>2. CASE a = p
    BY <1>2, <2>1, <2>2 DEF Passes, Granted
  <2>3. CASE a # p
    <3>1. task'[a] = task[a]
      BY <1>2, <2>3
    <3>2. Holds(a)
      BY <3>1, <1>5 DEF Holds
    <3> QED
      BY <3>1, <3>2, <1>2, <2>1 DEF HoldersAgree
  <2> QED
    BY <2>2, <2>3
<1> QED
  BY <1>1, <1>3, <1>4, <1>5 DEF HoldersAgree

LEMMA EndInLine ==
    ASSUME LockTypes, Line, HoldersAgree, NEW p \in Processes, End(p)
    PROVE  LockTypes' /\ Line' /\ HoldersAgree'
<1>1. /\ task' = [task EXCEPT ![p] = NoTask]
      /\ ahead' = [q \in Processes |-> IF q = p THEN {} ELSE ahead[q] \ {p}]
  BY DEF End, Become
<1>2. LockTypes'
  BY <1>1, Blank DEF LockTypes
<1>3. \A q \in Processes : q # p => task'[q] = task[q] /\ ahead'[q] = ahead[q] \ {p}
  BY <1>1 DEF LockTypes
<1>4. ahead'[p] = {} /\ task'[p].pc = "idle"
  BY <1>1, Blank DEF LockTypes
<1>5. Line'
  BY <1>3, <1>4 DEF Line
<1>6. HoldersAgree'
  BY <1>2, <1>3, <1>4 DEF HoldersAgree, Holds, LockTypes
<1> QED
  BY <1>2, <1>5, <1>6
----------------------------------------------------------------------------
(* The steps of an operation *)

\* An operation begins: it waits for the lock of an environment that is there, or for its
\* owner's in order to create one.
Begins(p, t) ==
    /\ Joins(p, t) /\ StageFits(t)
    /\ t.op \in Issuing => KeyLeft
    /\ t.pc = "queued" => Exists(env[t.id])
    /\ t.pc # "queued" => t.pc = "waiting" /\ env[t.id] = NoRow
    /\ UNCHANGED <<clock, env, issued, inside, gone, deaths>>

\* An operation has the lock: it is let in, or it has counted in order to restore or create.
Advances(p, t) ==
    /\ Passes(p, t) /\ StageFits(t)
    /\ \/ /\ t.pc = "admitted" /\ t.key = task[p].key /\ Admissible(p)
          /\ inside' = [inside EXCEPT ![t.id] = @ \cup {p}]
       \/ /\ t.pc = "counted" /\ t.op \in {"restore", "create"}
          /\ MayCount(t.owner) /\ Cardinality(ActiveOf(t.owner)) < MaxActive
          /\ UNCHANGED inside
    /\ UNCHANGED <<clock, env, issued, gone, deaths>>

\* What an operation leaves of the row of its environment when it ends.
Leaves(p, row) ==
    /\ End(p) /\ task[p].pc # "idle"
    /\ env' = [env EXCEPT ![task[p].id] = row]
    /\ UNCHANGED <<clock, gone>>

\* It leaves the row, and what others see of the data, as they are.
Quits(p) ==
    /\ Leaves(p, env[task[p].id])
    /\ inside' \in {inside, [inside EXCEPT ![task[p].id] = @ \ {p}]}
    /\ issued' = issued /\ deaths' \in 0 .. MaxDeaths

\* A lease ends: a use counts, a clean has emptied the schema.
Releases(p, row) ==
    /\ Leaves(p, row) /\ task[p].pc = "admitted"
    /\ row \in {env[task[p].id], Touched(env[task[p].id])}
    /\ inside' = [inside EXCEPT ![task[p].id] = IF task[p].op = "clean" THEN {} ELSE @ \ {p}]
    /\ UNCHANGED <<issued, deaths>>

\* It retires the environment, or drops what has expired.
Closes(p, row) ==
    /\ Leaves(p, row) /\ Granted(p) /\ Exclusive(task[p].op)
    /\ \/ row \in {env[task[p].id], Retirement(env[task[p].id])} /\ UNCHANGED inside
       \/ /\ Expired(env[task[p].id]) /\ row = NoRow
          /\ inside' = [inside EXCEPT ![task[p].id] = {}]
    /\ UNCHANGED <<issued, deaths>>

\* It issues a key: a rotation, or what was counted is opened.
Opens(p, row) ==
    /\ Leaves(p, row) /\ task[p].op \in Issuing
    /\ \/ /\ Granted(p) /\ task[p].op = "rotate" /\ Active(env[task[p].id])
          /\ row = [Opened(env[task[p].id], env[task[p].id].owner)
                       EXCEPT !.revived = env[task[p].id].revived]
       \/ task[p].pc = "counted" /\ row = Opened(env[task[p].id], task[p].owner)
    /\ issued' = issued + 1
    /\ UNCHANGED <<inside, deaths>>

\* Every step of a process is one of these.
LEMMA ArriveBegins ==
    ASSUME LockInv, NEW p \in Processes, Arrive(p)
    PROVE  \E t \in Tasks : Begins(p, t)
<1> USE DEF LockInv, TablesInv, EnvironmentsTypeOK
<1>1. ASSUME NEW op \in Admissions \cup Changes, NEW i \in Ids, NEW k \in 0 .. MaxKeys,
             Start(p, op, i, k), Exists(env[i]), op \in Issuing => KeyLeft
      PROVE  \E t \in Tasks : Begins(p, t)
  <2> DEFINE t == [NoTask EXCEPT !.pc = "queued", !.op = op, !.id = i, !.key = k]
  <2>1. t \in Tasks /\ t.pc = "queued" /\ t.op = op /\ t.id = i
    BY Blank DEF Tasks
  <2>2. StageFits(t)
    BY <2>1 DEF StageFits, Admissions, Changes
  <2>3. Joins(p, t)
    BY <1>1, <2>1 DEF Joins, Start
  <2>4. Begins(p, t)
    BY <1>1, <2>1, <2>2, <2>3 DEF Begins, Start
  <2> QED
    BY <2>1, <2>4
<1>2. \A i \in Ids : /\ env[i].key # NoKey => Exists(env[i])
                     /\ env[i].owner \in gone => Exists(env[i])
                     /\ env[i].key \in 0 .. MaxKeys /\ NoKey \in 0 .. MaxKeys
  BY DEF SoundRows, SoundRow, NoRow, Exists, Rows, NoKey
<1>3. ASSUME NEW i \in Ids, NEW op \in {"use", "clean"}, Enter(p, op, i)
      PROVE  \E t \in Tasks : Begins(p, t)
  <2>1. /\ Start(p, op, i, env[i].key) /\ Exists(env[i]) /\ env[i].key \in 0 .. MaxKeys
        /\ op \in Admissions \cup Changes /\ op \notin Issuing
    BY <1>2, <1>3 DEF Enter, Issuing, Admissions
  <2> QED
    BY <1>1, <2>1
<1>4. ASSUME NEW i \in Ids, NEW op \in {"rotate", "restore", "delete"}, Manage(p, op, i)
      PROVE  \E t \in Tasks : Begins(p, t)
  <2>1. /\ Start(p, op, i, NoKey) /\ Exists(env[i]) /\ NoKey \in 0 .. MaxKeys
        /\ op \in Admissions \cup Changes /\ (op \in Issuing => KeyLeft)
    BY <1>2, <1>4 DEF Manage, Changes
  <2> QED
    BY <1>1, <2>1
<1>5. ASSUME NEW i \in Ids, StartRetire(p, i) \/ StartWork(p, i) \/ StartSweep(p, i)
      PROVE  \E t \in Tasks : Begins(p, t)
  <2>1. PICK op \in {"retire", "work", "sweep"} : Start(p, op, i, NoKey)
    BY <1>5 DEF StartRetire, StartWork, StartSweep
  <2>2. Exists(env[i])
    BY <1>2, <1>5 DEF StartRetire, StartWork, StartSweep, Active
  <2>3. op \in Admissions \cup Changes /\ op \notin Issuing /\ NoKey \in 0 .. MaxKeys
    BY <1>2 DEF Issuing, Admissions, Changes
  <2> QED
    BY <1>1, <2>1, <2>2, <2>3
<1>6. ASSUME NEW i \in Ids, NEW o \in Owners, StartCreate(p, o, i)
      PROVE  \E t \in Tasks : Begins(p, t)
  <2> DEFINE t == [NoTask EXCEPT !.pc = "waiting", !.op = "create", !.id = i, !.owner = o]
  <2>1. t \in Tasks /\ t.pc = "waiting" /\ t.op = "create" /\ t.id = i /\ t.owner = o
    BY Blank DEF Tasks
  <2>2. StageFits(t)
    BY <2>1 DEF StageFits
  <2>3. ahead[p] = {} /\ Present(i) = {}
    BY <1>6 DEF StartCreate, Line
  <2>4. Joins(p, t)
    BY <1>6, <2>1, <2>3 DEF Joins, StartCreate
  <2>5. env[i] = NoRow
    BY <1>6 DEF StartCreate, SoundRows, SoundRow
  <2>6. Begins(p, t)
    BY <1>6, <2>1, <2>2, <2>4, <2>5 DEF Begins, StartCreate
  <2> QED
    BY <2>1, <2>6
<1> QED
  BY <1>3, <1>4, <1>5, <1>6 DEF Arrive

LEMMA ProceedMoves ==
    ASSUME LockInv, NEW p \in Processes, Proceed(p) \/ Die(p)
    PROVE  \/ \E t \in Tasks : Advances(p, t)
           \/ Quits(p)
           \/ \E row : Releases(p, row) \/ Closes(p, row) \/ Opens(p, row)
<1> USE DEF LockInv, TablesInv, EnvironmentsTypeOK
<1> DEFINE i == task[p].id
<1>0. /\ i \in Ids /\ task[p] \in Tasks /\ env[i] \in Rows /\ SoundRow(env[i])
      /\ env = [env EXCEPT ![i] = env[i]] /\ deaths \in 0 .. MaxDeaths
  BY DEF Tasks, SoundRows
<1>1. ASSUME Admit(p)
      PROVE  \E t \in Tasks : Advances(p, t)
  <2> DEFINE t == [task[p] EXCEPT !.pc = "admitted"]
  <2>1. t \in Tasks /\ t.pc = "admitted" /\ t.op = task[p].op /\ t.id = i /\ t.key = task[p].key
    BY <1>0 DEF Tasks
  <2>2. Passes(p, t) /\ StageFits(t)
    BY <1>1, <2>1 DEF Passes, StageFits, Admit
  <2>3. Advances(p, t)
    BY <1>1, <2>1, <2>2 DEF Advances, Admit
  <2> QED
    BY <2>1, <2>3
<1>2. ASSUME Refuse(p) \/ EndUnchanged(p)
      PROVE  Quits(p)
  BY <1>0, <1>2 DEF Refuse, EndUnchanged, Quits, Leaves, Granted
<1>3. ASSUME Die(p)
      PROVE  Quits(p)
  BY <1>0, <1>3 DEF Die, Quits, Leaves
<1>4. ASSUME Finish(p)
      PROVE  \E row : Releases(p, row)
  <2>1. EndWith(p, Touched(env[i])) \/ EndWith(p, env[i])
    BY <1>4 DEF Finish
  <2>2. PICK row \in {env[i], Touched(env[i])} : EndWith(p, row)
    BY <2>1
  <2>3. Releases(p, row)
    BY <1>4, <2>2 DEF Finish, Releases, Leaves, EndWith, MayFinish
  <2> QED
    BY <2>3
<1>5. ASSUME Rotate(p)
      PROVE  \E row : Opens(p, row)
  <2>1. Active(env[i])
    BY <1>5 DEF Rotate, Recoverable, Retired, Active
  <2>2. Opens(p, [Opened(env[i], env[i].owner) EXCEPT !.revived = env[i].revived])
    BY <1>5, <2>1 DEF Rotate, Opens, Leaves, EndWith, Issuing, Granted
  <2> QED
    BY <2>2
<1>6. ASSUME Retire(p)
      PROVE  \E row : Closes(p, row)
  <2>1. Closes(p, Retirement(env[i]))
    BY <1>6 DEF Retire, Closes, Leaves, EndWith, Granted, Exclusive
  <2> QED
    BY <2>1
<1>7. ASSUME Sweep(p)
      PROVE  \E row : Closes(p, row)
  <2>1. CASE Purgeable(env[i])
    <3>1. Closes(p, NoRow)
      BY <1>7, <2>1 DEF Sweep, Purgeable, Closes, Leaves, EndWith, Granted, Exclusive
    <3> QED
      BY <3>1
  <2>2. CASE ~Purgeable(env[i])
    <3> DEFINE row == IF Lapsed(env[i]) THEN Retirement(env[i]) ELSE env[i]
    <3>1. EndWith(p, row) /\ UNCHANGED inside
      BY <1>7, <2>2 DEF Sweep
    <3>2. row \in {env[i], Retirement(env[i])}
      OBVIOUS
    <3> HIDE DEF row
    <3>3. Closes(p, row)
      BY <1>7, <3>1, <3>2 DEF Sweep, Closes, Leaves, EndWith, Granted, Exclusive
    <3> QED
      BY <3>3
  <2> QED
    BY <2>1, <2>2
<1>8. ASSUME CountForRestore(p)
      PROVE  Quits(p) \/ \E t \in Tasks : Advances(p, t)
  <2>1. CASE ~(Cardinality(ActiveOf(env[i].owner)) < MaxActive)
    BY <1>0, <1>8, <2>1 DEF CountForRestore, Quits, Leaves, Granted
  <2>2. CASE Cardinality(ActiveOf(env[i].owner)) < MaxActive
    <3> DEFINE t == [task[p] EXCEPT !.pc = "counted", !.owner = env[i].owner]
    <3>1. /\ t \in Tasks /\ t.pc = "counted" /\ t.op = task[p].op /\ t.op = "restore"
          /\ t.id = i /\ t.owner = env[i].owner
      BY <1>0, <1>8 DEF Tasks, Rows, CountForRestore
    <3>2. env[i].owner \in Owners
      BY <1>0, <1>8 DEF CountForRestore, Recoverable, Exists, Rows
    <3>3. Passes(p, t) /\ StageFits(t)
      BY <1>8, <2>2, <3>1, <3>2 DEF Passes, StageFits, CountForRestore
    <3>4. Advances(p, t)
      BY <1>8, <2>2, <3>1, <3>3 DEF Advances, CountForRestore
    <3> QED
      BY <3>1, <3>4
  <2> QED
    BY <2>1, <2>2
<1>9. ASSUME Open(p)
      PROVE  \E row : Opens(p, row)
  <2>1. task[p].op \in Issuing
    BY <1>9 DEF Open, Stages, StageFits, Issuing
  <2>2. Opens(p, Opened(env[i], task[p].owner))
    BY <1>9, <2>1 DEF Open, Opens, Leaves, EndWith
  <2> QED
    BY <2>2
<1>10. ASSUME CountForCreate(p)
       PROVE  Quits(p) \/ \E t \in Tasks : Advances(p, t)
  <2>1. CASE ~HasRoom(task[p].owner)
    BY <1>0, <1>10, <2>1 DEF CountForCreate, Quits, Leaves
  <2>2. CASE HasRoom(task[p].owner)
    <3> DEFINE t == [task[p] EXCEPT !.pc = "counted"]
    <3>1. task[p].op = "create" /\ task[p].owner \in Owners /\ task[p].pc = "waiting"
      BY <1>10 DEF CountForCreate, Stages, StageFits
    <3>2. /\ t \in Tasks /\ t.pc = "counted" /\ t.op = task[p].op /\ t.op = "create"
          /\ t.id = i /\ t.owner = task[p].owner
      BY <1>0, <3>1 DEF Tasks
    <3>3. Present(i) = {p}
      BY <3>1 DEF CreatorsAlone, Creates
    <3>4. ahead[p] = {}
      BY <3>3 DEF Line, Present
    <3>5. Passes(p, t) /\ StageFits(t)
      BY <1>10, <2>2, <3>1, <3>2, <3>4 DEF Passes, StageFits, CountForCreate
    <3>6. Advances(p, t)
      BY <1>10, <2>2, <3>1, <3>2, <3>5 DEF Advances, CountForCreate, HasRoom
    <3> QED
      BY <3>2, <3>6
  <2> QED
    BY <2>1, <2>2
<1> QED
  BY <1>1, <1>2, <1>3, <1>4, <1>5, <1>6, <1>7, <1>8, <1>9, <1>10 DEF Proceed, Change
----------------------------------------------------------------------------
(* The lock's invariant is kept *)

LEMMA PresentMoves ==
    ASSUME task \in [Processes -> Tasks], NEW p \in Processes, NEW t, Become(p, t), NEW i
    PROVE  Present(i)' = IF t.pc # "idle" /\ t.id = i THEN Present(i) \cup {p}
                                                    ELSE Present(i) \ {p}
BY DEF Present, Become

\* The step of one process keeps the tables, its parts given.
LEMMA TablesStep ==
    ASSUME TablesInv, NEW p \in Processes, NEW t \in Tasks, StageFits(t), Become(p, t),
           NEW i \in Ids, NEW row, SoundRow(row), env' = [env EXCEPT ![i] = row],
           UNCHANGED <<clock, gone>>, issued' \in 0 .. MaxKeys, deaths' \in 0 .. MaxDeaths,
           inside' \in [Ids -> SUBSET Processes], ahead' \in [Processes -> SUBSET Processes],
           KeysSuffice'
    PROVE  TablesInv'
<1> USE DEF TablesInv, EnvironmentsTypeOK
<1>1. task' \in [Processes -> Tasks] /\ \A q \in Processes : task'[q] \in {t, task[q]}
  BY DEF Become
<1>2. Stages'
  BY <1>1 DEF Stages
<1>3. env' \in [Ids -> Rows] /\ \A j \in Ids : env'[j] \in {row, env[j]}
  BY DEF SoundRow
<1>4. SoundRows'
  BY <1>3 DEF SoundRows
<1>5. \A j \in Ids : Exists(env'[j]) =>
         /\ (env'[j].deleted = None) = (env'[j].purge = None)
         /\ (env'[j].deleted = None) = (env'[j].key # NoKey)
  BY <1>4 DEF SoundRows, SoundRow
<1> QED
  BY <1>1, <1>2, <1>3, <1>4, <1>5

LEMMA BeginKeeps ==
    ASSUME LockInv, NEW p \in Processes, NEW t \in Tasks, Begins(p, t)
    PROVE  LockInv'
<1> USE DEF LockInv
<1>1. LockTypes' /\ Line' /\ HoldersAgree'
  BY JoinsInLine DEF Begins, LockTypes, TablesInv, EnvironmentsTypeOK
<1>2. Become(p, t) /\ task \in [Processes -> Tasks] /\ t.id \in Ids
  BY DEF Begins, Joins, TablesInv, EnvironmentsTypeOK, Tasks
<1>3. TablesInv'
  <2>1. KeysSuffice'
    BY <1>2, KeysKept DEF Begins
  <2>2. SoundRow(env[t.id]) /\ env' = [env EXCEPT ![t.id] = env[t.id]]
    BY <1>2 DEF TablesInv, EnvironmentsTypeOK, SoundRows, Begins
  <2>3. /\ UNCHANGED <<clock, gone>> /\ issued' \in 0 .. MaxKeys /\ deaths' \in 0 .. MaxDeaths
        /\ inside' \in [Ids -> SUBSET Processes] /\ ahead' \in [Processes -> SUBSET Processes]
        /\ StageFits(t)
    BY <1>1 DEF TablesInv, EnvironmentsTypeOK, Begins, LockTypes
  <2> QED
    BY <1>2, <2>1, <2>2, <2>3, TablesStep
<1>4. ASSUME NEW q \in Processes, Creates(task[q])'
      PROVE  (Present(task[q].id) = {q} /\ env[task[q].id] = NoRow)'
  <2>1. \A r \in Processes : r # p => task'[r] = task[r]
    BY <1>2 DEF Become
  <2>2. task'[p] = t /\ env' = env /\ t.pc # "idle" /\ task[p].pc = "idle"
    BY <1>2 DEF Become, Begins, Joins
  <2>3. CASE q = p
    <3>1. Present(t.id) = {} /\ env[t.id] = NoRow
      BY <1>4, <2>2, <2>3 DEF Begins, Joins, Creates, StageFits
    <3>2. Present(t.id)' = {p}
      BY <1>2, <2>2, <3>1, PresentMoves
    <3> QED
      BY <2>2, <2>3, <3>1, <3>2
  <2>4. CASE q # p
    <3>1. Present(task[q].id) = {q} /\ env[task[q].id] = NoRow /\ task'[q] = task[q]
      BY <1>4, <2>1, <2>4 DEF CreatorsAlone, Creates
    <3>2. t.id # task[q].id
      BY <3>1, <2>4 DEF Begins, Joins, NoRow, Exists
    <3>3. ASSUME NEW j, j = task[q].id
          PROVE  Present(j)' = {q}
      BY <1>2, <3>1, <3>2, <3>3, <2>4, PresentMoves
    <3> QED
      BY <2>2, <3>1, <3>3
  <2> QED
    BY <2>3, <2>4
<1> QED
  BY <1>1, <1>3, <1>4 DEF CreatorsAlone, Creates

LEMMA AdvanceKeeps ==
    ASSUME LockInv, NEW p \in Processes, NEW t \in Tasks, Advances(p, t)
    PROVE  LockInv'
<1> USE DEF LockInv
<1>1. LockTypes' /\ Line' /\ HoldersAgree'
  BY PassesInLine DEF Advances, LockTypes, TablesInv, EnvironmentsTypeOK
<1>2. /\ Become(p, t) /\ task \in [Processes -> Tasks] /\ t.id \in Ids
      /\ t.op = task[p].op /\ t.id = task[p].id /\ task[p].pc # "idle"
  BY DEF Advances, Passes, Granted, TablesInv, EnvironmentsTypeOK, Tasks
<1>3. TablesInv'
  <2>1. t.op \in Issuing => p \in Issuers
    BY <1>2 DEF Issuers
  <2>2. KeysSuffice'
    BY <1>2, <2>1, KeysKept DEF Advances
  <2>3. SoundRow(env[t.id]) /\ env' = [env EXCEPT ![t.id] = env[t.id]]
    BY <1>2 DEF TablesInv, EnvironmentsTypeOK, SoundRows, Advances
  <2>4. /\ UNCHANGED <<clock, gone>> /\ issued' \in 0 .. MaxKeys /\ deaths' \in 0 .. MaxDeaths
        /\ inside' \in [Ids -> SUBSET Processes] /\ ahead' \in [Processes -> SUBSET Processes]
        /\ StageFits(t)
    BY <1>1 DEF TablesInv, EnvironmentsTypeOK, Advances, LockTypes
  <2> QED
    BY <1>2, <2>2, <2>3, <2>4, TablesStep
<1>4. ASSUME NEW q \in Processes, Creates(task[q])'
      PROVE  (Present(task[q].id) = {q} /\ env[task[q].id] = NoRow)'
  <2>1. \A r \in Processes : /\ task'[r].id = task[r].id /\ task'[r].op = task[r].op
                             /\ task'[r].pc # "idle" <=> task[r].pc # "idle"
    BY <1>2 DEF Become, Advances, Passes
  <2>2. Present(task[q].id) = {q} /\ env[task[q].id] = NoRow
    BY <1>4, <2>1 DEF CreatorsAlone, Creates
  <2>3. ASSUME NEW j
        PROVE  Present(j)' = Present(j)
    BY <2>1 DEF Present
  <2> QED
    BY <2>1, <2>2, <2>3 DEF Advances
<1> QED
  BY <1>1, <1>3, <1>4 DEF CreatorsAlone, Creates

\* An operation ends, and the row it leaves obeys the constraints.
LEMMA LeaveKeeps ==
    ASSUME LockInv, NEW p \in Processes, NEW row, Leaves(p, row), SoundRow(row),
           issued' \in 0 .. MaxKeys, deaths' \in 0 .. MaxDeaths,
           inside' \in [Ids -> SUBSET Processes], KeysSuffice'
    PROVE  LockInv'
<1> USE DEF LockInv
<1>1. LockTypes' /\ Line' /\ HoldersAgree'
  BY EndInLine DEF Leaves, LockTypes, TablesInv, EnvironmentsTypeOK
<1>2. /\ Become(p, NoTask) /\ task \in [Processes -> Tasks] /\ env \in [Ids -> Rows]
      /\ task[p].id \in Ids /\ env' = [env EXCEPT ![task[p].id] = row] /\ task[p].pc # "idle"
  BY DEF Leaves, End, TablesInv, EnvironmentsTypeOK, Tasks
<1>3. TablesInv'
  <2>1. StageFits(NoTask)
    BY Blank DEF StageFits
  <2> QED
    BY <1>1, <1>2, <2>1, Blank, TablesStep DEF Leaves, LockTypes
<1>4. ASSUME NEW q \in Processes, Creates(task[q])'
      PROVE  (Present(task[q].id) = {q} /\ env[task[q].id] = NoRow)'
  <2>1. task'[p].pc = "idle" /\ \A r \in Processes : r # p => task'[r] = task[r]
    BY <1>2, Blank DEF Become
  <2>2. Present(task[q].id) = {q} /\ env[task[q].id] = NoRow /\ task'[q] = task[q] /\ q # p
    BY <1>4, <2>1 DEF CreatorsAlone, Creates
  <2>3. task[p].id # task[q].id
    BY <1>2, <2>2 DEF Present
  <2>4. ASSUME NEW j, j = task[q].id
        PROVE  Present(j)' = {q}
    BY <1>2, <2>2, <2>3, <2>4, Blank, PresentMoves
  <2>5. env'[task[q].id] = env[task[q].id]
    BY <1>2, <2>3
  <2> QED
    BY <2>2, <2>4, <2>5
<1> QED
  BY <1>1, <1>3, <1>4 DEF CreatorsAlone, Creates

\* What each way to end leaves of the row.
LEMMA QuitKeeps ==
    ASSUME LockInv, NEW p \in Processes, Quits(p)
    PROVE  LockInv'
<1> USE DEF LockInv, TablesInv, EnvironmentsTypeOK
<1>1. task[p].id \in Ids /\ SoundRow(env[task[p].id])
  BY DEF Tasks, SoundRows
<1>2. inside' \in [Ids -> SUBSET Processes] /\ issued' \in 0 .. MaxKeys /\ deaths' \in 0 .. MaxDeaths
  BY <1>1 DEF Quits
<1>3. KeysSuffice'
  BY KeysKept, Blank DEF Quits, Leaves, End
<1> QED
  BY <1>1, <1>2, <1>3, LeaveKeeps DEF Quits

LEMMA ReleaseKeeps ==
    ASSUME LockInv, NEW p \in Processes, NEW row, Releases(p, row)
    PROVE  LockInv'
<1> USE DEF LockInv, TablesInv, EnvironmentsTypeOK
<1>1. task[p].id \in Ids /\ SoundRow(env[task[p].id]) /\ env[task[p].id] \in Rows
  BY DEF Tasks, SoundRows
<1>2. SoundRow(row)
  BY <1>1, RowUpdates DEF Releases
<1>3. inside' \in [Ids -> SUBSET Processes] /\ issued' \in 0 .. MaxKeys /\ deaths' \in 0 .. MaxDeaths
  BY <1>1 DEF Releases
<1>4. KeysSuffice'
  BY KeysKept, Blank DEF Releases, Leaves, End
<1> QED
  BY <1>2, <1>3, <1>4, LeaveKeeps DEF Releases

LEMMA CloseKeeps ==
    ASSUME LockInv, NEW p \in Processes, NEW row, Closes(p, row)
    PROVE  LockInv'
<1> USE DEF LockInv, TablesInv, EnvironmentsTypeOK
<1>1. task[p].id \in Ids /\ SoundRow(env[task[p].id]) /\ env[task[p].id] \in Rows
  BY DEF Tasks, SoundRows
<1>2. SoundRow(row)
  BY <1>1, RowUpdates, Blank DEF Closes
<1>3. inside' \in [Ids -> SUBSET Processes] /\ issued' \in 0 .. MaxKeys /\ deaths' \in 0 .. MaxDeaths
  BY <1>1 DEF Closes
<1>4. KeysSuffice'
  BY KeysKept, Blank DEF Closes, Leaves, End
<1> QED
  BY <1>2, <1>3, <1>4, LeaveKeeps DEF Closes

LEMMA OpenKeeps ==
    ASSUME LockInv, NEW p \in Processes, NEW row, Opens(p, row)
    PROVE  LockInv' /\ Exists(row)
<1> USE DEF LockInv, TablesInv, EnvironmentsTypeOK
<1>1. task[p].id \in Ids /\ env[task[p].id] \in Rows
  BY DEF Tasks
<1>2. p \in Issuers
  BY DEF Opens, Leaves, Issuers
<1>3. KeysSuffice' /\ issued + 1 <= MaxKeys
  BY <1>2, KeyIssued DEF Opens, Leaves, End
<1>4. SoundRow(row) /\ Exists(row)
  <2> DEFINE old == env[task[p].id]
  <2>1. CASE task[p].op = "rotate" /\ Active(old)
             /\ row = [Opened(old, old.owner) EXCEPT !.revived = old.revived]
    <3>1. old.owner \in Owners /\ old.revived \in BOOLEAN
      BY <1>1, <2>1 DEF Active, Exists, Rows
    <3> QED
      BY <1>3, <2>1, <3>1, RowOpens
  <2>2. CASE task[p].pc = "counted" /\ row = Opened(old, task[p].owner)
    <3>1. task[p].owner \in Owners
      BY <2>2 DEF Stages, StageFits
    <3> QED
      BY <1>3, <2>2, <3>1, RowOpens
  <2> QED
    BY <2>1, <2>2 DEF Opens
<1>5. inside' \in [Ids -> SUBSET Processes] /\ issued' \in 0 .. MaxKeys /\ deaths' \in 0 .. MaxDeaths
  BY <1>3 DEF Opens
<1> QED
  BY <1>3, <1>4, <1>5, LeaveKeeps DEF Opens
----------------------------------------------------------------------------
(* Leases *)

\* Who has the lock and changes the row, or has counted, has the environment to itself.
LEMMA ToItself ==
    ASSUME LockInv, NEW p \in Processes, NEW q \in Processes, Meet(p, q), Holds(q),
           \/ Granted(p) /\ Exclusive(task[p].op)
           \/ task[p].pc = "admitted" /\ task[p].op = "clean"
           \/ task[p].pc = "counted"
    PROVE  FALSE
<1>1. CASE task[p].pc = "counted" /\ task[p].op = "create"
  BY <1>1 DEF LockInv, CreatorsAlone, Creates, Present, Meet
<1>2. CASE ~(task[p].pc = "counted" /\ task[p].op = "create")
  <2>1. Exclusive(task[p].op) /\ (Holds(p) \/ Granted(p))
    BY <1>2 DEF LockInv, TablesInv, Stages, StageFits, Exclusive, Holds
  <2> QED
    BY <2>1, Alone DEF LockInv
<1> QED
  BY <1>1, <1>2

\* An operation ends, and those that stay see what they saw.
LEMMA LeavesOthers ==
    ASSUME LockInv, LeaseFences, NEW p \in Processes, NEW row, Leaves(p, row),
           \A j \in Ids : j # task[p].id => inside'[j] = inside[j],
           \A q \in Processes : Meet(p, q) /\ task[q].pc = "admitted" =>
              /\ row.owner = env[task[p].id].owner /\ row.key = env[task[p].id].key
              /\ row.deleted = env[task[p].id].deleted
              /\ q \in inside[task[p].id] => q \in inside'[task[p].id]
    PROVE  LeaseFences'
<1>1. /\ task' = [task EXCEPT ![p] = NoTask] /\ task \in [Processes -> Tasks]
      /\ env' = [env EXCEPT ![task[p].id] = row] /\ env \in [Ids -> Rows]
      /\ \A q \in Processes : task[q].id \in Ids
  BY DEF Leaves, End, Become, LockInv, TablesInv, EnvironmentsTypeOK, Tasks
<1> SUFFICES ASSUME NEW q \in Processes, task'[q].pc = "admitted"
             PROVE  /\ Exists(env'[task'[q].id]) /\ env'[task'[q].id].deleted = None
                    /\ task'[q].op \in {"use", "clean"} => env'[task'[q].id].key = task'[q].key
                    /\ q \in inside'[task'[q].id]
  BY DEF LeaseFences
<1>2. q # p /\ task'[q] = task[q]
  BY <1>1, Blank
<1>3. /\ Exists(env[task[q].id]) /\ env[task[q].id].deleted = None
      /\ task[q].op \in {"use", "clean"} => env[task[q].id].key = task[q].key
      /\ q \in inside[task[q].id]
  BY <1>2 DEF LeaseFences
<1>4. CASE task[q].id # task[p].id
  BY <1>1, <1>2, <1>3, <1>4
<1>5. CASE task[q].id = task[p].id
  <2>1. Meet(p, q)
    BY <1>2, <1>5 DEF Meet, Leaves
  <2> QED
    BY <1>1, <1>2, <1>3, <1>5, <2>1 DEF Exists
<1> QED
  BY <1>4, <1>5

LEMMA MoveFences ==
    ASSUME LockInv, LeaseFences, NEW p \in Processes,
           \/ Quits(p)
           \/ \E row : Releases(p, row) \/ Closes(p, row) \/ Opens(p, row)
    PROVE  LeaseFences'
<1> DEFINE i == task[p].id
<1>1. i \in Ids /\ inside \in [Ids -> SUBSET Processes] /\ env[i] \in Rows
  BY DEF LockInv, TablesInv, EnvironmentsTypeOK, Tasks
<1>2. CASE Quits(p)
  BY <1>1, <1>2, LeavesOthers DEF Quits, Meet
<1>3. ASSUME NEW row, Releases(p, row)
      PROVE  LeaseFences'
  <2>1. row.owner = env[i].owner /\ row.key = env[i].key /\ row.deleted = env[i].deleted
    BY <1>1, <1>3 DEF Releases, Touched, Rows
  <2>2. ASSUME NEW q \in Processes, Meet(p, q), task[q].pc = "admitted"
        PROVE  task[p].op # "clean"
    BY <1>3, <2>2, ToItself DEF Holds, Releases
  <2>3. \A q \in Processes : Meet(p, q) /\ task[q].pc = "admitted" =>
           (q \in inside[i] => q \in inside'[i])
    BY <1>1, <1>3, <2>2 DEF Releases, Meet
  <2>4. \A j \in Ids : j # i => inside'[j] = inside[j]
    BY <1>1, <1>3 DEF Releases
  <2>5. Leaves(p, row)
    BY <1>3 DEF Releases
  <2> QED
    BY <2>1, <2>3, <2>4, <2>5, LeavesOthers
<1>4. ASSUME NEW row, Closes(p, row) \/ Opens(p, row)
      PROVE  LeaseFences'
  <2>1. \A j \in Ids : j # i => inside'[j] = inside[j]
    BY <1>1, <1>4 DEF Closes, Opens
  <2>2. \A q \in Processes : ~(Meet(p, q) /\ task[q].pc = "admitted")
    BY <1>4, ToItself DEF Closes, Opens, Holds, Exclusive
  <2>3. Leaves(p, row)
    BY <1>4 DEF Closes, Opens
  <2> QED
    BY <2>1, <2>2, <2>3, LeavesOthers
<1> QED
  BY <1>2, <1>3, <1>4

\* An operation that comes in leaves what others see, and has read what it fences.
LEMMA EntryFences ==
    ASSUME LockInv, LeaseFences, NEW p \in Processes, NEW t \in Tasks,
           Begins(p, t) \/ Advances(p, t)
    PROVE  LeaseFences'
<1>1. /\ task' = [task EXCEPT ![p] = t] /\ task \in [Processes -> Tasks] /\ env' = env
      /\ t.id \in Ids /\ inside \in [Ids -> SUBSET Processes]
  BY DEF Begins, Joins, Advances, Passes, Become, LockInv, TablesInv, EnvironmentsTypeOK, Tasks
<1>2. \A i \in Ids : inside[i] \subseteq inside'[i]
  BY <1>1 DEF Begins, Advances
<1>3. ASSUME t.pc = "admitted"
      PROVE  /\ Exists(env[t.id]) /\ env[t.id].deleted = None /\ p \in inside'[t.id]
             /\ t.op \in {"use", "clean"} => env[t.id].key = t.key
  BY <1>1, <1>3 DEF Begins, Advances, Passes, Admissible, Active
<1> SUFFICES ASSUME NEW q \in Processes, task'[q].pc = "admitted"
             PROVE  /\ Exists(env'[task'[q].id]) /\ env'[task'[q].id].deleted = None
                    /\ task'[q].op \in {"use", "clean"} => env'[task'[q].id].key = task'[q].key
                    /\ q \in inside'[task'[q].id]
  BY DEF LeaseFences
<1>4. CASE q = p
  BY <1>1, <1>3, <1>4
<1>5. CASE q # p
  <2>1. task'[q] = task[q] /\ task[q].id \in Ids
    BY <1>1, <1>5 DEF Tasks
  <2> QED
    BY <1>1, <1>2, <2>1 DEF LeaseFences
<1> QED
  BY <1>4, <1>5

\* Time, the deletion of an account and what happens elsewhere disturb none of it.
LEMMA Elsewhere ==
    ASSUME FenceInv, Tick \/ (\E o \in Owners : OwnerDeleted(o)) \/ UNCHANGED vars
    PROVE  FenceInv'
<1>1. /\ clock' \in 0 .. MaxTime /\ gone' \subseteq Owners
      /\ UNCHANGED <<env, issued, inside, task, ahead, deaths>>
  BY DEF FenceInv, LockInv, TablesInv, EnvironmentsTypeOK, Tick, OwnerDeleted, vars
<1>2. TablesInv'
  BY <1>1 DEF FenceInv, LockInv, TablesInv, EnvironmentsTypeOK, SoundRows, KeysSuffice, Issuers,
              Stages
<1>3. Line' /\ HoldersAgree' /\ CreatorsAlone'
  BY <1>1 DEF FenceInv, LockInv, Line, HoldersAgree, Holds, CreatorsAlone, Present
<1>4. LeaseFences'
  BY <1>1 DEF FenceInv, LeaseFences
<1> QED
  BY <1>2, <1>3, <1>4 DEF FenceInv, LockInv

LEMMA FenceStep ==
    ASSUME FenceInv, [Next]_vars
    PROVE  FenceInv'
<1>1. ASSUME NEW p \in Processes, Arrive(p) \/ Proceed(p) \/ Die(p)
      PROVE  FenceInv'
  <2>1. \/ \E t \in Tasks : Begins(p, t) \/ Advances(p, t)
        \/ Quits(p)
        \/ \E row : Releases(p, row) \/ Closes(p, row) \/ Opens(p, row)
    BY <1>1, ArriveBegins, ProceedMoves DEF FenceInv
  <2>2. LockInv'
    BY <2>1, BeginKeeps, AdvanceKeeps, QuitKeeps, ReleaseKeeps, CloseKeeps, OpenKeeps DEF FenceInv
  <2>3. LeaseFences'
    BY <2>1, MoveFences, EntryFences DEF FenceInv
  <2> QED
    BY <2>2, <2>3 DEF FenceInv
<1> QED
  BY <1>1, Elsewhere DEF Next

LEMMA FenceInit == Init => FenceInv
<1> SUFFICES ASSUME Init PROVE FenceInv
  OBVIOUS
<1> USE DEF Init
<1>1. Issuers = {}
  BY Blank DEF Issuers
<1>2. KeysSuffice
  BY <1>1, FS_EmptySet DEF KeysSuffice
<1>3. EnvironmentsTypeOK
  BY Blank DEF EnvironmentsTypeOK, SoundRow, Exists, NoRow
<1>4. SoundRows /\ Stages
  BY Blank DEF SoundRows, Stages, StageFits
<1>5. Line /\ HoldersAgree /\ LeaseFences
  BY Blank DEF Line, HoldersAgree, LeaseFences, Holds
<1>6. CreatorsAlone
  BY Blank DEF CreatorsAlone, Creates
<1> QED
  BY <1>2, <1>3, <1>4, <1>5, <1>6 DEF FenceInv, LockInv, TablesInv

\* The invariant holds in every behaviour, whatever the fairness and the pace of time.
THEOREM EnvironmentsFenced == Init /\ [][Next]_vars => []FenceInv
BY FenceInit, FenceStep, PTL

\* The variables keep their types, and the rows obey the CHECK constraints of the
\* migration that creates testing_environments.
THEOREM EnvironmentsTypes == Spec => []EnvironmentsTypeOK
<1>1. FenceInv => EnvironmentsTypeOK
  BY DEF FenceInv, LockInv, TablesInv
<1> QED
  BY <1>1, EnvironmentsFenced, PTL DEF Spec

\* A lease fences its environment: no clean, rotation, retirement or drop of
\* TestingEnvironmentStore overtakes an admitted use, clean or delivery.
THEOREM LeasesFence == Spec => []LeaseFences
<1>1. FenceInv => LeaseFences
  BY DEF FenceInv
<1> QED
  BY <1>1, EnvironmentsFenced, PTL DEF Spec

\* A row goes only when it has passed its deadline: purge_expired reads it again
\* under the lock.
THEOREM RecoverablesStay == Spec => RecoverableIsKept
<1>1. ASSUME FenceInv, [Next]_vars
      PROVE  [\A i \in Ids : Exists(env[i]) /\ ~Exists(env'[i]) => Expired(env[i])]_vars
  <2> SUFFICES ASSUME NEW i \in Ids, Exists(env[i]), ~Exists(env'[i])
               PROVE  Expired(env[i])
    OBVIOUS
  <2>1. PICK p \in Processes : Arrive(p) \/ Proceed(p) \/ Die(p)
    BY <1>1 DEF Next, Tick, OwnerDeleted, vars
  <2>2. \/ \E t \in Tasks : Begins(p, t) \/ Advances(p, t)
        \/ Quits(p)
        \/ \E row : Releases(p, row) \/ Closes(p, row) \/ Opens(p, row)
    BY <1>1, <2>1, ArriveBegins, ProceedMoves DEF FenceInv
  <2>3. env \in [Ids -> Rows] /\ task[p].id \in Ids
    BY <1>1 DEF FenceInv, LockInv, TablesInv, EnvironmentsTypeOK, Tasks
  <2>4. PICK row : Leaves(p, row) /\ row = env'[task[p].id] /\ i = task[p].id
                   /\ \/ row = env[i]
                      \/ Releases(p, row) \/ Closes(p, row) \/ Opens(p, row)
    BY <2>2, <2>3 DEF Begins, Advances, Quits, Releases, Closes, Opens, Leaves
  <2>5. CASE Releases(p, row)
    BY <2>3, <2>4, <2>5 DEF Releases, Touched, Exists, Rows
  <2>6. CASE Closes(p, row)
    BY <2>3, <2>4, <2>6 DEF Closes, Retirement, Exists, Rows
  <2>7. CASE Opens(p, row)
    BY <1>1, <2>4, <2>7, OpenKeeps DEF FenceInv
  <2> QED
    BY <2>4, <2>5, <2>6, <2>7
<1> QED
  BY <1>1, EnvironmentsFenced, PTL DEF Spec, RecoverableIsKept
----------------------------------------------------------------------------
(* Keys *)

\* A key opens at most one environment.
KeysAreDistinct ==
    \A i \in Ids :
        /\ env[i].key <= issued
        /\ \A j \in Ids : env[i].key = env[j].key /\ env[i].key # NoKey => i = j

\* A key that was rotated away, retired or dropped with its environment opens none again,
\* though environments are restored and their ids are used again.
EndedKeysStayEnded ==
    [][\A k \in 1 .. issued :
          (\A i \in Ids : env[i].key # k) => \A i \in Ids : env'[i].key # k]_vars

\* The keys in one step: one row may lose its key or get one that was never issued.
LEMMA KeysMove ==
    ASSUME FenceInv, [Next]_vars
    PROVE  /\ issued \in Nat /\ issued' \in Nat /\ issued <= issued'
           /\ \A i \in Ids : env[i].key \in Nat
           /\ \E i \in Ids :
                /\ \A j \in Ids \ {i} : env'[j].key = env[j].key
                /\ \/ env'[i].key \in {env[i].key, NoKey}
                   \/ issued' = issued + 1 /\ env'[i].key = issued'
<1>1. /\ env \in [Ids -> Rows] /\ issued \in Nat /\ \A i \in Ids : env[i].key \in Nat
  BY DEF FenceInv, LockInv, TablesInv, EnvironmentsTypeOK, Rows
<1>2. CASE UNCHANGED <<env, issued>>
  BY <1>1, <1>2
<1>3. ASSUME NEW p \in Processes, Arrive(p) \/ Proceed(p) \/ Die(p), ~UNCHANGED <<env, issued>>
      PROVE  /\ issued' \in Nat /\ issued <= issued'
             /\ \E i \in Ids :
                  /\ \A j \in Ids \ {i} : env'[j].key = env[j].key
                  /\ \/ env'[i].key \in {env[i].key, NoKey}
                     \/ issued' = issued + 1 /\ env'[i].key = issued'
  <2>1. \/ \E t \in Tasks : Begins(p, t) \/ Advances(p, t)
        \/ Quits(p)
        \/ \E row : Releases(p, row) \/ Closes(p, row) \/ Opens(p, row)
    BY <1>3, ArriveBegins, ProceedMoves DEF FenceInv
  <2> DEFINE i == task[p].id
  <2>2. i \in Ids
    BY DEF FenceInv, LockInv, TablesInv, EnvironmentsTypeOK, Tasks
  <2>3. ~Quits(p) /\ \A t \in Tasks : ~Begins(p, t) /\ ~Advances(p, t)
    BY <1>1, <1>3, <2>2 DEF Quits, Leaves, Begins, Advances
  <2>4. PICK row : Releases(p, row) \/ Closes(p, row) \/ Opens(p, row)
    BY <2>1, <2>3
  <2>5. /\ env'[i] = row /\ \A j \in Ids \ {i} : env'[j] = env[j]
    BY <1>1, <2>2, <2>4 DEF Releases, Closes, Opens, Leaves
  <2>6. CASE Releases(p, row) \/ Closes(p, row)
    <3>1. row.key \in {env[i].key, NoKey} /\ issued' = issued
      <4>1. env[i] \in Rows
        BY <1>1, <2>2
      <4>2. Touched(env[i]).key = env[i].key
        BY <4>1 DEF Touched, Rows
      <4>3. Retirement(env[i]).key \in {env[i].key, NoKey}
        BY <4>1 DEF Retirement, Rows
      <4>4. NoRow.key = NoKey
        BY DEF NoRow
      <4> QED
        BY <2>6, <4>2, <4>3, <4>4 DEF Releases, Closes
    <3> QED
      BY <1>1, <2>2, <2>5, <3>1
  <2>7. CASE Opens(p, row)
    <3>1. row.key = issued + 1 /\ issued' = issued + 1
      BY <2>7 DEF Opens, Opened
    <3> QED
      BY <1>1, <2>2, <2>5, <3>1
  <2> QED
    BY <2>4, <2>6, <2>7
<1> QED
  BY <1>1, <1>2, <1>3 DEF Next, Tick, OwnerDeleted, vars

\* Keys tell environments apart, and a key has one life: what rotate, retire and purge
\* have taken away no restoration gives back.
THEOREM KeysHaveOneLife == Spec => []KeysAreDistinct /\ EndedKeysStayEnded
<1>1. Init => KeysAreDistinct
  BY DEF Init, KeysAreDistinct, NoRow, NoKey
<1>2. FenceInv /\ KeysAreDistinct /\ [Next]_vars => KeysAreDistinct'
  <2> SUFFICES ASSUME FenceInv, KeysAreDistinct, [Next]_vars PROVE KeysAreDistinct'
    OBVIOUS
  <2>1. PICK i \in Ids :
          /\ \A j \in Ids \ {i} : env'[j].key = env[j].key
          /\ \/ env'[i].key \in {env[i].key, NoKey}
             \/ issued' = issued + 1 /\ env'[i].key = issued'
    BY KeysMove
  <2>2. /\ issued \in Nat /\ issued' \in Nat /\ issued <= issued'
        /\ \A j \in Ids : env[j].key \in Nat /\ env[j].key <= issued
    BY KeysMove DEF KeysAreDistinct
  <2>3. ASSUME NEW j \in Ids PROVE env'[j].key <= issued'
    BY <2>1, <2>2 DEF NoKey
  <2>4. ASSUME NEW j \in Ids, NEW h \in Ids, env'[j].key = env'[h].key, env'[j].key # NoKey
        PROVE  j = h
    <3>1. CASE env'[i].key \in {env[i].key, NoKey}
      BY <2>1, <2>4, <3>1 DEF KeysAreDistinct
    <3>2. CASE issued' = issued + 1 /\ env'[i].key = issued'
      <4>1. \A x \in Ids \ {i} : env'[x].key # env'[i].key
        BY <2>1, <2>2, <3>2
      <4>2. CASE j # i /\ h # i
        BY <2>1, <2>4, <4>2 DEF KeysAreDistinct
      <4> QED
        BY <2>4, <4>1, <4>2
    <3> QED
      BY <2>1, <3>1, <3>2
  <2> QED
    BY <2>3, <2>4 DEF KeysAreDistinct
<1>3. FenceInv /\ [Next]_vars =>
        \A k \in 1 .. issued : (\A i \in Ids : env[i].key # k) => \A i \in Ids : env'[i].key # k
  <2> SUFFICES ASSUME FenceInv, [Next]_vars, NEW k \in 1 .. issued, \A j \in Ids : env[j].key # k,
                      NEW h \in Ids
               PROVE  env'[h].key # k
    OBVIOUS
  <2>1. PICK i \in Ids :
          /\ \A j \in Ids \ {i} : env'[j].key = env[j].key
          /\ \/ env'[i].key \in {env[i].key, NoKey}
             \/ issued' = issued + 1 /\ env'[i].key = issued'
    BY KeysMove
  <2>2. issued \in Nat
    BY KeysMove
  <2> QED
    BY <2>1, <2>2 DEF NoKey
<1> QED
  BY <1>1, <1>2, <1>3, EnvironmentsFenced, PTL DEF Spec, EndedKeysStayEnded
----------------------------------------------------------------------------
(* The limit of an owner *)

\* What the limit is for: environments that are active and were not revived by a lease.
Counted(o) == {i \in ActiveOf(o) : ~env[i].revived}

\* There are finitely many rows.
FewRows == IsFiniteSet({i \in Ids : Exists(env[i])})

\* Every owner is within the limit.
Within == \A o \in Owners : IsFiniteSet(Counted(o)) /\ Cardinality(Counted(o)) <= MaxActive

\* Who has counted is the only one for its owner, and what it counted left room.
CountsApart ==
    \A p \in Processes : task[p].pc = "counted" =>
        /\ Cardinality(Counted(task[p].owner)) < MaxActive
        /\ \A q \in Processes : task[q].pc = "counted" /\ task[q].owner = task[p].owner => q = p

BoundInv == FenceInv /\ FewRows /\ Within /\ CountsApart

\* The environments of an owner that count do not grow, but by what was counted.
Fewer(o) == Counted(o)' \subseteq Counted(o)
Grows(p, o) ==
    /\ task[p].pc = "counted" /\ task[p].owner = o
    /\ \E i \in Ids : Counted(o)' \subseteq Counted(o) \cup {i}

\* A set with no more elements than another is finite and no larger.
LEMMA NoLarger ==
    ASSUME NEW S, NEW T, IsFiniteSet(S), T \subseteq S
    PROVE  IsFiniteSet(T) /\ Cardinality(T) \in Nat /\ Cardinality(S) \in Nat
           /\ Cardinality(T) <= Cardinality(S)
<1>1. IsFiniteSet(T) /\ Cardinality(T) <= Cardinality(S)
  BY FS_Subset
<1> QED
  BY <1>1, FS_CardinalityType

\* The limit is kept by a step of p that adds at most what p has counted.
LEMMA LimitKept ==
    ASSUME BoundInv, NEW p \in Processes, NEW t \in Tasks, Become(p, t),
           \A o \in Owners : Fewer(o) \/ (Grows(p, o) /\ t.pc # "counted"),
           t.pc = "counted" => /\ t.owner \in Owners /\ MayCount(t.owner)
                               /\ Cardinality(Counted(t.owner)) < MaxActive
    PROVE  Within' /\ CountsApart'
<1> USE DEF BoundInv
<1>1. task' = [task EXCEPT ![p] = t] /\ task \in [Processes -> Tasks]
  BY DEF Become, FenceInv, LockInv, TablesInv, EnvironmentsTypeOK
<1>2. ASSUME NEW o \in Owners, Fewer(o)
      PROVE  /\ IsFiniteSet(Counted(o)') /\ Cardinality(Counted(o)') \in Nat
             /\ Cardinality(Counted(o)) \in Nat
             /\ Cardinality(Counted(o)') <= Cardinality(Counted(o))
  <2>1. IsFiniteSet(Counted(o)) /\ Counted(o)' \subseteq Counted(o)
    BY <1>2 DEF Within, Fewer
  <2> QED
    BY <2>1, NoLarger
<1>3. ASSUME NEW o \in Owners, Grows(p, o)
      PROVE  IsFiniteSet(Counted(o)') /\ Cardinality(Counted(o)') <= MaxActive
  <2>1. PICK i \in Ids : Counted(o)' \subseteq Counted(o) \cup {i}
    BY <1>3 DEF Grows
  <2>2. IsFiniteSet(Counted(o)) /\ Cardinality(Counted(o)) < MaxActive
    BY <1>3 DEF Within, CountsApart, Grows
  <2> DEFINE C == Counted(o)
             S == C \cup {i}
  <2>3. IsFiniteSet(S) /\ Cardinality(S) \in Nat /\ Cardinality(S) <= MaxActive
    <3>1. IsFiniteSet(C) /\ Cardinality(C) < MaxActive /\ MaxActive \in Nat
      BY <2>2
    <3> HIDE DEF C
    <3> QED
      BY <3>1, OneMore
  <2>4. Counted(o)' \subseteq S
    BY <2>1
  <2> HIDE DEF S
  <2>5. IsFiniteSet(Counted(o)') /\ Cardinality(Counted(o)') <= Cardinality(S)
        /\ Cardinality(Counted(o)') \in Nat
    BY <2>3, <2>4, NoLarger
  <2> QED
    BY <2>3, <2>5
<1>4. ASSUME NEW o \in Owners
      PROVE  IsFiniteSet(Counted(o)') /\ Cardinality(Counted(o)') <= MaxActive
  <2>1. CASE Fewer(o)
    BY <2>1, <1>2 DEF Within
  <2>2. CASE Grows(p, o)
    BY <2>2, <1>3
  <2> QED
    BY <2>1, <2>2
<1>5. Within'
  BY <1>4 DEF Within
<1>6. ASSUME NEW q \in Processes, task'[q].pc = "counted", NEW o, o = task'[q].owner
      PROVE  /\ o \in Owners /\ Fewer(o) /\ Cardinality(Counted(o)) < MaxActive
             /\ \A r \in Processes : task'[r].pc = "counted" /\ task'[r].owner = o => r = q
  <2>1. CASE q = p
    <3>1. task'[q] = t /\ t.pc = "counted" /\ \A r \in Processes : r # p => task'[r] = task[r]
      BY <1>1, <1>6, <2>1
    <3>2. Fewer(t.owner) /\ o = t.owner
      BY <3>1, <1>6
    <3> QED
      BY <3>1, <3>2, <2>1 DEF MayCount
  <2>2. CASE q # p
    <3>1. task'[q] = task[q] /\ task[q].pc = "counted" /\ task[q].owner = o /\ o \in Owners
      BY <1>1, <1>6, <2>2 DEF FenceInv, LockInv, TablesInv, Stages, StageFits
    <3>2. ~Grows(p, o)
      BY <3>1, <2>2 DEF Grows, CountsApart
    <3>3. ~(t.pc = "counted" /\ t.owner = o)
      BY <3>1 DEF MayCount
    <3>4. task'[p] = t /\ \A r \in Processes : r # p => task'[r] = task[r]
      BY <1>1
    <3> QED
      BY <3>1, <3>2, <3>3, <3>4 DEF CountsApart
  <2> QED
    BY <2>1, <2>2
<1>7. CountsApart'
  <2>1. ASSUME NEW q \in Processes, task'[q].pc = "counted", NEW o, o = task'[q].owner
        PROVE  Cardinality(Counted(o)') < MaxActive
    <3>1. o \in Owners /\ Fewer(o) /\ Cardinality(Counted(o)) < MaxActive
      BY <1>6, <2>1
    <3>2. /\ Cardinality(Counted(o)') \in Nat /\ Cardinality(Counted(o)) \in Nat
          /\ Cardinality(Counted(o)') <= Cardinality(Counted(o))
      BY <3>1, <1>2
    <3> QED
      BY <3>1, <3>2
  <2> QED
    BY <2>1, <1>6 DEF CountsApart
<1> QED
  BY <1>5, <1>7

\* What was counted includes what counts, and there are finitely many of both.
LEMMA CountedIsActive ==
    ASSUME FewRows, NEW o \in Owners, Cardinality(ActiveOf(o)) < MaxActive
    PROVE  Cardinality(Counted(o)) < MaxActive
<1>1. IsFiniteSet(ActiveOf(o))
  <2>1. ActiveOf(o) \subseteq {i \in Ids : Exists(env[i])}
    BY DEF ActiveOf, RowsOf, Active
  <2> QED
    BY <2>1, FS_Subset DEF FewRows
<1>2. Cardinality(Counted(o)) \in Nat /\ Cardinality(ActiveOf(o)) \in Nat
      /\ Cardinality(Counted(o)) <= Cardinality(ActiveOf(o))
  <2>1. Counted(o) \subseteq ActiveOf(o)
    BY DEF Counted
  <2> QED
    BY <1>1, <2>1, NoLarger
<1> QED
  BY <1>2

\* What p leaves of the row of its environment decides what counts.
LEMMA RowDecides ==
    ASSUME FenceInv, NEW p \in Processes, NEW row, Leaves(p, row), NEW o \in Owners
    PROVE  /\ Counted(o)' \subseteq Counted(o) \cup {task[p].id}
           /\ ~(Active(row) /\ ~row.revived /\ row.owner = o) => Fewer(o)
           /\ task[p].id \in Counted(o) => Fewer(o)
<1> DEFINE i == task[p].id
<1>1. /\ env' = [env EXCEPT ![i] = row] /\ env \in [Ids -> Rows] /\ i \in Ids /\ clock' = clock
  BY DEF FenceInv, LockInv, TablesInv, EnvironmentsTypeOK, Tasks, Leaves
<1>2. \A j \in Ids :
        /\ j \in Counted(o) <=> env[j].owner = o /\ Active(env[j]) /\ ~env[j].revived
        /\ j \in Counted(o)' <=> env'[j].owner = o /\ Active(env'[j]) /\ ~env'[j].revived
  BY <1>1 DEF Counted, ActiveOf, RowsOf, Active, Lapsed
<1>3. Counted(o) \subseteq Ids /\ Counted(o)' \subseteq Ids
  BY DEF Counted, ActiveOf, RowsOf
<1>4. \A j \in Ids : j # i => (j \in Counted(o)' <=> j \in Counted(o))
  BY <1>1, <1>2
<1>5. i \in Counted(o)' <=> row.owner = o /\ Active(row) /\ ~row.revived
  BY <1>1, <1>2
<1> QED
  BY <1>1, <1>3, <1>4, <1>5 DEF Fewer

\* Nothing that counts changes while rows and time stay as they are.
LEMMA RowsStand ==
    ASSUME env' = env, clock' = clock, NEW o \in Owners
    PROVE  Fewer(o)
BY DEF Fewer, Counted, ActiveOf, RowsOf, Active, Lapsed

\* A step adds one row at most.
LEMMA RowsStayFew ==
    ASSUME FewRows, NEW i, \A j \in Ids \ {i} : env'[j] = env[j]
    PROVE  FewRows'
<1> DEFINE S == {j \in Ids : Exists(env[j])}
           T == {j \in Ids : Exists(env'[j])}
<1>1. IsFiniteSet(S \cup {i}) /\ T \subseteq S \cup {i}
  BY FS_AddElement DEF FewRows
<1>2. IsFiniteSet(T)
  BY <1>1, FS_Subset
<1> QED
  BY <1>2 DEF FewRows, Exists

LEMMA BoundBegins ==
    ASSUME BoundInv, NEW p \in Processes, NEW t \in Tasks, Begins(p, t) \/ Advances(p, t)
    PROVE  FewRows' /\ Within' /\ CountsApart'
<1> USE DEF BoundInv
<1>1. Become(p, t) /\ env' = env /\ clock' = clock
  BY DEF Begins, Joins, Advances, Passes
<1>2. \A o \in Owners : Fewer(o)
  BY <1>1, RowsStand
<1>3. t.pc = "counted" => /\ t.owner \in Owners /\ MayCount(t.owner)
                          /\ Cardinality(Counted(t.owner)) < MaxActive
  BY CountedIsActive DEF Begins, Advances, StageFits
<1>4. Within' /\ CountsApart'
  BY <1>1, <1>2, <1>3, LimitKept
<1> QED
  BY <1>1, <1>4 DEF FewRows

LEMMA BoundLeaves ==
    ASSUME BoundInv, NEW p \in Processes,
           \/ Quits(p)
           \/ \E row : Releases(p, row) \/ Closes(p, row) \/ Opens(p, row)
    PROVE  FewRows' /\ Within' /\ CountsApart'
<1> USE DEF BoundInv
<1> DEFINE i == task[p].id
<1>1. PICK row : /\ Leaves(p, row)
                 /\ row = env[i] \/ Releases(p, row) \/ Closes(p, row) \/ Opens(p, row)
  BY DEF Quits, Releases, Closes, Opens
<1>2. /\ Become(p, NoTask) /\ env \in [Ids -> Rows] /\ clock \in Nat
      /\ i \in Ids /\ env' = [env EXCEPT ![i] = row] /\ env[i] \in Rows
  BY <1>1 DEF Leaves, End, FenceInv, LockInv, TablesInv, EnvironmentsTypeOK, Tasks
<1>3. ASSUME ~(task[p].pc = "counted" /\ Opens(p, row)), Active(row), ~row.revived
      PROVE  Active(env[i]) /\ ~env[i].revived /\ row.owner = env[i].owner
  <2>1. CASE row = env[i]
    BY <1>3, <2>1
  <2>2. CASE row = Touched(env[i]) /\ row # env[i]
    <3>1. /\ Exists(env[i]) /\ env[i].deleted = None
          /\ row = [env[i] EXCEPT !.used = clock, !.revived = @ \/ Lapsed(env[i])]
      BY <2>2 DEF Touched
    <3>2. row.owner = env[i].owner /\ (row.revived <=> env[i].revived \/ Lapsed(env[i]))
      BY <1>2, <3>1 DEF Rows
    <3> QED
      BY <1>3, <3>1, <3>2 DEF Active
  <2>3. CASE Closes(p, row)
    <3> DEFINE at == RetiredAt(env[i])
    <3>1. at # None
      BY <1>2 DEF RetiredAt, Lapsed, Rows, Times, None
    <3>2. row # NoRow
      BY <1>3 DEF Active, Exists, NoRow
    <3>3. row \in {env[i], Retirement(env[i])}
      BY <2>3, <3>2 DEF Closes
    <3> HIDE DEF at
    <3>4. Exists(env[i]) /\ env[i].deleted = None => Retirement(env[i]).deleted = at
      BY <1>2 DEF Retirement, Rows, at
    <3>5. row = env[i]
      BY <1>3, <3>1, <3>3, <3>4 DEF Active, Retirement
    <3> QED
      BY <1>3, <3>5
  <2>4. CASE Opens(p, row)
    <3>1. row = [Opened(env[i], env[i].owner) EXCEPT !.revived = env[i].revived] /\ Active(env[i])
      BY <1>3, <2>4 DEF Opens
    <3>2. row.owner = env[i].owner /\ row.revived = env[i].revived
      BY <3>1 DEF Opened
    <3> QED
      BY <1>3, <3>1, <3>2
  <2> QED
    BY <1>1, <2>1, <2>2, <2>3, <2>4 DEF Releases
<1>4. ASSUME NEW o \in Owners
      PROVE  Fewer(o) \/ Grows(p, o)
  <2>1. CASE task[p].pc = "counted" /\ Opens(p, row)
    <3>1. row.owner = task[p].owner
      BY <2>1 DEF Opens, Opened, Granted
    <3> QED
      BY <1>1, <1>2, <2>1, <3>1, RowDecides DEF Grows
  <2>2. CASE ~(task[p].pc = "counted" /\ Opens(p, row))
    <3>1. Active(row) /\ ~row.revived /\ row.owner = o => i \in Counted(o)
      BY <1>2, <1>3, <2>2 DEF Counted, ActiveOf, RowsOf
    <3> QED
      BY <1>1, <3>1, RowDecides
  <2> QED
    BY <2>1, <2>2
<1>5. Within' /\ CountsApart'
  BY <1>2, <1>4, Blank, LimitKept
<1>6. FewRows'
  BY <1>2, RowsStayFew
<1> QED
  BY <1>5, <1>6

\* Time only ends what counts.
LEMMA BoundElsewhere ==
    ASSUME BoundInv, Tick \/ (\E o \in Owners : OwnerDeleted(o)) \/ UNCHANGED vars
    PROVE  FewRows' /\ Within' /\ CountsApart'
<1> USE DEF BoundInv
<1>1. /\ task' = task /\ env' = env /\ env \in [Ids -> Rows] /\ clock \in Nat
      /\ clock' \in {clock, clock + 1}
  BY DEF Tick, OwnerDeleted, vars, FenceInv, LockInv, TablesInv, EnvironmentsTypeOK
<1>2. ASSUME NEW o \in Owners
      PROVE  Fewer(o)
  <2>1. \A j \in Ids : Active(env[j])' => Active(env[j])
    BY <1>1 DEF Active, Lapsed, Rows, Times
  <2> QED
    BY <1>1, <2>1 DEF Fewer, Counted, ActiveOf, RowsOf
<1>3. ASSUME NEW o \in Owners
      PROVE  /\ IsFiniteSet(Counted(o)') /\ Cardinality(Counted(o)') \in Nat
             /\ Cardinality(Counted(o)) \in Nat
             /\ Cardinality(Counted(o)') <= Cardinality(Counted(o))
  <2>1. IsFiniteSet(Counted(o)) /\ Counted(o)' \subseteq Counted(o)
    BY <1>2 DEF Within, Fewer
  <2> QED
    BY <2>1, NoLarger
<1>4. Within'
  BY <1>3 DEF Within
<1>5. ASSUME NEW q \in Processes, task'[q].pc = "counted"
      PROVE  task[q].owner \in Owners /\ Cardinality(Counted(task[q].owner)) < MaxActive
  BY <1>1, <1>5 DEF CountsApart, FenceInv, LockInv, TablesInv, Stages, StageFits
<1>6. ASSUME NEW q \in Processes, task'[q].pc = "counted", NEW o, o = task[q].owner
      PROVE  Cardinality(Counted(o)') < MaxActive
  <2>1. o \in Owners /\ Cardinality(Counted(o)) < MaxActive
    BY <1>5, <1>6
  <2> QED
    BY <2>1, <1>3
<1>7. CountsApart'
  BY <1>1, <1>6 DEF CountsApart
<1>8. FewRows'
  BY <1>1 DEF FewRows
<1> QED
  BY <1>4, <1>7, <1>8

LEMMA BoundStep ==
    ASSUME BoundInv, [Next]_vars
    PROVE  BoundInv'
<1>1. FenceInv'
  BY FenceStep DEF BoundInv
<1>2. ASSUME NEW p \in Processes, Arrive(p) \/ Proceed(p) \/ Die(p)
      PROVE  FewRows' /\ Within' /\ CountsApart'
  <2>1. \/ \E t \in Tasks : Begins(p, t) \/ Advances(p, t)
        \/ Quits(p)
        \/ \E row : Releases(p, row) \/ Closes(p, row) \/ Opens(p, row)
    BY <1>2, ArriveBegins, ProceedMoves DEF BoundInv, FenceInv
  <2> QED
    BY <2>1, BoundBegins, BoundLeaves
<1>3. FewRows' /\ Within' /\ CountsApart'
  BY <1>2, BoundElsewhere DEF Next
<1> QED
  BY <1>1, <1>3 DEF BoundInv

LEMMA BoundInit == Init => BoundInv
<1> SUFFICES ASSUME Init PROVE BoundInv
  OBVIOUS
<1>1. {i \in Ids : Exists(env[i])} = {} /\ \A o \in Owners : Counted(o) = {}
  BY DEF Init, Counted, ActiveOf, RowsOf, Active, Exists, NoRow
<1>2. FewRows
  BY <1>1, FS_EmptySet DEF FewRows
<1>3. Within
  <2>1. \A o \in Owners : IsFiniteSet(Counted(o)) /\ Cardinality(Counted(o)) = 0
    BY <1>1, FS_EmptySet
  <2> QED
    BY <2>1 DEF Within
<1>4. CountsApart
  BY Blank DEF Init, CountsApart
<1> QED
  BY <1>2, <1>3, <1>4, FenceInit DEF BoundInv

\* Creations and restorations of an owner, counted under its lock, never pass the limit
\* between them (check_environment_capacity), at any number at once and however long each
\* takes: what is beyond the limit was revived by a lease that outlived the idle time.
THEOREM OwnersStayWithin == Spec => []ActiveIsBounded
<1>1. BoundInv => ActiveIsBounded
  BY DEF BoundInv, Within, Counted, ActiveIsBounded
<1>2. Spec => []BoundInv
  BY BoundInit, BoundStep, PTL DEF Spec
<1> QED
  BY <1>1, <1>2, PTL
----------------------------------------------------------------------------
(* No standstill *)

Busy == {p \in Processes : task[p].pc # "idle"}

\* Who came before one that came before is before both, and there are finitely many.
Ordered ==
    /\ IsFiniteSet(Busy)
    /\ \A p, q, r \in Processes : q \in ahead[p] /\ r \in ahead[q] => r \in ahead[p]

OrderInv == FenceInv /\ Ordered

\* The guard of Proceed(p): it holds a lock and can end, or has the lock and is not kept
\* waiting for the count of another restoration or creation of the same owner.
Ready(p) ==
    LET row == env[task[p].id]
    IN  \/ MayFinish(p)
        \/ task[p].pc = "counted"
        \/ task[p].pc = "waiting" /\ MayCount(task[p].owner)
        \/ /\ Granted(p)
           /\ task[p].op = "restore" /\ Recoverable(row) /\ Retired(row) => MayCount(row.owner)

LEMMA OrderStep ==
    ASSUME OrderInv, [Next]_vars
    PROVE  OrderInv'
<1> USE DEF OrderInv
<1>1. /\ FenceInv' /\ task \in [Processes -> Tasks] /\ ahead \in [Processes -> SUBSET Processes]
  BY FenceStep DEF FenceInv, LockInv, TablesInv, EnvironmentsTypeOK
<1>2. ASSUME NEW p \in Processes, NEW t \in Tasks, Joins(p, t)
      PROVE  Ordered'
  <2>1. /\ task' = [task EXCEPT ![p] = t] /\ ahead' = [ahead EXCEPT ![p] = Present(t.id)]
    BY <1>2 DEF Joins, Become
  <2>2. Busy' = Busy \cup {p}
    BY <1>1, <1>2, <2>1 DEF Joins, Busy
  <2>3. IsFiniteSet(Busy')
    BY <2>2, OneMore DEF Ordered
  <2>4. ASSUME NEW a \in Processes, NEW q \in Processes, NEW r \in Processes,
               q \in ahead'[a], r \in ahead'[q]
        PROVE  r \in ahead'[a]
    <3>1. \A x \in Processes : p \notin ahead[x] /\ p \notin Present(t.id)
      BY <1>2 DEF FenceInv, LockInv, Line, Joins, Present
    <3>2. q # p /\ r \in ahead[q]
      BY <1>1, <2>1, <2>4, <3>1
    <3>3. CASE a = p
      <4>1. q \in Present(t.id)
        BY <1>1, <2>1, <2>4, <3>3
      <4>2. r \in Present(t.id)
        BY <3>2, <4>1, InLine DEF Meet, Present, FenceInv, LockInv
      <4> QED
        BY <1>1, <2>1, <3>3, <4>2
    <3>4. CASE a # p
      BY <1>1, <2>1, <2>4, <3>2, <3>4 DEF Ordered
    <3> QED
      BY <3>3, <3>4
  <2> QED
    BY <2>3, <2>4 DEF Ordered
<1>3. ASSUME NEW p \in Processes, NEW t \in Tasks, Passes(p, t)
      PROVE  Ordered'
  <2>1. Busy' = Busy
    BY <1>1, <1>3 DEF Busy, Passes, Granted, Become
  <2> QED
    BY <1>3, <2>1 DEF Ordered, Passes
<1>4. ASSUME NEW p \in Processes, End(p)
      PROVE  Ordered'
  <2>1. Busy' = Busy \ {p}
    BY <1>1, <1>4, Blank DEF Busy, End, Become
  <2>2. IsFiniteSet(Busy')
    BY <2>1, OneLess DEF Ordered
  <2>3. \A a, q \in Processes : q \in ahead'[a] <=> a # p /\ q \in ahead[a] /\ q # p
    BY <1>1, <1>4 DEF End
  <2>4. ASSUME NEW a \in Processes, NEW q \in Processes, NEW r \in Processes,
               q \in ahead'[a], r \in ahead'[q]
        PROVE  r \in ahead'[a]
    BY <2>3, <2>4 DEF Ordered
  <2> QED
    BY <2>2, <2>4 DEF Ordered
<1>5. ASSUME NEW p \in Processes, Arrive(p) \/ Proceed(p) \/ Die(p)
      PROVE  Ordered'
  <2>1. \/ \E t \in Tasks : Begins(p, t) \/ Advances(p, t)
        \/ Quits(p)
        \/ \E row : Releases(p, row) \/ Closes(p, row) \/ Opens(p, row)
    BY <1>5, ArriveBegins, ProceedMoves DEF FenceInv
  <2>2. (\E t \in Tasks : Joins(p, t) \/ Passes(p, t)) \/ End(p)
    BY <2>1 DEF Begins, Advances, Quits, Releases, Closes, Opens, Leaves
  <2> QED
    BY <1>2, <1>3, <1>4, <2>2
<1>6. ASSUME UNCHANGED <<task, ahead>>
      PROVE  Ordered'
  BY <1>6 DEF Ordered, Busy
<1> QED
  BY <1>1, <1>5, <1>6 DEF Next, Tick, OwnerDeleted, vars

LEMMA OrderInit == Init => OrderInv
<1> SUFFICES ASSUME Init PROVE OrderInv
  OBVIOUS
<1>1. Busy = {}
  BY Blank DEF Init, Busy
<1>2. IsFiniteSet(Busy)
  BY <1>1, FS_EmptySet
<1> QED
  BY <1>2, FenceInit DEF OrderInv, Ordered, Init

\* Among those at work one has nobody before it.
LEMMA SomeoneIsFirst ==
    ASSUME OrderInv, Busy # {}
    PROVE  \E p \in Busy : ahead[p] = {}
<1> USE DEF OrderInv
<1>1. \A p \in Busy : p \in Processes /\ ahead[p] \subseteq Busy
  BY DEF FenceInv, LockInv, TablesInv, EnvironmentsTypeOK, Line, Busy
<1>2. ASSUME NEW p \in Busy
      PROVE  IsFiniteSet(ahead[p]) /\ Cardinality(ahead[p]) \in Nat
  <2>1. IsFiniteSet(ahead[p])
    BY <1>1, FS_Subset DEF Ordered
  <2> QED
    BY <2>1, FS_CardinalityType
<1> DEFINE T == {Cardinality(ahead[p]) : p \in Busy}
<1>3. T \subseteq Nat /\ T # {}
  BY <1>2
<1>4. PICK m \in T : \A n \in T : ~(<<n, m>> \in OpToRel(<, Nat))
  <2> HIDE DEF T
  <2> QED
    BY <1>3, WFMin, NatLessThanWellFounded
<1>5. \A n \in T : ~(n < m)
  BY <1>3, <1>4 DEF OpToRel
<1>6. PICK p \in Busy : m = Cardinality(ahead[p])
  OBVIOUS
<1>7. ASSUME NEW q \in ahead[p]
      PROVE  FALSE
  <2>1. q \in Busy /\ q \in Processes /\ p \in Processes
    BY <1>1, <1>7
  <2>2. ahead[q] \subseteq ahead[p] /\ q \notin ahead[q]
    BY <1>1, <2>1 DEF Ordered, FenceInv, LockInv, Line
  <2>3. Cardinality(ahead[q]) <= Cardinality(ahead[p])
        /\ (Cardinality(ahead[p]) = Cardinality(ahead[q]) => ahead[p] = ahead[q])
    BY <1>2, <1>6, <2>2, FS_Subset
  <2>4. Cardinality(ahead[q]) < m
    BY <1>2, <1>6, <2>1, <2>2, <2>3
  <2> QED
    BY <1>5, <2>1, <2>4
<1> QED
  BY <1>6, <1>7

\* No standstill: while operations are under way one of them can go on.  Neither locks
\* nor counts wait for each other in a circle: who is first at a lock has it, and who has
\* counted needs nothing more.
THEOREM SomeoneIsReady ==
    Spec => []((\E p \in Processes : task[p].pc # "idle") => \E p \in Processes : Ready(p))
<1>1. ASSUME OrderInv, NEW p0 \in Processes, task[p0].pc # "idle"
      PROVE  \E p \in Processes : Ready(p)
  <2>1. PICK p \in Busy : ahead[p] = {}
    BY <1>1, SomeoneIsFirst DEF Busy
  <2>2. p \in Processes /\ task[p].pc \in {"queued", "admitted", "waiting", "counted"}
    BY <1>1 DEF Busy, OrderInv, FenceInv, LockInv, TablesInv, EnvironmentsTypeOK, Tasks
  <2>3. CASE task[p].pc \in {"admitted", "counted"}
    BY <2>2, <2>3 DEF Ready, MayFinish
  <2>4. CASE task[p].pc = "queued"
    <3>1. Granted(p)
      BY <2>1, <2>4 DEF Granted
    <3>2. CASE MayCount(env[task[p].id].owner)
      BY <2>2, <3>1, <3>2 DEF Ready
    <3>3. CASE ~MayCount(env[task[p].id].owner)
      BY <3>3 DEF MayCount, Ready
    <3> QED
      BY <3>2, <3>3
  <2>5. CASE task[p].pc = "waiting"
    BY <2>2, <2>5 DEF MayCount, Ready
  <2> QED
    BY <2>2, <2>3, <2>4, <2>5
<1>2. Spec => []OrderInv
  BY OrderInit, OrderStep, PTL DEF Spec
<1>3. OrderInv => ((\E p \in Processes : task[p].pc # "idle") => \E p \in Processes : Ready(p))
  BY <1>1
<1> QED
  BY <1>2, <1>3, PTL
=============================================================================
