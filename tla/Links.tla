------------------------------- MODULE Links -------------------------------
(***************************************************************************)
(* The move to Silicon Accounts: an operator links the principals of the    *)
(* old identity service to accounts, from a file, and may run a corrected   *)
(* file later; a worker drains what the old service had revoked and nobody  *)
(* linked.                                                                 *)
(*                                                                         *)
(* A run is one transaction in the production database, under an advisory   *)
(* lock, and after it one in the testing database, without; either may      *)
(* fail.  A drain is one transaction of three statements, each of which     *)
(* sees what others have committed by then.                                *)
(*                                                                         *)
(* account_keys and identity_links are written together and say the same:   *)
(* `link` stands for both.  Left out: kinds of accounts and the lookup of   *)
(* accounts, which only refuse a run, and retired account ids.             *)
(***************************************************************************)
EXTENDS Naturals, Sequences, FiniteSets

CONSTANTS
    Principals,   \* storage keys of the old service
    Spellings,    \* how a file may write a principal: its key or its public id
    PrincipalOf,  \* the principal of each spelling
    AccountIds,
    Files,        \* mapping files: sequences of lines
    Revoked,      \* principals that the old service had revoked
    Operators,    \* runs of remind-migrate
    Drainers,     \* workers
    Batch,        \* rows that a statement of a drain takes
    MaxRuns       \* bound: runs begun

Unlinked == "-"
NoOperator == "nobody"

ASSUME LinksAssumption ==
    /\ PrincipalOf \in [Spellings -> Principals]
    /\ Unlinked \notin AccountIds /\ NoOperator \notin Operators
    /\ Files \subseteq Seq([spelling : Spellings, account : AccountIds \cup {Unlinked}])
    /\ Revoked \subseteq Principals
    /\ Batch \in Nat \ {0} /\ MaxRuns \in Nat

VARIABLES
    link,     \* production: the account of each principal
    owner,    \* testing: the owner of each principal's environments
    linking,  \* the run that holds the advisory lock
    run,      \* what each run is doing
    alone,    \* history: runs that no other run overlapped
    runs,     \* runs begun
    rows,     \* a reminder, its open executions and a subscription of each principal
    drain     \* what the transaction of each drain has taken

linksVars == <<link, owner, linking, run, alone, runs, rows, drain>>
rowVars == <<rows, drain>>
----------------------------------------------------------------------------
AccountOrNone == AccountIds \cup {Unlinked}

RunSteps == [pc : {"lock", "commit", "tests", "done"}, file : Files, applied : SUBSET Principals]
NoRun == [pc |-> "idle"]

LegacyRows == [reminder : BOOLEAN, open : BOOLEAN, hook : BOOLEAN]

\* kept: history, what has been linked since the drain began.
Drains == [pc : {"executions", "hooks"}, reminders : SUBSET Principals,
           executions : SUBSET Principals, kept : SUBSET Principals]
NoDrain == [pc |-> "idle"]

\* The variables have their types; the lock is held exactly until the production commit.
LinksTypeOK ==
    /\ link \in [Principals -> AccountOrNone] /\ owner \in [Principals -> AccountOrNone]
    /\ linking \in Operators \cup {NoOperator}
    /\ run \in [Operators -> RunSteps \cup {NoRun}]
    /\ alone \subseteq Operators
    /\ runs \in 0 .. MaxRuns
    /\ rows \in [Principals -> LegacyRows]
    /\ drain \in [Drainers -> Drains \cup {NoDrain}]
    /\ \A o \in Operators : (linking = o) = (run[o].pc = "commit")

LinksInit ==
    /\ link = [p \in Principals |-> Unlinked]
    /\ owner = [p \in Principals |-> Unlinked]
    /\ linking = NoOperator
    /\ run = [o \in Operators |-> NoRun]
    /\ alone = {}
    /\ runs = 0
    /\ rows = [p \in Principals |-> [reminder |-> TRUE, open |-> TRUE, hook |-> TRUE]]
    /\ drain = [w \in Drainers |-> NoDrain]
----------------------------------------------------------------------------
(* A run *)

Working(o) == run[o].pc \in {"lock", "commit", "tests"}

BeginRun(o, f) ==
    LET others == {p \in Operators : Working(p)}
    IN  /\ ~Working(o)
        /\ runs < MaxRuns /\ runs' = runs + 1
        /\ run' = [run EXCEPT ![o] = [pc |-> "lock", file |-> f, applied |-> {}]]
        /\ alone' = IF others = {} THEN {o} ELSE {}
        /\ UNCHANGED <<link, owner, linking, rowVars>>

\* Mutant of Same: two spellings of a principal are two principals.
SameSpelling(l, m) == l.spelling = m.spelling

Same(l, m) == PrincipalOf[l.spelling] = PrincipalOf[m.spelling]

Assigns(l, m) == l.account = m.account /\ l.account # Unlinked

\* Another principal has the account, though the same file may say otherwise of it.
Taken(l) == \E p \in Principals \ {PrincipalOf[l.spelling]} : link[p] = l.account /\ l.account # Unlinked

\* No line overrides another, and no two principals get one account.
ValidateMappings(f) ==
    /\ \A i, j \in 1 .. Len(f) : i # j => ~Same(f[i], f[j]) /\ ~Assigns(f[i], f[j])
    /\ \A i \in 1 .. Len(f) : ~Taken(f[i])

\* Mutant of MayLink: the file is validated before the lock is taken.
MayLinkAlways(o) == UNCHANGED linking

MayLink(o) == linking = NoOperator /\ linking' = o

\* The file is applied line by line, unseen until the commit.
Validate(o) ==
    /\ run[o].pc = "lock"
    /\ MayLink(o)
    /\ ValidateMappings(run[o].file)
    /\ run' = [run EXCEPT ![o].pc = "commit"]
    /\ UNCHANGED <<link, owner, alone, runs, rowVars>>

Lines(f, p) == {i \in 1 .. Len(f) : PrincipalOf[f[i].spelling] = p}

\* What the file says of p; its last line has the last word.
Mapped(f, p) == f[CHOOSE i \in Lines(f, p) : \A j \in Lines(f, p) : j <= i].account

ApplyEntries(f) == [p \in Principals |-> IF Lines(f, p) = {} THEN link[p] ELSE Mapped(f, p)]

\* Mutant of Applied: links that were there already are left out.
AppliedNew(f) ==
    {p \in Principals : Lines(f, p) # {} /\ Mapped(f, p) \notin {Unlinked, link[p]}}

\* New links and those that were there already.
Applied(f) == {p \in Principals : Lines(f, p) # {} /\ Mapped(f, p) # Unlinked}

CommitLinks(o) ==
    LET f == run[o].file
    IN  /\ run[o].pc = "commit"
        /\ link' = ApplyEntries(f)
        /\ linking' = NoOperator
        /\ run' = [run EXCEPT ![o].pc = "tests", ![o].applied = Applied(f)]
        /\ drain' = [w \in Drainers |-> IF drain[w] = NoDrain THEN NoDrain
                       ELSE [drain[w] EXCEPT !.kept = {p \in @ : link'[p] # Unlinked}]]
        /\ UNCHANGED <<owner, alone, runs, rows>>

LinkTestEnvironments(o) ==
    LET f == run[o].file
    IN  /\ run[o].pc = "tests"
        /\ owner' = [p \in Principals |-> IF p \in run[o].applied THEN Mapped(f, p) ELSE owner[p]]
        /\ run' = [run EXCEPT ![o].pc = "done"]
        /\ UNCHANGED <<link, linking, alone, runs, rowVars>>

\* A line is refused, a lookup or a database fails, the operator gives up, or only wanted
\* to see what would happen: what is not committed is rolled back.
RollBack(o) ==
    /\ Working(o)
    /\ run' = [run EXCEPT ![o] = NoRun]
    /\ linking' = IF linking = o THEN NoOperator ELSE linking
    /\ alone' = alone \ {o}
    /\ UNCHANGED <<link, owner, runs, rowVars>>
----------------------------------------------------------------------------
(* A drain *)

\* Mutant of Drainable: the link is not looked at.
DrainableAnyway(p) == p \in Revoked

Drainable(p) == p \in Revoked /\ link[p] = Unlinked

\* What a statement takes: as many rows as a batch holds, of those nobody has locked.
Batches(free) ==
    {taken \in SUBSET free : Cardinality(taken) = Batch \/ (taken = free /\ Cardinality(free) <= Batch)}

\* The rows of a table that some drain has locked.
Locked(table) == UNION {drain[w][table] : w \in {w \in Drainers : drain[w] # NoDrain}}

BeginDrain(w) ==
    /\ drain[w] = NoDrain
    /\ \E taken \in Batches({p \in Principals \ Locked("reminders") : rows[p].reminder /\ Drainable(p)}) :
          drain' = [drain EXCEPT ![w] = [pc |-> "executions", reminders |-> taken, executions |-> {},
                                         kept |-> {p \in Principals : link[p] # Unlinked}]]
    /\ UNCHANGED <<link, owner, linking, run, alone, runs, rows>>

DrainExecutions(w) ==
    /\ drain[w].pc = "executions"
    /\ \E taken \in Batches({p \in Principals \ Locked("executions") : rows[p].open /\ Drainable(p)}) :
          drain' = [drain EXCEPT ![w].pc = "hooks", ![w].executions = taken]
    /\ UNCHANGED <<link, owner, linking, run, alone, runs, rows>>

\* The subscriptions and the commit, or a failure of the transaction.
EndDrain(w) ==
    /\ drain[w].pc = "hooks"
    /\ drain' = [drain EXCEPT ![w] = NoDrain]
    /\ \/ \E hooks \in Batches({p \in Principals : rows[p].hook /\ Drainable(p)}) :
             rows' = [p \in Principals |->
                [reminder |-> rows[p].reminder /\ p \notin drain[w].reminders,
                 open |-> rows[p].open /\ p \notin drain[w].executions,
                 hook |-> rows[p].hook /\ p \notin hooks]]
       \/ UNCHANGED rows
    /\ UNCHANGED <<link, owner, linking, run, alone, runs>>

LinksNext ==
    \/ \E o \in Operators :
          \/ \E f \in Files : BeginRun(o, f)
          \/ Validate(o) \/ CommitLinks(o) \/ LinkTestEnvironments(o) \/ RollBack(o)
    \/ \E w \in Drainers : BeginDrain(w) \/ DrainExecutions(w) \/ EndDrain(w)

LinksSpec == LinksInit /\ [][LinksNext]_linksVars
----------------------------------------------------------------------------
(* Properties *)

\* "Different principals cannot be merged": whatever files are run at once and after one
\* another, no two principals have one account.
NeverMerged ==
    \A p, q \in Principals : p # q /\ link[p] = link[q] => link[p] = Unlinked

\* "Running the same file again completes it": a run that no other overlapped and that
\* succeeded leaves both databases as every line of its file says, whatever runs failed
\* half-way before.
RunsComplete ==
    \A o \in alone : run[o].pc = "done" =>
        \A i \in 1 .. Len(run[o].file) :
            LET line == run[o].file[i]
                p == PrincipalOf[line.spelling]
            IN  /\ link[p] = line.account
                /\ line.account # Unlinked => owner[p] = line.account

\* A drain takes nothing of a principal that has been linked since before it began, though
\* each of its statements sees links of its own time.
LinkedIsKept ==
    \A w \in Drainers : drain[w] # NoDrain =>
        (drain[w].reminders \cup drain[w].executions) \cap drain[w].kept = {}
=============================================================================
