------------------------------- MODULE Ledger -------------------------------
(***************************************************************************)
(* What Silicon Remind promises to clients that repeat their requests: the *)
(* service behaves as if it took one request at a time.  A change enters   *)
(* the ledger in a single step, or not at all: only when its key has no    *)
(* entry that can still be repeated, only within the limit of its owner,   *)
(* and only on top of all earlier changes of its reminder.  A client is     *)
(* told of an entry for just what it asked, or of none.                    *)
(***************************************************************************)
EXTENDS Naturals, Sequences

CONSTANTS Clients, Owners, Targets, Asks, Limit, KeepAnswer

VARIABLES
    clock,
    kept,     \* how many reminders each owner has
    changes,  \* how many changes each reminder has had
    log,      \* the entries: what was asked, when, until when it is repeated, on top of what
    told      \* what each client was told: <<ask, entry>>, or nothing

vars == <<clock, kept, changes, log, told>>

Scope(a) == <<a.owner, a.op, a.target, a.key>>

Init ==
    /\ clock = 0
    /\ kept = [o \in Owners |-> 0]
    /\ changes = [t \in Targets |-> 0]
    /\ log = <<>>
    /\ told = [c \in Clients |-> <<>>]

Tell(c, what) == told' = [told EXCEPT ![c] = what]

\* One more entry, on top of `seen` changes; it can be repeated for a while.
Enter(a, seen) ==
    \E expires \in 0 .. clock + KeepAnswer :
        log' = Append(log, [ask |-> a, at |-> clock, expires |-> expires, seen |-> seen])

\* A reminder is made, within the limit of its owner.
Make(a) ==
    /\ a.op = "create" /\ kept[a.owner] < Limit
    /\ Enter(a, 0)
    /\ kept' = [kept EXCEPT ![a.owner] = @ + 1]
    /\ UNCHANGED changes

\* A reminder is changed, on top of all the changes it has had.
Alter(a) ==
    /\ a.op = "change"
    /\ Enter(a, changes[a.target])
    /\ changes' = [changes EXCEPT ![a.target] = @ + 1]
    /\ UNCHANGED kept

\* A request takes effect, with everything that decides on it, in one step; its key has no
\* entry that can still be repeated.
Serve(c, a) ==
    /\ Tell(c, <<a, Len(log) + 1>>)
    /\ \A i \in 1 .. Len(log) : Scope(log[i].ask) = Scope(a) => log[i].expires <= clock
    /\ Make(a) \/ Alter(a)
    /\ UNCHANGED clock

\* A request that was served before gets its entry again.
Repeat(c, i) ==
    Tell(c, <<log[i].ask, i>>) /\ UNCHANGED <<clock, kept, changes, log>>

\* The client asks something new, is refused, or gets no answer.
Leave(c) ==
    Tell(c, <<>>) /\ UNCHANGED <<clock, kept, changes, log>>

\* A reminder's retention ends.
Remove(o) ==
    kept[o] > 0 /\ kept' = [kept EXCEPT ![o] = @ - 1] /\ UNCHANGED <<clock, changes, log, told>>

Tick == clock' = clock + 1 /\ UNCHANGED <<kept, changes, log, told>>

Next ==
    \/ \E c \in Clients :
          \/ \E a \in Asks : Serve(c, a)
          \/ \E i \in 1 .. Len(log) : Repeat(c, i)
          \/ Leave(c)
    \/ \E o \in Owners : Remove(o)
    \/ Tick

Spec == Init /\ [][Next]_vars

\* A key is served again only after its last entry can no longer be repeated, and a client
\* is told of an entry for what it asked.
ServedOnce ==
    /\ \A i, j \in 1 .. Len(log) :
          i < j /\ Scope(log[i].ask) = Scope(log[j].ask) => log[i].expires <= log[j].at
    /\ \A c \in Clients : told[c] # <<>> =>
          told[c][2] \in 1 .. Len(log) /\ log[told[c][2]].ask = told[c][1]
=============================================================================
