------------------------------ MODULE Listing ------------------------------
(***************************************************************************)
(* Reading the reminders of an account page by page, while they are         *)
(* created, paused, resumed, archived and purged.                          *)
(*                                                                         *)
(* A page is one query: rows that match, newest first, after the cursor,   *)
(* and one more than the page holds, which tells whether there is a next    *)
(* page.  The cursor is the place of the last row of the page before; its  *)
(* encoding is left out, except that a cursor of the other list is refused. *)
(*                                                                         *)
(* A row's time is when its transaction began, so that rows may appear     *)
(* behind others that a reader has passed, and several have the same time. *)
(***************************************************************************)
EXTENDS Naturals, Sequences, FiniteSets

CONSTANTS
    Rows,     \* ids, a set of numbers
    Created,  \* when each row was created
    Limits    \* page sizes

ASSUME ListingAssumption ==
    /\ Rows \subseteq Nat /\ IsFiniteSet(Rows)
    /\ Created \in [Rows -> Nat]
    /\ Limits \subseteq Nat \ {0}

VARIABLES
    rowState,\* the state of each row
    reader,  \* the request and the cursor of the reader
    listed,  \* the rows it was given
    steady   \* history: rows that have matched since it began

listingVars == <<rowState, reader, listed, steady>>
----------------------------------------------------------------------------
RowStates == {"none", "active", "paused", "archived", "purged"}

\* What a reader asks for: a section, or a status of the current one.
Filters == {{"active", "paused"}, {"active"}, {"archived"}}

Place(i) == <<Created[i], i>>
Start == <<>>
Places == {Place(i) : i \in Rows}
Readers == [pc : {"idle", "reading", "done"}, filter : Filters, cursor : Places \cup {Start}]

ListingTypeOK ==
    /\ rowState \in [Rows -> RowStates]
    /\ reader \in Readers
    /\ listed \in Seq(Rows)
    /\ steady \subseteq Rows

ListingInit ==
    /\ rowState \in [Rows -> {"none", "active"}]
    /\ reader = [pc |-> "idle", filter |-> {"active"}, cursor |-> Start]
    /\ listed = <<>>
    /\ steady = {}
----------------------------------------------------------------------------
Below(p, q) == p[1] < q[1] \/ (p[1] = q[1] /\ p[2] < q[2])

Matching(filter) == {i \in Rows : rowState[i] \in filter}

\* Mutant of After: the cursor is compared by its time alone.
AfterTime(i, cursor) == cursor = Start \/ Created[i] < cursor[1]

After(i, cursor) == cursor = Start \/ Below(Place(i), cursor)

\* The rows that match after the cursor, newest first; at most limit + 1 of them.
Query(filter, cursor, limit) ==
    LET all == {i \in Matching(filter) : After(i, cursor)}
        newer(i) == {j \in all : Below(Place(i), Place(j))}
        size == IF Cardinality(all) > limit THEN limit + 1 ELSE Cardinality(all)
    IN  [n \in 1 .. size |-> CHOOSE i \in all : Cardinality(newer(i)) = n - 1]

PageFromRows(rows, limit) ==
    [items |-> IF Len(rows) > limit THEN SubSeq(rows, 1, limit) ELSE rows,
     more |-> Len(rows) > limit]

NextCursor(page) == Place(page.items[Len(page.items)])

\* A reader begins, also again.
Begin(filter) ==
    /\ reader.pc # "reading"
    /\ reader' = [pc |-> "reading", filter |-> filter, cursor |-> Start]
    /\ listed' = <<>>
    /\ steady' = Matching(filter)
    /\ UNCHANGED rowState

List(limit) ==
    LET page == PageFromRows(Query(reader.filter, reader.cursor, limit), limit)
    IN  /\ reader.pc = "reading"
        /\ listed' = listed \o page.items
        /\ reader' = IF page.more THEN [reader EXCEPT !.cursor = NextCursor(page)]
                                  ELSE [reader EXCEPT !.pc = "done", !.cursor = Start]
        /\ UNCHANGED <<rowState, steady>>

\* What others do to a row.
Becomes(i, state) ==
    /\ <<rowState[i], state>> \in {<<"none", "active">>, <<"active", "paused">>, <<"paused", "active">>,
                              <<"active", "archived">>, <<"paused", "archived">>,
                              <<"archived", "purged">>}
    /\ rowState' = [rowState EXCEPT ![i] = state]
    /\ steady' = IF state \in reader.filter THEN steady ELSE steady \ {i}
    /\ UNCHANGED <<reader, listed>>

ListingNext ==
    \/ \E filter \in Filters : Begin(filter)
    \/ \E limit \in Limits : List(limit)
    \/ \E i \in Rows, state \in RowStates : Becomes(i, state)

ListingSpec == ListingInit /\ [][ListingNext]_listingVars
----------------------------------------------------------------------------
(* Properties *)

\* However rows come, change and go between the pages, a reader gets each row that matched
\* all along, whatever its page sizes, none twice, and the newest first.
ListingIsExact ==
    /\ \A m, n \in 1 .. Len(listed) : m < n => Below(Place(listed[n]), Place(listed[m]))
    /\ reader.pc = "done" => \A i \in steady : \E n \in 1 .. Len(listed) : listed[n] = i
=============================================================================
