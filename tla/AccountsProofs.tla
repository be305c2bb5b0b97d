--------------------------- MODULE AccountsProofs ---------------------------
(***************************************************************************)
(* Proofs about Remind's copy of Silicon Accounts, for every number of     *)
(* accounts, processes and sharing requests, and every order in which      *)
(* events, lookups and tokens arrive, late and repeated: access follows    *)
(* the latest of removals and sign-ins, a deletion is final, and a change  *)
(* of custody ends the delegation that is stored when Remind learns of it. *)
(*                                                                         *)
(* The argument: a removal leaves the cutoff of its account at its instant *)
(* or later, and a token is only accepted from after the second of the     *)
(* cutoff; so who is active has signed in after every removal.             *)
(***************************************************************************)
EXTENDS Accounts, TLAPS
----------------------------------------------------------------------------
(* The inductive invariant *)

\* A row and the removals of its account that were handled.
AccessFits(row, removals) ==
    /\ \A e \in removals : row.revoked >= e.at
    /\ row.status = "active" => \A e \in removals : row.iat > e.at
    /\ row.status = "access_removed" => \E e \in removals : row.iat <= e.at

AccessInv == \A a \in Members : AccessFits(acct[a], Removals(a))

\* What a process is about to apply was sent.
EventsWereSent == \A p \in Handlers : handling[p].event \subseteq sent

AccountsInv == AccountsTypeOK /\ EventsWereSent /\ AccessInv
----------------------------------------------------------------------------
(* Instants and rows *)

\* A later second is a later instant.
LEMMA SecondsOrder ==
    ASSUME NEW x \in Nat, NEW y \in Nat, Second(x) > Second(y)
    PROVE  x > y
<1>1. x <= y => x \div Granule <= y \div Granule
  BY AccountsAssumption
<1>2. x \div Granule \in Int /\ y \div Granule \in Int
  BY AccountsAssumption
<1> QED
  BY <1>1, <1>2 DEF Second

\* A second starts at or before any of its instants.
LEMMA SecondStarts ==
    ASSUME NEW x \in Nat
    PROVE  Second(x) * Granule \in Nat /\ Second(x) * Granule <= x
<1>1. \A g \in Int : g > 0 => x = g * (x \div g) + (x % g)
  OBVIOUS
<1>2. Granule \in Int /\ Granule > 0
  BY AccountsAssumption
<1>3. x % Granule \in 0 .. Granule - 1 /\ x \div Granule \in Nat
  BY AccountsAssumption
<1> DEFINE n == x \div Granule
           m == x % Granule
<1>4. x = Granule * n + m /\ m \in Nat /\ n \in Nat
  BY <1>1, <1>2, <1>3
<1> HIDE DEF m
<1>5. n * Granule \in Nat /\ n * Granule = Granule * n
  BY <1>2, <1>4
<1> QED
  BY <1>4, <1>5 DEF Second

\* The later of two instants.
LEMMA LaterIs ==
    ASSUME NEW x \in Times \cup {None}, NEW y \in Times
    PROVE  Later(x, y) \in Times /\ Later(x, y) >= x /\ Later(x, y) >= y
  BY AccountsAssumption DEF Later, Times, None

\* The fields of a row.
LEMMA RowFields ==
    ASSUME NEW row \in Rows
    PROVE  /\ row.status \in Status /\ row.custodian \in Custodians /\ row.custodianAt \in Times \cup {None}
           /\ row.profile \in Nat \cup {None} /\ row.version \in Nat /\ row.revoked \in Times \cup {None}
           /\ row.iat \in Times \cup {None} /\ row.lookedUp \in Times \cup {None}
  BY DEF Rows

\* A row that is first heard of becomes active; the rest of it is unchanged.
LEMMA EnsuredIs ==
    ASSUME NEW row \in Rows
    PROVE  /\ Ensured(row) \in Rows /\ Ensured(row).status # "none"
           /\ Ensured(row).status = IF row.status = "none" THEN "active" ELSE row.status
           /\ Ensured(row).iat = row.iat /\ Ensured(row).revoked = row.revoked
  BY DEF Ensured, Rows, Status

\* A cutoff is only moved forward, and nothing else of the row changes.
LEMMA CutIs ==
    ASSUME NEW row \in Rows, NEW at \in Times
    PROVE  /\ Cut(row, at) \in Rows /\ Cut(row, at).status = row.status /\ Cut(row, at).iat = row.iat
           /\ Cut(row, at).revoked >= row.revoked /\ Cut(row, at).revoked >= at
<1>1. Later(row.revoked, at) \in Times /\ Later(row.revoked, at) >= row.revoked /\ Later(row.revoked, at) >= at
  BY RowFields, LaterIs
<1> QED
  BY <1>1 DEF Cut, Rows

\* What a deletion leaves of a row.
LEMMA DeletedIs ==
    ASSUME NEW row \in Rows, NEW at \in Times
    PROVE  /\ Deleted(row, at) \in Rows /\ Deleted(row, at).status = "deleted"
           /\ Deleted(row, at).revoked >= row.revoked /\ Deleted(row, at).revoked >= at
<1>1. Later(row.revoked, at) \in Times /\ Later(row.revoked, at) >= row.revoked /\ Later(row.revoked, at) >= at
  BY RowFields, LaterIs
<1>2. NoOne \in Custodians
  BY DEF Custodians
<1> QED
  BY <1>1, <1>2 DEF Deleted, Rows, Status

\* Data of an event changes neither status nor cutoff nor sign-in.
LEMMA TakesAre ==
    ASSUME NEW row \in Rows, NEW e \in Events
    PROVE  /\ TakeCustodian(row, e) \in Rows /\ TakeProfile(row, e) \in Rows
           /\ TakeCustodian(row, e).status = row.status /\ TakeProfile(row, e).status = row.status
           /\ TakeCustodian(row, e).iat = row.iat /\ TakeProfile(row, e).iat = row.iat
           /\ TakeCustodian(row, e).revoked = row.revoked /\ TakeProfile(row, e).revoked = row.revoked
<1>1. e.at \in Times /\ e.custodian \in Custodians /\ e.version \in Nat
  BY DEF Events
<1>2. /\ TakeCustodian(row, e) \in Rows /\ TakeCustodian(row, e).status = row.status
      /\ TakeCustodian(row, e).iat = row.iat /\ TakeCustodian(row, e).revoked = row.revoked
  BY <1>1 DEF TakeCustodian, Rows
<1>3. Later(row.custodianAt, e.at) \in Times
  BY <1>1, RowFields, LaterIs
<1>4. /\ TakeProfile(row, e) \in Rows /\ TakeProfile(row, e).status = row.status
      /\ TakeProfile(row, e).iat = row.iat /\ TakeProfile(row, e).revoked = row.revoked
  <2> DEFINE taken == TakeCustodian(row, e)
  <2>1. taken \in Rows /\ taken.status = row.status /\ taken.iat = row.iat /\ taken.revoked = row.revoked
    BY <1>2
  <2>2. TakeProfile(row, e) = IF row.version >= e.version THEN row
                              ELSE [taken EXCEPT !.profile = e.version, !.version = e.version,
                                                 !.custodianAt = Later(row.custodianAt, e.at)]
    BY DEF TakeProfile
  <2> HIDE DEF taken
  <2> QED
    BY <1>1, <1>3, <2>1, <2>2 DEF Rows
<1> QED
  BY <1>2, <1>4
----------------------------------------------------------------------------
(* A row is written *)

\* No task, no request and nothing that was read have their types.
LEMMA NothingTypes ==
    /\ NoHandling \in Handlings /\ NoHandling.pc = "idle" /\ NoHandling.event = {}
    /\ NoRequest \in SharingRequests /\ NothingRead \in Rereads /\ NoRow \in Rows
    /\ NoOne \in Custodians /\ None \notin Times /\ NoRow.status = "none" /\ NoRow.revoked = None
<1>1. PICK s \in Silicons : s \in Members
  BY AccountsAssumption DEF Members
<1>2. (CHOOSE a \in Members : TRUE) \in Members
  BY <1>1
<1>3. [of |-> s, for |-> s, by |-> s] \in Entries
  BY <1>1 DEF Entries
<1>4. (CHOOSE x \in Entries : TRUE) \in Entries
  BY <1>3
<1>5. NothingRead \in Rereads /\ NoOne \in Custodians /\ None \notin Times
  BY DEF NothingRead, Rereads, Custodians, None, Times
<1>6. NoRow \in Rows /\ NoRow.status = "none" /\ NoRow.revoked = None
  BY <1>5 DEF NoRow, Rows, Status
<1>7. NoHandling \in Handlings /\ NoHandling.pc = "idle" /\ NoHandling.event = {}
  BY <1>2, <1>5 DEF NoHandling, Handlings
<1>8. NoRequest \in SharingRequests
  BY <1>4 DEF NoRequest, SharingRequests
<1> QED
  BY <1>5, <1>6, <1>7, <1>8

\* What acct holds.
LEMMA AccountTypes ==
    ASSUME AccountsTypeOK, NEW a \in Members
    PROVE  /\ acct[a] \in Rows
           /\ acct[a].status = "none" => acct[a].revoked = None /\ acct[a].iat = None
           /\ \A e \in Removals(a) : e.at \in Times /\ e.type = "access_removed" /\ e \in Events
<1>1. acct[a] \in Rows /\ (acct[a].status = "none" => acct[a] = NoRow)
  BY DEF AccountsTypeOK
<1>2. NoRow.revoked = None /\ NoRow.iat = None
  BY DEF NoRow
<1>3. \A e \in Removals(a) : e \in Events
  BY DEF AccountsTypeOK, Removals
<1> QED
  BY <1>1, <1>2, <1>3 DEF Removals, Events

\* Nothing was removed from an account without a row.
LEMMA UnknownIsFree ==
    ASSUME AccountsInv, NEW a \in Members, acct[a].status = "none"
    PROVE  Removals(a) = {}
<1> SUFFICES ASSUME NEW e \in Removals(a) PROVE FALSE
  OBVIOUS
<1>1. acct[a].revoked = None /\ e.at \in Times
  BY AccountTypes DEF AccountsInv
<1>2. acct[a].revoked >= e.at
  BY DEF AccountsInv, AccessInv, AccessFits
<1> QED
  BY <1>1, <1>2 DEF None, Times

\* One row changes: it must fit the removals that were handled.
LEMMA AccessKept ==
    ASSUME AccountsInv, NEW a \in Members, NEW row \in Rows, acct' = [acct EXCEPT ![a] = row],
           \A b \in Members \ {a} : Removals(b)' = Removals(b), AccessFits(row, Removals(a)')
    PROVE  AccessInv'
<1>1. acct'[a] = row /\ \A b \in Members \ {a} : acct'[b] = acct[b]
  BY DEF AccountsInv, AccountsTypeOK
<1>2. \A b \in Members : AccessFits(acct[b], Removals(b))
  BY DEF AccountsInv, AccessInv
<1>3. ASSUME NEW b \in Members PROVE AccessFits(acct[b], Removals(b))'
  <2>1. CASE b = a
    BY <1>1, <2>1 DEF AccessFits
  <2>2. CASE b # a
    BY <1>1, <1>2, <2>2 DEF AccessFits
  <2> QED
    BY <2>1, <2>2
<1> QED
  BY <1>3 DEF AccessInv

\* A row that is first heard of, or keeps its sign-in and status, fits with a later cutoff.
LEMMA FitsStill ==
    ASSUME AccountsInv, NEW a \in Members, NEW row \in Rows,
           row.status = Ensured(acct[a]).status, row.iat = acct[a].iat, row.revoked >= acct[a].revoked
    PROVE  AccessFits(row, Removals(a))
<1>1. AccessFits(acct[a], Removals(a)) /\ acct[a] \in Rows
      /\ \A e \in Removals(a) : e.at \in Times
  BY AccountTypes DEF AccountsInv, AccessInv
<1>2. acct[a].status = "none" => Removals(a) = {}
  BY UnknownIsFree
<1>3. row.status = IF acct[a].status = "none" THEN "active" ELSE acct[a].status
  BY <1>1, EnsuredIs
<1>4. \A e \in Removals(a) : row.revoked >= e.at
  <2>1. row.revoked \in Int /\ acct[a].revoked \in Int /\ \A e \in Removals(a) : e.at \in Int
    BY <1>1, RowFields, AccountsAssumption DEF Times, None
  <2> QED
    BY <1>1, <2>1 DEF AccessFits
<1>5. row.status = "active" => \A e \in Removals(a) : row.iat > e.at
  BY <1>1, <1>2, <1>3 DEF AccessFits
<1>6. row.status = "access_removed" => \E e \in Removals(a) : row.iat <= e.at
  BY <1>1, <1>3 DEF AccessFits
<1> QED
  BY <1>4, <1>5, <1>6 DEF AccessFits

\* A deleted row fits, whatever was removed.
LEMMA DeletedFits ==
    ASSUME AccountsInv, NEW a \in Members, NEW at \in Times
    PROVE  /\ Deleted(Ensured(acct[a]), at) \in Rows
           /\ Deleted(Ensured(acct[a]), at).status = "deleted"
           /\ AccessFits(Deleted(Ensured(acct[a]), at), Removals(a))
<1> DEFINE row == Deleted(Ensured(acct[a]), at)
<1>1. acct[a] \in Rows /\ (\A e \in Removals(a) : e.at \in Times) /\ AccessFits(acct[a], Removals(a))
  BY AccountTypes DEF AccountsInv, AccessInv
<1>2. row \in Rows /\ row.status = "deleted" /\ row.revoked >= acct[a].revoked
  BY <1>1, EnsuredIs, DeletedIs
<1> HIDE DEF row
<1>3. row.revoked \in Int /\ acct[a].revoked \in Int /\ \A e \in Removals(a) : e.at \in Int
  BY <1>1, <1>2, RowFields, AccountsAssumption DEF Times, None
<1>4. AccessFits(row, Removals(a))
  BY <1>1, <1>2, <1>3 DEF AccessFits
<1> QED
  BY <1>2, <1>4 DEF row

\* The status of one row changes as StatusMoves allows.
LEMMA OneStatusMoves ==
    ASSUME AccountsTypeOK, NEW a \in Members, NEW row \in Rows, acct' = [acct EXCEPT ![a] = row],
           \/ row.status = Ensured(acct[a]).status
           \/ row.status = "active" /\ acct[a].status # "deleted"
           \/ row.status = "access_removed" /\ acct[a].status \in {"none", "active"}
           \/ row.status = "deleted"
    PROVE  /\ \A b \in Members : acct'[b].status # acct[b].status =>
                 <<acct[b].status, acct'[b].status>> \in StatusMoves
           /\ acct' \in [Members -> Rows]
           /\ row.status # "none" =>
                 \A b \in Members : acct'[b].status = "none" => acct'[b] = NoRow
<1>1. /\ acct \in [Members -> Rows] /\ acct[a].status \in Status
      /\ \A b \in Members : acct[b].status = "none" => acct[b] = NoRow
  BY AccountTypes, RowFields DEF AccountsTypeOK
<1>2. /\ acct' \in [Members -> Rows] /\ acct'[a] = row
      /\ \A b \in Members \ {a} : acct'[b] = acct[b]
  BY <1>1
<1>3. row.status # acct[a].status => <<acct[a].status, row.status>> \in StatusMoves
  BY <1>1, EnsuredIs, AccountTypes DEF StatusMoves, Status
<1> QED
  BY <1>1, <1>2, <1>3
----------------------------------------------------------------------------
(* Steps *)

StatusStep ==
    \A a \in Members : acct'[a].status # acct[a].status => <<acct[a].status, acct'[a].status>> \in StatusMoves

\* The effect of an event on the row of its account, before the other tables.
LEMMA PayloadIs ==
    ASSUME AccountsInv, NEW e \in Events, e.type \in EventTypes, NEW reread,
           ApplyPayload(e, reread), receipts' = receipts \cup {e}
    PROVE  /\ AccessInv' /\ StatusStep /\ acct' \in [Members -> Rows]
           /\ \A b \in Members : acct'[b].status = "none" => acct'[b] = NoRow
           /\ grants' \subseteq grants /\ allowed' \subseteq allowed
<1> DEFINE row == Ensured(acct[e.subject])
<1>1. PICK a \in Members : a = e.subject
  BY DEF Events
<1>2. /\ e.at \in Times /\ acct[a] \in Rows /\ row \in Rows /\ row.status # "none"
      /\ row.status = Ensured(acct[a]).status
      /\ row.iat = acct[a].iat /\ row.revoked = acct[a].revoked
      /\ row.status = IF acct[a].status = "none" THEN "active" ELSE acct[a].status
  BY <1>1, AccountTypes, EnsuredIs DEF AccountsInv, Events
<1>3. /\ acct \in [Members -> Rows]
      /\ \A b \in Members : acct[b].status = "none" => acct[b] = NoRow
      /\ \A b \in Members : AccessFits(acct[b], Removals(b))
  BY DEF AccountsInv, AccountsTypeOK, AccessInv
<1>4. \A b \in Members : Removals(b)' =
        IF e.type = "access_removed" /\ b = a THEN Removals(b) \cup {e} ELSE Removals(b)
  BY <1>1 DEF Removals
<1>5. \A k : WriteRow(a, k) => /\ acct' = [acct EXCEPT ![a] = k]
                            /\ grants' \subseteq grants /\ allowed' \subseteq allowed
  BY DEF WriteRow, Fenced
<1>6. CASE KeepAccount /\ e.type # "access_removed"
  <2>1. \A b \in Members : Removals(b)' = Removals(b)
    BY <1>4, <1>6
  <2>2. AccessInv'
    BY <1>3, <1>6, <2>1 DEF AccessInv, AccessFits, KeepAccount
  <2> QED
    BY <1>3, <1>6, <2>2 DEF KeepAccount, StatusStep
<1>7. ASSUME NEW k \in Rows, k.status = row.status, k.iat = row.iat, k.revoked >= row.revoked, WriteRow(a, k),
             e.type # "access_removed"
      PROVE  /\ AccessInv' /\ StatusStep /\ acct' \in [Members -> Rows]
             /\ \A b \in Members : acct'[b].status = "none" => acct'[b] = NoRow
             /\ grants' \subseteq grants /\ allowed' \subseteq allowed
  <2>1. AccessFits(k, Removals(a))
    BY <1>2, <1>7, FitsStill
  <2>2. \A b \in Members : Removals(b)' = Removals(b)
    BY <1>4, <1>7
  <2>3. acct' = [acct EXCEPT ![a] = k] /\ grants' \subseteq grants /\ allowed' \subseteq allowed
    BY <1>5, <1>7
  <2>4. AccessInv'
    BY <2>1, <2>2, <2>3, AccessKept
  <2> QED
    BY <1>2, <1>7, <2>3, <2>4, OneStatusMoves DEF AccountsInv, StatusStep
<1>8. CASE e.type = "custodian_changed"
  <2>1. KeepAccount \/ WriteRow(a, TakeCustodian(row, e))
    BY <1>1, <1>8 DEF ApplyPayload
  <2>2. TakeCustodian(row, e).revoked >= row.revoked
    BY <1>2, TakesAre, RowFields, AccountsAssumption DEF Times, None
  <2> QED
    BY <1>2, <1>6, <1>7, <1>8, <2>1, <2>2, TakesAre
<1>9. CASE e.type = "updated"
  <2>1. KeepAccount \/ WriteRow(a, TakeProfile(row, e))
    BY <1>1, <1>9 DEF ApplyPayload
  <2>2. TakeProfile(row, e).revoked >= row.revoked
    BY <1>2, TakesAre, RowFields, AccountsAssumption DEF Times, None
  <2> QED
    BY <1>2, <1>6, <1>7, <1>9, <2>1, <2>2, TakesAre
<1>10. CASE e.type = "signed_out"
  <2>1. WriteRow(a, Cut(row, e.at))
    BY <1>1, <1>10 DEF ApplyPayload
  <2> QED
    BY <1>2, <1>7, <1>10, <2>1, CutIs
<1>11. CASE e.type = "deleted"
  <2> DEFINE k == Deleted(row, e.at)
  <2>1. k \in Rows /\ k.status = "deleted" /\ AccessFits(k, Removals(a))
    BY <1>1, <1>2, DeletedFits
  <2>2. acct' = [acct EXCEPT ![a] = k] /\ grants' \subseteq grants /\ allowed' \subseteq allowed
    BY <1>1, <1>11 DEF ApplyPayload, WriteDeleted, Without
  <2> HIDE DEF k
  <2>3. \A b \in Members : Removals(b)' = Removals(b)
    BY <1>4, <1>11
  <2>4. AccessInv'
    BY <2>1, <2>2, <2>3, AccessKept
  <2> QED
    BY <2>1, <2>2, <2>4, OneStatusMoves DEF AccountsInv, StatusStep
<1>12. CASE e.type = "access_removed"
  <2> DEFINE cut == Cut(row, e.at)
             k == IF Suspends(row, e.at) THEN [cut EXCEPT !.status = "access_removed"] ELSE cut
  <2>1. /\ cut \in Rows /\ cut.status = row.status /\ cut.iat = row.iat
        /\ cut.revoked >= row.revoked /\ cut.revoked >= e.at
    BY <1>2, CutIs
  <2>2. WriteRow(a, k)
    BY <1>1, <1>12 DEF ApplyPayload
  <2> HIDE DEF cut
  <2>3. /\ k \in Rows /\ k.iat = row.iat /\ k.revoked >= row.revoked /\ k.revoked >= e.at
        /\ k.status = IF Suspends(row, e.at) THEN "access_removed" ELSE row.status
    BY <2>1 DEF Rows, Status
  <2> HIDE DEF k
  <2>4. \A f \in Removals(a) : f.at \in Int /\ acct[a].revoked >= f.at
    BY <1>3, AccountTypes, AccountsAssumption DEF AccessFits, AccountsInv, Times
  <2>5. /\ k.revoked \in Int /\ acct[a].revoked \in Int /\ e.at \in Int /\ row.iat \in Int
    BY <1>2, <2>3, RowFields, AccountsAssumption DEF Times, None
  <2>6. AccessFits(k, Removals(a) \cup {e})
    <3>1. \A f \in Removals(a) \cup {e} : k.revoked >= f.at
      BY <1>2, <2>3, <2>4, <2>5
    <3>2. k.status = "active" => \A f \in Removals(a) \cup {e} : k.iat > f.at
      <4> SUFFICES ASSUME k.status = "active" PROVE \A f \in Removals(a) \cup {e} : k.iat > f.at
        OBVIOUS
      <4>1. row.status = "active" /\ ~Suspends(row, e.at)
        BY <2>3
      <4>2. k.iat > e.at
        BY <2>3, <2>5, <4>1 DEF Suspends
      <4>3. \A f \in Removals(a) : k.iat > f.at
        BY <1>2, <1>3, <2>3, <4>1, UnknownIsFree DEF AccessFits
      <4> QED
        BY <4>2, <4>3
    <3>3. k.status = "access_removed" => \E f \in Removals(a) \cup {e} : k.iat <= f.at
      BY <1>2, <1>3, <2>3 DEF AccessFits, Suspends
    <3> QED
      BY <3>1, <3>2, <3>3 DEF AccessFits
  <2>7. /\ Removals(a)' = Removals(a) \cup {e}
        /\ \A b \in Members \ {a} : Removals(b)' = Removals(b)
    BY <1>4, <1>12
  <2>8. acct' = [acct EXCEPT ![a] = k] /\ grants' \subseteq grants /\ allowed' \subseteq allowed
    BY <1>5, <2>2
  <2>9. AccessInv'
    BY <2>3, <2>6, <2>7, <2>8, AccessKept
  <2>10. /\ k.status # "none"
         /\ k.status = row.status \/ (k.status = "access_removed" /\ acct[a].status \in {"none", "active"})
    BY <1>2, <2>3 DEF Suspends
  <2> QED
    BY <1>2, <2>3, <2>8, <2>9, <2>10, OneStatusMoves DEF AccountsInv, StatusStep
<1> QED
  BY <1>8, <1>9, <1>10, <1>11, <1>12 DEF EventTypes

\* Where no row changes and no event is handled, only the types are left to check.
LEMMA NoRowChanges ==
    ASSUME AccountsInv, UNCHANGED <<acct, receipts>>, AccountsTypeOK', EventsWereSent'
    PROVE  AccountsInv' /\ StatusStep
<1>1. AccessInv'
  BY DEF AccountsInv, AccessInv, AccessFits, Removals
<1> QED
  BY <1>1 DEF AccountsInv, StatusStep

\* Silicon Accounts changes an account and sends an event of it, or issues a token.
LEMMA RemoteStep == ASSUME AccountsInv, RemoteNext PROVE AccountsInv' /\ StatusStep
<1>1. ASSUME NEW a \in Members, NEW type \in EventTypes, NEW row \in RemoteRows, Send(type, a, row)
      PROVE  AccountsTypeOK' /\ EventsWereSent' /\ UNCHANGED <<acct, receipts>>
  <2>1. clock + 1 \in Times /\ clock' = clock + 1
    BY <1>1, AccountsAssumption DEF Send, Stamp, AccountsInv, AccountsTypeOK, Times
  <2>2. [type |-> type, subject |-> a, at |-> clock + 1, custodian |-> row.custodian,
         version |-> row.version] \in Events
    BY <2>1 DEF Events, RemoteRows
  <2>3. sent' \subseteq Events /\ sent \subseteq sent' /\ upstream' \in [Members -> RemoteRows]
    BY <1>1, <2>2 DEF Send, AccountsInv, AccountsTypeOK
  <2> QED
    BY <1>1, <2>1, <2>3 DEF Send, AccountsInv, AccountsTypeOK, EventsWereSent, sharingVars
<1>2. ASSUME NEW s \in Silicons, NEW c \in Custodians, RemoteCustodian(s, c)
      PROVE  AccountsTypeOK' /\ EventsWereSent' /\ UNCHANGED <<acct, receipts>>
  <2>1. s \in Members /\ [upstream[s] EXCEPT !.custodian = c] \in RemoteRows
    BY DEF Members, AccountsInv, AccountsTypeOK, RemoteRows
  <2> QED
    BY <1>1, <1>2, <2>1 DEF RemoteCustodian, EventTypes
<1>3. ASSUME NEW a \in Members, RemoteUpdate(a) \/ RemoteSignOut(a) \/ RemoteAccessRemoved(a) \/ RemoteDelete(a)
      PROVE  AccountsTypeOK' /\ EventsWereSent' /\ UNCHANGED <<acct, receipts>>
  <2>1. /\ upstream[a] \in RemoteRows
        /\ [upstream[a] EXCEPT !.version = @ + 1] \in RemoteRows
        /\ [upstream[a] EXCEPT !.member = FALSE] \in RemoteRows
        /\ [upstream[a] EXCEPT !.member = FALSE, !.deleted = TRUE] \in RemoteRows
    <3>1. upstream[a] \in RemoteRows
      BY DEF AccountsInv, AccountsTypeOK
    <3> DEFINE row == upstream[a]
    <3> HIDE DEF row
    <3>2. row \in RemoteRows /\ row.version + 1 \in Nat
      BY <3>1 DEF row, RemoteRows
    <3>3. [row EXCEPT !.version = row.version + 1] \in RemoteRows
      BY <3>2 DEF RemoteRows
    <3>4. /\ [row EXCEPT !.member = FALSE] \in RemoteRows
          /\ [row EXCEPT !.member = FALSE, !.deleted = TRUE] \in RemoteRows
      BY <3>2 DEF RemoteRows
    <3> QED
      BY <3>1, <3>3, <3>4 DEF row
  <2>2. CASE RemoteUpdate(a)
    BY <1>1, <2>1, <2>2 DEF RemoteUpdate, EventTypes
  <2>3. CASE RemoteSignOut(a)
    BY <1>1, <2>1, <2>3 DEF RemoteSignOut, EventTypes
  <2>4. CASE RemoteAccessRemoved(a)
    BY <1>1, <2>1, <2>4 DEF RemoteAccessRemoved, EventTypes
  <2>5. CASE RemoteDelete(a)
    BY <1>1, <2>1, <2>5 DEF RemoteDelete, EventTypes
  <2> QED
    BY <1>3, <2>2, <2>3, <2>4, <2>5
<1>4. ASSUME NEW a \in Members, RemoteSignIn(a)
      PROVE  AccountsTypeOK' /\ EventsWereSent' /\ UNCHANGED <<acct, receipts>>
  <2>1. clock + 1 \in Times /\ clock' = clock + 1 /\ clock + 1 \in Nat /\ Granule \in Nat \ {0}
    BY <1>4, AccountsAssumption DEF RemoteSignIn, Stamp, AccountsInv, AccountsTypeOK, Times
  <2>2. Second(clock + 1) * Granule \in Times
    BY <2>1, SecondStarts, AccountsAssumption DEF Times
  <2>3. upstream' \in [Members -> RemoteRows]
    BY <1>4 DEF RemoteSignIn, AccountsInv, AccountsTypeOK, RemoteRows
  <2> QED
    BY <1>4, <2>1, <2>2, <2>3 DEF RemoteSignIn, AccountsInv, AccountsTypeOK, EventsWereSent, sharingVars
<1> QED
  BY <1>2, <1>3, <1>4, NoRowChanges DEF RemoteNext

\* What a reread may find has its type.
LEMMA AnswerTypes ==
    ASSUME AccountsTypeOK, NEW a \in Members
    PROVE  LookupAnswers(a) \subseteq Rereads
<1>1. upstream[a].custodian \in Custodians /\ upstream[a].version \in Nat /\ NoOne \in Custodians
  BY NothingTypes DEF AccountsTypeOK, RemoteRows
<1> QED
  BY <1>1 DEF LookupAnswers, Rereads

\* Reading, and dying, changes no row.
LEMMA ReadingSteps ==
    ASSUME AccountsInv, NEW p \in Handlers,
           \/ \E e \in sent : \E reread \in LookupAnswers(e.subject) \cup {NothingRead} : StartEvent(p, e, reread)
           \/ Die(p)
           \/ \E a \in Members : Lookup(p, a)
    PROVE  AccountsInv' /\ StatusStep
<1>1. ASSUME NEW t \in Handlings, t.event \subseteq sent, Turn(p, t),
             UNCHANGED <<clock, upstreamVars, acct, receipts, sharingVars>>
      PROVE  AccountsInv' /\ StatusStep
  <2>1. AccountsTypeOK'
    BY <1>1 DEF AccountsInv, AccountsTypeOK, Turn, upstreamVars, sharingVars
  <2>2. EventsWereSent'
    BY <1>1 DEF AccountsInv, AccountsTypeOK, EventsWereSent, Turn, upstreamVars
  <2> QED
    BY <1>1, <2>1, <2>2, NoRowChanges
<1>2. ASSUME NEW e \in sent, NEW reread \in LookupAnswers(e.subject) \cup {NothingRead}, StartEvent(p, e, reread)
      PROVE  AccountsInv' /\ StatusStep
  <2>1. e \in Events /\ e.subject \in Members /\ reread \in Rereads
    BY <1>2, AnswerTypes, NothingTypes DEF AccountsInv, AccountsTypeOK, Events
  <2> DEFINE t == [pc |-> "apply", subject |-> e.subject, event |-> {e}, reread |-> reread]
  <2>2. t \in Handlings /\ t.event \subseteq sent
    BY <2>1 DEF Handlings
  <2>3. Turn(p, t) /\ UNCHANGED <<clock, upstreamVars, acct, receipts, sharingVars>>
    BY <1>2 DEF StartEvent
  <2> HIDE DEF t
  <2> QED
    BY <1>1, <2>2, <2>3
<1>3. CASE Die(p)
  BY <1>1, <1>3, NothingTypes DEF Die
<1>4. ASSUME NEW a \in Members, Lookup(p, a)
      PROVE  AccountsInv' /\ StatusStep
  <2> DEFINE found == [summary |-> IF upstream[a].deleted THEN "deleted" ELSE "active",
                       custodian |-> upstream[a].custodian, member |-> None]
  <2>1. found \in Rereads
    BY DEF Rereads, AccountsInv, AccountsTypeOK, RemoteRows
  <2> HIDE DEF found
  <2> DEFINE t == [NoHandling EXCEPT !.pc = "summary", !.subject = a, !.reread = found]
  <2>2. t \in Handlings /\ t.event \subseteq sent
    BY <2>1, NothingTypes DEF Handlings
  <2>3. Turn(p, t) /\ UNCHANGED <<clock, upstreamVars, acct, receipts, sharingVars>>
    BY <1>4 DEF Lookup, found
  <2> HIDE DEF t
  <2> QED
    BY <1>1, <2>2, <2>3
<1> QED
  BY <1>2, <1>3, <1>4

\* An event is handled once: its effect and its receipt commit together.
LEMMA ApplyEventStep == ASSUME AccountsInv, NEW p \in Handlers, ApplyEvent(p) PROVE AccountsInv' /\ StatusStep
<1>1. PICK e \in handling[p].event :
        IF IsDuplicate(e)
        THEN Turn(p, NoHandling) /\ KeepAccount /\ UNCHANGED receipts
        ELSE /\ ApplyPayload(e, handling[p].reread)
             /\ receipts' = receipts \cup {e}
             /\ Turn(p, [handling[p] EXCEPT !.pc = "summary", !.event = {}])
  BY DEF ApplyEvent
<1>2. handling[p] \in Handlings /\ e \in Events /\ e.type \in EventTypes /\ e \in sent
  BY <1>1 DEF AccountsInv, AccountsTypeOK, EventsWereSent, Handlings, Events
<1>3. CASE IsDuplicate(e)
  <2>1. AccountsTypeOK' /\ EventsWereSent'
    BY <1>1, <1>3, NothingTypes DEF ApplyEvent, AccountsInv, AccountsTypeOK, EventsWereSent, Turn, KeepAccount,
       upstreamVars
  <2> QED
    BY <1>1, <1>3, <2>1, NoRowChanges DEF KeepAccount
<1>4. CASE ~IsDuplicate(e)
  <2>1. /\ AccessInv' /\ StatusStep /\ acct' \in [Members -> Rows]
        /\ \A b \in Members : acct'[b].status = "none" => acct'[b] = NoRow
        /\ grants' \subseteq grants /\ allowed' \subseteq allowed
    BY <1>1, <1>2, <1>4, PayloadIs
  <2> DEFINE t == [handling[p] EXCEPT !.pc = "summary", !.event = {}]
  <2>2. t \in Handlings /\ t.event = {}
    BY <1>2 DEF Handlings
  <2>3. Turn(p, t) /\ receipts' = receipts \cup {e} /\ UNCHANGED <<clock, upstreamVars, req>>
    BY <1>1, <1>4 DEF ApplyEvent
  <2> HIDE DEF t
  <2>4. AccountsTypeOK' /\ EventsWereSent'
    BY <1>2, <2>1, <2>2, <2>3 DEF AccountsInv, AccountsTypeOK, EventsWereSent, Turn, upstreamVars
  <2> QED
    BY <2>1, <2>4 DEF AccountsInv
<1> QED
  BY <1>3, <1>4

\* A row that is written with the status it had, or becomes active, and fits.
LEMMA RowStep ==
    ASSUME AccountsInv, NEW p \in Handlers, NEW t \in Handlings, t.event \subseteq sent, Turn(p, t) \/ UNCHANGED handling,
           NEW a \in Members, NEW row \in Rows, acct' = [acct EXCEPT ![a] = row],
           grants' \subseteq grants, allowed' \subseteq allowed,
           clock' \in Times, UNCHANGED <<upstreamVars, receipts, req>>,
           row.status # "none", AccessFits(row, Removals(a)),
           \/ row.status = Ensured(acct[a]).status
           \/ row.status = "active" /\ acct[a].status # "deleted"
           \/ row.status = "deleted"
    PROVE  AccountsInv' /\ StatusStep
<1>1. /\ StatusStep /\ acct' \in [Members -> Rows]
      /\ \A b \in Members : acct'[b].status = "none" => acct'[b] = NoRow
  BY OneStatusMoves DEF AccountsInv, StatusStep
<1>2. \A b \in Members : Removals(b)' = Removals(b)
  BY DEF Removals
<1>3. AccessInv'
  BY <1>2, AccessKept
<1>4. AccountsTypeOK' /\ EventsWereSent'
  BY <1>1 DEF AccountsInv, AccountsTypeOK, EventsWereSent, Turn, upstreamVars
<1> QED
  BY <1>1, <1>3, <1>4 DEF AccountsInv

\* What was read is stored: authoritative, except for an account that is deleted.
LEMMA StoreSummaryStep == ASSUME AccountsInv, NEW p \in Handlers, StoreSummary(p) PROVE AccountsInv' /\ StatusStep
<1> DEFINE found == handling[p].reread
           t == [handling[p] EXCEPT !.pc = "member"]
<1>1. PICK a \in Members : a = handling[p].subject /\ found \in Rereads /\ handling[p].event \subseteq sent
                           /\ handling[p] \in Handlings
  BY DEF AccountsInv, AccountsTypeOK, EventsWereSent, Handlings
<1>2. t \in Handlings /\ t.event \subseteq sent
  BY <1>1 DEF Handlings
<1>3. Turn(p, t) /\ UNCHANGED <<upstreamVars, receipts, req>>
  BY DEF StoreSummary
<1>4. clock' \in Times /\ (Stamp => clock + 1 \in Times)
  BY AccountsAssumption DEF StoreSummary, Stamp, AccountsInv, AccountsTypeOK, Times
<1> HIDE DEF t
<1>5. CASE KeepAccount
  <2>1. AccountsTypeOK' /\ EventsWereSent'
    BY <1>2, <1>3, <1>4, <1>5 DEF AccountsInv, AccountsTypeOK, EventsWereSent, Turn, upstreamVars, KeepAccount
  <2> QED
    BY <1>3, <1>5, <2>1, NoRowChanges DEF KeepAccount
<1>6. ASSUME NEW row \in Rows, acct' = [acct EXCEPT ![a] = row],
             grants' \subseteq grants, allowed' \subseteq allowed,
             row.status # "none", AccessFits(row, Removals(a)),
             row.status = Ensured(acct[a]).status \/ row.status = "deleted"
      PROVE  AccountsInv' /\ StatusStep
  BY <1>2, <1>3, <1>4, <1>6, RowStep
<1>7. CASE WriteDeleted(a, clock + 1) /\ Stamp
  <2> DEFINE row == Deleted(Ensured(acct[a]), clock + 1)
  <2>1. row \in Rows /\ row.status = "deleted" /\ AccessFits(row, Removals(a))
    BY <1>4, <1>7, DeletedFits
  <2>2. acct' = [acct EXCEPT ![a] = row] /\ grants' \subseteq grants /\ allowed' \subseteq allowed
    BY <1>7 DEF WriteDeleted, Without
  <2> HIDE DEF row
  <2> QED
    BY <1>6, <2>1, <2>2
<1>8. CASE /\ Stamp
           /\ WriteRow(a, [Ensured(acct[a]) EXCEPT !.custodian = found.custodian, !.custodianAt = clock + 1,
                                                !.lookedUp = clock + 1])
  <2> DEFINE old == Ensured(acct[a])
             row == [old EXCEPT !.custodian = found.custodian, !.custodianAt = clock + 1, !.lookedUp = clock + 1]
  <2>1. /\ old \in Rows /\ old.status # "none" /\ old.iat = acct[a].iat /\ old.revoked = acct[a].revoked
        /\ old.revoked >= acct[a].revoked
    <3>1. acct[a] \in Rows
      BY AccountTypes DEF AccountsInv
    <3>2. acct[a].revoked \in Int
      BY <3>1, RowFields, AccountsAssumption DEF Times, None
    <3> QED
      BY <3>1, <3>2, EnsuredIs
  <2>2. clock + 1 \in Times /\ found.custodian \in Custodians
    BY <1>1, <1>4, <1>8 DEF Rereads
  <2>3. acct' = [acct EXCEPT ![a] = row] /\ grants' \subseteq grants /\ allowed' \subseteq allowed
    BY <1>8 DEF WriteRow, Fenced
  <2> HIDE DEF old
  <2>4. row \in Rows /\ row.status = old.status /\ row.iat = old.iat /\ row.revoked = old.revoked
    BY <2>1, <2>2 DEF Rows
  <2> HIDE DEF row
  <2>5. row.status = Ensured(acct[a]).status
    BY <2>4 DEF old
  <2>6. AccessFits(row, Removals(a))
    BY <2>1, <2>4, <2>5, FitsStill
  <2> QED
    BY <1>6, <2>1, <2>3, <2>4, <2>5, <2>6
<1> QED
  BY <1>1, <1>5, <1>7, <1>8 DEF StoreSummary

\* The displayed profile follows; deleted accounts and accounts without a row have none.
LEMMA StoreMemberStep == ASSUME AccountsInv, NEW p \in Handlers, StoreMember(p) PROVE AccountsInv' /\ StatusStep
<1> DEFINE found == handling[p].reread.member
           old == acct[handling[p].subject]
           row == [old EXCEPT !.profile = found]
<1>1. PICK a \in Members : a = handling[p].subject /\ found \in Nat \cup {None}
  BY DEF AccountsInv, AccountsTypeOK, Handlings, Rereads
<1>2. /\ Turn(p, NoHandling) /\ NoHandling \in Handlings /\ NoHandling.event \subseteq sent
      /\ UNCHANGED <<clock, upstreamVars, receipts, grants, allowed, req>> /\ clock' \in Times
  BY NothingTypes DEF StoreMember, sharingVars, AccountsInv, AccountsTypeOK
<1>3. CASE acct' = acct
  <2>1. AccountsTypeOK' /\ EventsWereSent'
    BY <1>2, <1>3 DEF AccountsInv, AccountsTypeOK, EventsWereSent, Turn, upstreamVars
  <2> QED
    BY <1>2, <1>3, <2>1, NoRowChanges
<1>4. CASE old.status \notin {"none", "deleted"} /\ acct' = [acct EXCEPT ![a] = row]
  <2>1. old \in Rows /\ old = acct[a] /\ old.revoked \in Int
    BY <1>1, AccountTypes, RowFields, AccountsAssumption DEF AccountsInv, Times, None
  <2> HIDE DEF old
  <2>2. row \in Rows /\ row.status = old.status /\ row.iat = old.iat /\ row.revoked = old.revoked
    BY <1>1, <2>1 DEF Rows
  <2>3. acct' = [acct EXCEPT ![a] = row]
    BY <1>4
  <2> HIDE DEF row
  <2>4. row.status = Ensured(acct[a]).status /\ row.status # "none"
    BY <1>4, <2>1, <2>2, EnsuredIs
  <2>5. AccessFits(row, Removals(a))
    BY <2>1, <2>2, <2>4, FitsStill
  <2> QED
    BY <1>2, <2>2, <2>3, <2>4, <2>5, RowStep
<1> QED
  BY <1>1, <1>3, <1>4 DEF StoreMember

\* A token that is accepted is from after every removal that was handled.
LEMMA AcceptTokenStep ==
    ASSUME AccountsInv, NEW p \in Handlers, NEW tok \in tokens,
           NEW reread \in LookupAnswers(tok.subject) \cup {NothingRead}, AcceptToken(p, tok, reread)
    PROVE  AccountsInv' /\ StatusStep
<1>1. PICK a \in Members : a = tok.subject /\ tok.iat \in Times
  BY DEF AccountsInv, AccountsTypeOK
<1> DEFINE old == acct[a]
           row == [old EXCEPT !.status = "active", !.iat = Later(old.iat, tok.iat)]
           t == [NoHandling EXCEPT !.pc = "summary", !.subject = a, !.reread = reread]
<1>2. /\ old \in Rows /\ IsCurrent(old, tok.iat) /\ acct' = [acct EXCEPT ![a] = row]
      /\ UNCHANGED <<clock, upstreamVars, receipts, sharingVars>> /\ clock' \in Times
      /\ Turn(p, t) \/ UNCHANGED handling
  BY <1>1, AccountTypes DEF AcceptToken, AccountsInv, AccountsTypeOK
<1>3. t \in Handlings /\ t.event \subseteq sent
  <2>1. reread \in Rereads
    BY <1>1, AnswerTypes, NothingTypes DEF AccountsInv
  <2> QED
    BY <2>1, NothingTypes DEF Handlings
<1> HIDE DEF old, t
<1>4. Later(old.iat, tok.iat) \in Times /\ Later(old.iat, tok.iat) >= tok.iat
  BY <1>1, <1>2, RowFields, LaterIs
<1>5. row \in Rows /\ row.status = "active" /\ row.iat = Later(old.iat, tok.iat) /\ row.revoked = old.revoked
  BY <1>2, <1>4 DEF Rows, Status
<1> HIDE DEF row
<1>6. AccessFits(row, Removals(a))
  <2>1. /\ \A e \in Removals(a) : old.revoked >= e.at /\ e.at \in Nat
        /\ old.revoked \in Int /\ row.iat \in Nat /\ tok.iat \in Nat
    BY <1>1, <1>2, <1>4, <1>5, AccountTypes, RowFields, AccountsAssumption
       DEF AccountsInv, AccessInv, AccessFits, Times, None, old
  <2>2. ASSUME NEW e \in Removals(a) PROVE row.iat > e.at
    <3>1. old.revoked # None /\ old.revoked \in Nat
      BY <2>1 DEF None
    <3>2. tok.iat > old.revoked
      BY <1>2, <2>1, <3>1, SecondsOrder DEF IsCurrent
    <3> QED
      BY <1>4, <1>5, <2>1, <3>1, <3>2
  <2> QED
    BY <1>5, <2>1, <2>2 DEF AccessFits
<1>7. acct[a].status # "deleted"
  BY <1>2 DEF IsCurrent, old
<1> QED
  BY <1>2, <1>3, <1>5, <1>6, <1>7, RowStep DEF sharingVars

\* Sharing changes no row: its entries and requests keep their types.
LEMMA SharingStep == ASSUME AccountsInv, SharingNext PROVE AccountsInv' /\ StatusStep
<1>1. PICK q \in Requests :
        \/ \E kind \in {"grant", "revoke", "allow", "disallow"}, x \in Entries : Admit(q, kind, x)
        \/ Check(q) \/ Refuse(q) \/ Commit(q)
  BY DEF SharingNext
<1>2. UNCHANGED <<clock, upstreamVars, acct, receipts, handling>>
  BY <1>1 DEF Admit, Check, Refuse, Commit
<1>3. /\ grants \subseteq Entries /\ allowed \subseteq Entries /\ req \in [Requests -> SharingRequests]
      /\ req[q] \in SharingRequests /\ req[q].entry \in Entries /\ NoRequest \in SharingRequests
  BY NothingTypes DEF AccountsInv, AccountsTypeOK, SharingRequests
<1>4. grants' \subseteq Entries /\ allowed' \subseteq Entries
  <2>1. CASE UNCHANGED <<grants, allowed>>
    BY <1>3, <2>1
  <2>2. CASE Commit(q)
    <3>1. /\ Added(grants, req[q].entry) \subseteq Entries /\ Removed(grants, req[q].entry) \subseteq Entries
          /\ Added(allowed, req[q].entry) \subseteq Entries /\ Removed(allowed, req[q].entry) \subseteq Entries
      BY <1>3 DEF Added, Removed
    <3>2. req[q].kind \in {"grant", "revoke", "allow", "disallow"}
      BY <1>3 DEF SharingRequests
    <3> QED
      BY <1>3, <2>2, <3>1, <3>2 DEF Commit
  <2> QED
    BY <1>1, <2>1, <2>2 DEF Admit, Check, Refuse
<1>5. req' \in [Requests -> SharingRequests]
  <2>1. \A r \in SharingRequests : Follow(q, r) => req' \in [Requests -> SharingRequests]
    BY <1>3 DEF Follow
  <2>2. ASSUME NEW kind \in {"grant", "revoke", "allow", "disallow"}, NEW x \in Entries, Admit(q, kind, x)
        PROVE  req' \in [Requests -> SharingRequests]
    <3>1. [pc |-> "admitted", kind |-> kind, entry |-> x, circle |-> {}] \in SharingRequests
      BY DEF SharingRequests
    <3> QED
      BY <2>1, <2>2, <3>1 DEF Admit
  <2>3. CASE Check(q)
    <3> DEFINE circle == IF req[q].kind = "disallow" THEN Circle(req[q].entry.of) ELSE {}
    <3>1. Circle(req[q].entry.of) \subseteq Members
      <4>1. req[q].entry.of \in Silicons /\ req[q].entry.of \in Members
        BY <1>3 DEF Entries, Members
      <4>2. acct[req[q].entry.of].custodian \in Carbons \cup {NoOne}
        BY <4>1, AccountTypes, RowFields DEF AccountsInv, Custodians
      <4> QED
        BY <4>1, <4>2 DEF Circle, Members
    <3>2. circle \subseteq Members
      BY <3>1
    <3> HIDE DEF circle
    <3>3. [req[q] EXCEPT !.pc = "checked", !.circle = circle] \in SharingRequests
      BY <1>3, <3>2 DEF SharingRequests
    <3>4. Follow(q, [req[q] EXCEPT !.pc = "checked", !.circle = circle])
      BY <2>3 DEF Check, circle
    <3> QED
      BY <2>1, <3>3, <3>4
  <2>4. CASE Refuse(q) \/ Commit(q)
    BY <1>3, <2>1, <2>4 DEF Refuse, Commit
  <2> QED
    BY <1>1, <2>2, <2>3, <2>4
<1>6. AccountsTypeOK' /\ EventsWereSent'
  BY <1>2, <1>4, <1>5 DEF AccountsInv, AccountsTypeOK, EventsWereSent, upstreamVars
<1> QED
  BY <1>2, <1>6, NoRowChanges
----------------------------------------------------------------------------
(* Theorems *)

\* At the start nothing was removed, and the accounts that are known are active.
LEMMA AccountsStart == ASSUME AccountsInit PROVE AccountsInv
<1>1. /\ 0 \in Times /\ NoOne \in Custodians /\ NoRow \in Rows /\ NoRow.status = "none"
      /\ NoHandling \in Handlings /\ NoHandling.event = {} /\ NoRequest \in SharingRequests
  BY NothingTypes, AccountsAssumption DEF Times
<1>2. \A a \in Members : CustodianAtStart(a) \in Custodians
  BY <1>1, AccountsAssumption DEF CustodianAtStart
<1>3. ASSUME NEW a \in Members
      PROVE  /\ acct[a] \in Rows /\ (acct[a].status = "none" => acct[a] = NoRow)
             /\ acct[a].status # "access_removed"
  <2> DEFINE row == [NoRow EXCEPT !.status = "active", !.custodian = CustodianAtStart(a),
                                  !.custodianAt = 0, !.profile = 0, !.lookedUp = 0, !.iat = 0]
  <2>1. row \in Rows /\ row.status = "active"
    BY <1>1, <1>2 DEF Rows, Status
  <2>2. acct[a] = row \/ acct[a] = NoRow
    BY DEF AccountsInit
  <2> HIDE DEF row
  <2> QED
    BY <1>1, <2>1, <2>2
<1>4. acct \in [Members -> Rows]
  BY <1>3 DEF AccountsInit
<1>5. upstream \in [Members -> RemoteRows]
  BY <1>2 DEF AccountsInit, RemoteRows
<1>6. AccountsTypeOK /\ EventsWereSent
  BY <1>1, <1>3, <1>4, <1>5 DEF AccountsInit, AccountsTypeOK, EventsWereSent
<1>7. AccessInv
  BY <1>3 DEF AccountsInit, AccessInv, AccessFits, Removals
<1> QED
  BY <1>6, <1>7 DEF AccountsInv

\* Every step keeps the invariant, and changes statuses only as StatusMoves allows.
LEMMA AccountsStep == ASSUME AccountsInv, [AccountsNext]_accountsVars PROVE AccountsInv' /\ StatusStep
<1>1. CASE ProcessNext
  <2>1. PICK p \in Handlers :
          \/ \E e \in sent : \E reread \in LookupAnswers(e.subject) \cup {NothingRead} : StartEvent(p, e, reread)
          \/ ApplyEvent(p) \/ StoreSummary(p) \/ StoreMember(p) \/ Die(p)
          \/ \E t \in tokens : \E reread \in LookupAnswers(t.subject) \cup {NothingRead} : AcceptToken(p, t, reread)
          \/ \E a \in Members : Lookup(p, a)
    BY <1>1 DEF ProcessNext
  <2> QED
    BY <2>1, ReadingSteps, ApplyEventStep, StoreSummaryStep, StoreMemberStep, AcceptTokenStep
<1>2. CASE UNCHANGED accountsVars
  <2>1. AccountsTypeOK' /\ EventsWereSent' /\ UNCHANGED <<acct, receipts>>
    BY <1>2 DEF accountsVars, upstreamVars, sharingVars, AccountsInv, AccountsTypeOK, EventsWereSent
  <2> QED
    BY <2>1, NoRowChanges
<1> QED
  BY <1>1, <1>2, RemoteStep, SharingStep DEF AccountsNext

\* The invariant holds in every reachable state.
LEMMA AccountsInvariant == AccountsSpec => []AccountsInv
<1>1. AccountsInit => AccountsInv
  BY AccountsStart
<1>2. AccountsInv /\ [AccountsNext]_accountsVars => AccountsInv'
  BY AccountsStep
<1> QED
  BY <1>1, <1>2, PTL DEF AccountsSpec

\* The variables have their types, and nothing is known of an account without a row.
THEOREM AccountsTyped == AccountsSpec => []AccountsTypeOK
<1>1. AccountsInv => AccountsTypeOK
  BY DEF AccountsInv
<1> QED
  BY <1>1, AccountsInvariant, PTL

\* An active account has signed in after every removal that was handled, and a suspended
\* one has not, in whatever order Remind learned of them.
THEOREM AccessIsLatest == AccountsSpec => []AccessFollowsSignIns
<1>1. AccountsInv => AccessFollowsSignIns
  BY DEF AccountsInv, AccessInv, AccessFits, AccessFollowsSignIns
<1> QED
  BY <1>1, AccountsInvariant, PTL

\* No event, lookup or token that arrives late brings a deleted account back.
THEOREM DeletedForGood == AccountsSpec => DeletionIsFinal
<1>1. AccountsInv /\ [AccountsNext]_accountsVars =>
        [\A a \in Members : acct'[a].status # acct[a].status =>
            <<acct[a].status, acct'[a].status>> \in StatusMoves]_accountsVars
  BY AccountsStep DEF StatusStep
<1> QED
  BY <1>1, AccountsInvariant, PTL DEF AccountsSpec, DeletionIsFinal

----------------------------------------------------------------------------
(* Sharing *)

\* What is still shared was shared before, and is in order if it was.
InOrderStill ==
    \A x \in Entries : x \in grants' \cup allowed' =>
        x \in grants \cup allowed /\ (Delegated(x) => Delegated(x)')

\* The names of an entry are accounts, and what stands is an entry.
LEMMA EntryFields ==
    ASSUME NEW x \in Entries
    PROVE  x.of \in Members /\ x.for \in Members /\ x.by \in Members /\ x.of # NoOne /\ x.by # NoOne
  BY AccountsAssumption DEF Entries, Members

\* The trigger ends what a new custodian does not stand for.
LEMMA WriteFences ==
    ASSUME AccountsInv, NEW a \in Members, NEW row, WriteRow(a, row),
           row.status = "deleted" => acct[a].status = "deleted"
    PROVE  InOrderStill
<1> SUFFICES ASSUME NEW x \in Entries, x \in grants' \cup allowed'
             PROVE  x \in grants \cup allowed /\ (Delegated(x) => Delegated(x)')
  BY DEF InOrderStill
<1>1. acct' = [acct EXCEPT ![a] = row] /\ acct \in [Members -> Rows]
  BY DEF WriteRow, AccountsInv, AccountsTypeOK
<1>2. /\ x \in grants \cup allowed
      /\ \/ acct[a].custodian = NoOne
         \/ acct[a].custodian = row.custodian
         \/ x.of = a => x.by # acct[a].custodian
  BY DEF WriteRow, Fenced
<1>3. SUFFICES ASSUME Delegated(x) PROVE Delegated(x)'
  BY <1>2
<1>4. acct'[x.of].status # "deleted" /\ acct'[x.for].status # "deleted"
  BY <1>1, <1>3, EntryFields DEF Delegated
<1>5. x.by \in {x.of, acct'[x.of].custodian}
  <2>1. CASE x.of = a
    BY <1>1, <1>2, <1>3, <2>1, EntryFields DEF Delegated
  <2>2. CASE x.of # a
    BY <1>1, <1>3, <2>2, EntryFields DEF Delegated
  <2> QED
    BY <2>1, <2>2
<1> QED
  BY <1>4, <1>5 DEF Delegated

\* What a deleted account is not part of is in order as before.
LEMMA DeletionEnds ==
    ASSUME AccountsInv, NEW a \in Members, NEW at, WriteDeleted(a, at)
    PROVE  InOrderStill
<1> SUFFICES ASSUME NEW x \in Entries, x \in grants' \cup allowed'
             PROVE  x \in grants \cup allowed /\ (Delegated(x) => Delegated(x)')
  BY DEF InOrderStill
<1>1. \A b \in Members \ {a} : acct'[b] = acct[b]
  BY DEF WriteDeleted, AccountsInv, AccountsTypeOK
<1>2. x \in grants \cup allowed /\ x.of # a /\ x.for # a
  BY DEF WriteDeleted, Without
<1>3. SUFFICES ASSUME Delegated(x) PROVE Delegated(x)'
  BY <1>2
<1> QED
  BY <1>1, <1>2, <1>3, EntryFields DEF Delegated

\* Where accounts keep their custodians and none is deleted, what was in order is.
LEMMA SameCustodians ==
    ASSUME AccountsInv, grants' \subseteq grants, allowed' \subseteq allowed,
           \A b \in Members : /\ acct'[b].custodian = acct[b].custodian
                              /\ acct'[b].status = "deleted" => acct[b].status = "deleted"
    PROVE  InOrderStill
<1> SUFFICES ASSUME NEW x \in Entries, x \in grants' \cup allowed'
             PROVE  x \in grants \cup allowed /\ (Delegated(x) => Delegated(x)')
  BY DEF InOrderStill
<1>1. x \in grants \cup allowed
  OBVIOUS
<1>2. SUFFICES ASSUME Delegated(x) PROVE Delegated(x)'
  BY <1>1
<1> QED
  BY <1>2, EntryFields DEF Delegated

\* An event ends what its effect on the account ends the reason for.
LEMMA PayloadFences ==
    ASSUME AccountsInv, NEW e \in Events, NEW reread, ApplyPayload(e, reread)
    PROVE  InOrderStill
<1>1. PICK a \in Members : a = e.subject
  BY DEF Events
<1> DEFINE row == Ensured(acct[a])
<1>2. row \in Rows /\ e.at \in Times /\ e.type \in EventTypes
      /\ (row.status = "deleted" => acct[a].status = "deleted")
  BY AccountTypes, EnsuredIs DEF AccountsInv, Events
<1>3. KeepAccount => InOrderStill
  BY SameCustodians DEF KeepAccount
<1> HIDE DEF row
<1>4. CASE e.type = "custodian_changed"
  <2>1. KeepAccount \/ WriteRow(a, TakeCustodian(row, e))
    BY <1>1, <1>4 DEF ApplyPayload, row
  <2> QED
    BY <1>2, <1>3, <2>1, TakesAre, WriteFences
<1>5. CASE e.type = "updated"
  <2>1. KeepAccount \/ WriteRow(a, TakeProfile(row, e))
    BY <1>1, <1>5 DEF ApplyPayload, row
  <2> QED
    BY <1>2, <1>3, <2>1, TakesAre, WriteFences
<1>6. CASE e.type = "signed_out"
  <2>1. WriteRow(a, Cut(row, e.at))
    BY <1>1, <1>6 DEF ApplyPayload, row
  <2> QED
    BY <1>2, <2>1, CutIs, WriteFences
<1>7. CASE e.type = "access_removed"
  <2> DEFINE cut == Cut(row, e.at)
             k == IF Suspends(row, e.at) THEN [cut EXCEPT !.status = "access_removed"] ELSE cut
  <2>1. WriteRow(a, k)
    BY <1>1, <1>7 DEF ApplyPayload, row
  <2>2. cut \in Rows /\ cut.status = row.status
    BY <1>2, CutIs
  <2> HIDE DEF cut
  <2>3. k.status \in {"access_removed", row.status}
    BY <2>2 DEF Rows
  <2> HIDE DEF k
  <2> QED
    BY <1>2, <2>1, <2>3, WriteFences
<1>8. CASE e.type = "deleted"
  BY <1>1, <1>8, DeletionEnds DEF ApplyPayload
<1> QED
  BY <1>2, <1>4, <1>5, <1>6, <1>7, <1>8 DEF EventTypes

\* Handlers, lookups and tokens leave in order what is.
LEMMA ProcessKeepsOrder ==
    ASSUME AccountsInv, ProcessNext
    PROVE  InOrderStill
<1>1. PICK p \in Handlers :
        \/ \E e \in sent : \E reread \in LookupAnswers(e.subject) \cup {NothingRead} :
              StartEvent(p, e, reread)
        \/ ApplyEvent(p) \/ StoreSummary(p) \/ StoreMember(p) \/ Die(p)
        \/ \E t \in tokens : \E reread \in LookupAnswers(t.subject) \cup {NothingRead} :
              AcceptToken(p, t, reread)
        \/ \E a \in Members : Lookup(p, a)
  BY DEF ProcessNext
<1>2. /\ acct \in [Members -> Rows] /\ sent \subseteq Events
      /\ handling[p] \in Handlings /\ handling[p].event \subseteq sent
  BY DEF AccountsInv, AccountsTypeOK, EventsWereSent
<1>3. UNCHANGED <<acct, grants, allowed>> => InOrderStill
  BY SameCustodians
<1>4. CASE ApplyEvent(p)
  <2>1. PICK e \in handling[p].event : KeepAccount \/ ApplyPayload(e, handling[p].reread)
    BY <1>4 DEF ApplyEvent
  <2>2. e \in Events
    BY <1>2, <2>1
  <2> QED
    BY <1>3, <2>1, <2>2, PayloadFences DEF KeepAccount
<1>5. CASE StoreSummary(p)
  <2> DEFINE found == handling[p].reread
  <2>1. PICK a \in Members : a = handling[p].subject
    BY <1>2 DEF Handlings
  <2>2. \/ KeepAccount \/ WriteDeleted(a, clock + 1)
        \/ /\ acct[a].status # "deleted"
           /\ WriteRow(a, [Ensured(acct[a]) EXCEPT
                    !.custodian = found.custodian, !.custodianAt = clock + 1,
                    !.lookedUp = clock + 1])
    BY <1>5, <2>1 DEF StoreSummary
  <2>3. CASE /\ acct[a].status # "deleted"
             /\ WriteRow(a, [Ensured(acct[a]) EXCEPT
                      !.custodian = found.custodian, !.custodianAt = clock + 1,
                      !.lookedUp = clock + 1])
    <3> DEFINE old == Ensured(acct[a])
               row == [old EXCEPT !.custodian = found.custodian, !.custodianAt = clock + 1,
                                  !.lookedUp = clock + 1]
    <3>1. old \in Rows /\ old.status # "deleted"
      BY <1>2, <2>3, EnsuredIs
    <3> HIDE DEF old
    <3>2. row.status # "deleted"
      BY <3>1 DEF Rows
    <3>3. WriteRow(a, row)
      BY <2>3 DEF old
    <3> HIDE DEF row
    <3> QED
      BY <3>2, <3>3, WriteFences
  <2> QED
    BY <1>3, <2>2, <2>3, DeletionEnds DEF KeepAccount
<1>6. CASE StoreMember(p)
  <2>1. /\ UNCHANGED <<grants, allowed>>
        /\ \/ acct' = acct
           \/ acct' = [acct EXCEPT ![handling[p].subject].profile = handling[p].reread.member]
    BY <1>6 DEF StoreMember, sharingVars
  <2>2. \A b \in Members : acct'[b].custodian = acct[b].custodian /\ acct'[b].status = acct[b].status
    BY <1>2, <2>1 DEF Rows
  <2> QED
    BY <2>1, <2>2, SameCustodians
<1>7. ASSUME NEW t \in tokens, NEW reread, AcceptToken(p, t, reread) PROVE InOrderStill
  <2>1. PICK a \in Members : a = t.subject
    BY DEF AccountsInv, AccountsTypeOK
  <2>2. /\ UNCHANGED <<grants, allowed>>
        /\ acct' = [acct EXCEPT ![a] = [acct[a] EXCEPT !.status = "active", !.iat = Later(@, t.iat)]]
    BY <1>7, <2>1 DEF AcceptToken, sharingVars
  <2>3. \A b \in Members : /\ acct'[b].custodian = acct[b].custodian
                           /\ acct'[b].status = "deleted" => acct[b].status = "deleted"
    BY <1>2, <2>2 DEF Rows
  <2> QED
    BY <2>2, <2>3, SameCustodians
<1>8. CASE UNCHANGED <<acct, grants, allowed>>
  BY <1>3, <1>8
<1> QED
  BY <1>1, <1>4, <1>5, <1>6, <1>7, <1>8 DEF StartEvent, Die, Lookup, sharingVars

\* A request stores what it was checked for; nothing else that it does disturbs the order.
LEMMA SharingKeepsOrder ==
    ASSUME AccountsInv, NEW q \in Requests, NEW x \in grants' \cup allowed',
           \/ \E kind \in {"grant", "revoke", "allow", "disallow"}, y \in Entries : Admit(q, kind, y)
           \/ Check(q) \/ Refuse(q) \/ Commit(q)
    PROVE  \/ Delegated(x)'
           \/ x \in grants \cup allowed /\ ~Delegated(x)
           \/ req[q].pc = "checked" /\ req[q].entry = x /\ req'[q] = NoRequest
<1>1. UNCHANGED acct /\ req \in [Requests -> SharingRequests]
  BY DEF Admit, Check, Refuse, Commit, AccountsInv, AccountsTypeOK
<1>2. CASE x \in grants \cup allowed
  BY <1>1, <1>2 DEF Delegated
<1>3. CASE x \notin grants \cup allowed
  <2>1. Commit(q) /\ x = req[q].entry
    BY <1>3 DEF Admit, Check, Refuse, Commit, Added, Removed
  <2> QED
    BY <1>1, <2>1 DEF Commit, Follow
<1> QED
  BY <1>2, <1>3

\* A step leaves nothing behind out of order that was in order, but what a request stores
\* that was checked before.
LEMMA OrderStep ==
    ASSUME AccountsInv, [AccountsNext]_accountsVars, NEW x \in grants' \cup allowed'
    PROVE  \/ Delegated(x)'
           \/ x \in grants \cup allowed /\ ~Delegated(x)
           \/ \E q \in Requests : req[q].pc = "checked" /\ req[q].entry = x /\ req'[q] = NoRequest
<1>1. x \in Entries
  <2>1. AccountsInv'
    BY AccountsStep
  <2> QED
    BY <2>1 DEF AccountsInv, AccountsTypeOK
<1>2. UNCHANGED <<acct, grants, allowed>> => InOrderStill
  BY SameCustodians
<1>3. CASE RemoteNext \/ ProcessNext \/ UNCHANGED accountsVars
  <2>1. InOrderStill
    BY <1>2, <1>3, ProcessKeepsOrder
       DEF RemoteNext, RemoteCustodian, RemoteUpdate, RemoteSignOut, RemoteAccessRemoved, RemoteDelete,
           RemoteSignIn, Send, sharingVars, accountsVars
  <2> QED
    BY <1>1, <2>1 DEF InOrderStill
<1>4. CASE SharingNext
  BY <1>4, SharingKeepsOrder DEF SharingNext
<1> QED
  BY <1>3, <1>4 DEF AccountsNext

\* A change of custody or a deletion, however Remind learns of it, ends every grant and
\* allowance that it is the end of; only a request checked before stores one afterwards.
THEOREM DelegationEndsWithCustody == AccountsSpec => DelegationEnds
<1>1. AccountsInv /\ [AccountsNext]_accountsVars =>
        [\A x \in grants' \cup allowed' :
            \/ Delegated(x)'
            \/ x \in grants \cup allowed /\ ~Delegated(x)
            \/ \E q \in Requests : req[q].pc = "checked" /\ req[q].entry = x /\ req'[q] = NoRequest
        ]_accountsVars
  BY OrderStep
<1> QED
  BY <1>1, AccountsInvariant, PTL DEF AccountsSpec, DelegationEnds
=============================================================================
