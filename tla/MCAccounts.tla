----------------------------- MODULE MCAccounts -----------------------------
(***************************************************************************)
(* Small instances of Accounts for TLC.                                   *)
(***************************************************************************)
EXTENDS Accounts

CONSTANTS c1, c2, s1, p1, p2, q1

\* The custodian that each silicon starts with.
FirstC1 == [s \in Silicons |-> c1]

\* Two handlers of custodian.changed: every lookup answers and no process dies.
CustodyNext ==
    \/ \E s \in Silicons, c \in Carbons : RemoteCustodian(s, c)
    \/ \E p \in Handlers :
        \/ \E e \in sent : \E reread \in LookupAnswers(e.subject) :
              reread.summary # "none" /\ StartEvent(p, e, reread)
        \/ ApplyEvent(p) \/ StoreSummary(p) \/ StoreMember(p)

CustodySpec == AccountsInit /\ [][CustodyNext]_accountsVars
=============================================================================
