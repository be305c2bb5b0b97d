----------------------------- MODULE MCIdentity -----------------------------
(***************************************************************************)
(* Small instances of who someone is and may see: Remind's copy of Silicon  *)
(* Accounts (Accounts) with and without sharing, the sign-ins of the        *)
(* command line (Session: one of each of two accounts, and a test           *)
(* environment's slot next to production) and of the web frontend (Web: two  *)
(* requests of one browser at a time).                                     *)
(*                                                                         *)
(* They have no state in common here, and `part` picks the one that a       *)
(* behaviour is about; the others rest in an initial state.                 *)
(***************************************************************************)
EXTENDS MCAccounts, Session, Web

CONSTANTS f1, f2, f3, a1, a2

VARIABLE part

TwoAccounts == [f \in Families |-> IF f = f3 THEN a2 ELSE a1]

\* Sharing is explored with one entry at a time, among custodians that come and go and
\* accounts that are deleted.
SharedOnce ==
    /\ \/ \E s \in Silicons, c \in Custodians : RemoteCustodian(s, c)
       \/ \E a \in Members : RemoteDelete(a)
       \/ ProcessNext
       \/ SharingNext
    /\ Cardinality(grants') + Cardinality(allowed') <= 1

InitOfAll ==
    /\ AccountsInit /\ Init /\ WebInit
    /\ \/ part \in {"accounts", "sharing", "cli"} /\ moment = 0
       \/ part = "web"

NextOfAll ==
    /\ \/ /\ \/ part = "accounts" /\ (RemoteNext \/ ProcessNext)
             \/ part = "sharing" /\ SharedOnce
          /\ UNCHANGED <<vars, webVars>>
       \/ part = "cli" /\ Next /\ UNCHANGED <<accountsVars, webVars>>
       \/ part = "web" /\ WebNext /\ UNCHANGED <<accountsVars, vars>>
    /\ UNCHANGED part

SpecOfAll == InitOfAll /\ [][NextOfAll]_<<part, accountsVars, vars, webVars>>
=============================================================================
