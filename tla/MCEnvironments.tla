--------------------------- MODULE MCEnvironments ---------------------------
(***************************************************************************)
(* A small instance of Environments for TLC: one client uses, cleans and   *)
(* creates, the other manages, restores and creates too, and retires what  *)
(* a deleted owner had.                                                    *)
(***************************************************************************)
EXTENDS Environments

CONSTANTS c1, c2

Duties == [p \in Clients |-> IF p = c1 THEN {"use", "clean", "create"}
                                       ELSE {"rotate", "restore", "delete", "retire",
                                             "create"}]

KeepsToDuties == \A p \in Clients : task'[p] # NoTask => task'[p].op \in Duties[p]

DutiesSpec == Init /\ [][Next /\ KeepsToDuties]_vars /\ Fairness
=============================================================================
