------------------------------ MODULE MCRemind ------------------------------
(***************************************************************************)
(* Small instances of Remind for TLC.                                     *)
(***************************************************************************)
EXTENDS Remind, TLC

CONSTANTS a1, s1, s2, w1, w2, r1, r2, q1, q2, c1, c2

OneOwner == [s \in Schedules |-> a1]
OneSubscriber == [r \in Receivers |-> a1]

\* c1 matches one instant per two, c2 every instant; both go past MaxTime.
TwoCrons == [c \in Crons |-> IF c = c1 THEN {1, 3, 5, 7} ELSE 1 .. 7]
OneCron == [c \in Crons |-> {1, 5}]
EarlyCron == [c \in Crons |-> {1, 9}]

\* Reminders are created at the start and only r1 comes and goes; everything
\* else is as in Spec.
DeliverySpec ==
    Init /\ [][/\ Next
               /\ \A s \in Schedules : sched[s].status = "absent" /\ clock > 0 => sched'[s] = sched[s]
               /\ \A r \in Receivers \ {r1} : hook'[r] = hook[r] \/ account' # account]_vars

\* Edits against materialisation: every claim finds its executions busy, so that
\* no delivery starts.
EditsSpec == Init /\ [][Next /\ task' = task]_vars

\* Reminders are created and accounts change early, so that every execution is
\* stored by instant 1 and all its attempts fit under MaxTime; subscriptions are
\* those of the initial state.
ProgressSpec ==
    /\ Init
    /\ [][/\ TimelyNext
          /\ \A s \in Schedules : sched[s].status = "absent" /\ clock > 0 => sched'[s] = sched[s]
          /\ hook' = hook \/ account' # account
          /\ account' = account \/ clock < 2]_vars
    /\ Fairness

EditSymmetry == Permutations(Requests) \cup Permutations(Schedules)

WorkerSymmetry == Permutations(Workers)
=============================================================================
