------------------------------- MODULE Budget -------------------------------
(***************************************************************************)
(* The budget of requests of each caller, before any work for them: so many *)
(* in a minute that slides, and so many callers that are kept in memory.   *)
(* One process; a mutex makes an admission one step, clock reading included.*)
(***************************************************************************)
EXTENDS Integers, Sequences, FiniteSets

CONSTANTS
    Spenders,   \* callers
    Window,     \* how long an admission counts
    PerWindow,  \* admissions of one caller in a window
    Tracked,    \* callers that are kept
    LastInstant \* bound: the clock stops here

ASSUME BudgetAssumption ==
    /\ Window \in Nat \ {0} /\ PerWindow \in Nat \ {0} /\ Tracked \in Nat /\ LastInstant \in Nat

VARIABLES
    instant,
    window,   \* the admissions of each caller that are remembered
    admitted  \* history: all admissions of each caller

budgetVars == <<instant, window, admitted>>
----------------------------------------------------------------------------
BudgetTypeOK ==
    /\ instant \in 0 .. LastInstant
    /\ window \in [Spenders -> Seq(0 .. LastInstant)]
    /\ admitted \in [Spenders -> Seq(0 .. LastInstant)]

BudgetInit ==
    /\ instant = 0
    /\ window = [s \in Spenders |-> <<>>]
    /\ admitted = [s \in Spenders |-> <<>>]
----------------------------------------------------------------------------
\* Mutant of Counts: an admission is forgotten one instant early.
CountsShort(at) == instant - at < Window - 1

Counts(at) == instant - at < Window

\* A caller whose last admission no longer counts is forgotten.
Retained == [s \in Spenders |->
                 IF window[s] # <<>> /\ Counts(window[s][Len(window[s])]) THEN window[s] ELSE <<>>]
Tracking == {s \in Spenders : Retained[s] # <<>>}

\* What still counts: older admissions are dropped, from the front.
Counted(s) ==
    LET dropped == CHOOSE n \in 0 .. Len(Retained[s]) :
                      /\ \A m \in 1 .. n : ~Counts(Retained[s][m])
                      /\ n < Len(Retained[s]) => Counts(Retained[s][n + 1])
    IN  SubSeq(Retained[s], dropped + 1, Len(Retained[s]))

MayEnter(s) == Cardinality(Tracking) < Tracked \/ s \in Tracking

Admit(s) ==
    /\ MayEnter(s) /\ Len(Counted(s)) < PerWindow
    /\ window' = [Retained EXCEPT ![s] = Append(Counted(s), instant)]
    /\ admitted' = [admitted EXCEPT ![s] = Append(@, instant)]
    /\ UNCHANGED instant

\* A request that is refused leaves the table tidied.
RefuseRequest(s) ==
    /\ ~(MayEnter(s) /\ Len(Counted(s)) < PerWindow)
    /\ window' = IF MayEnter(s) THEN [Retained EXCEPT ![s] = Counted(s)] ELSE Retained
    /\ UNCHANGED <<instant, admitted>>

NextInstant ==
    /\ instant < LastInstant
    /\ instant' = instant + 1
    /\ UNCHANGED <<window, admitted>>

BudgetNext == (\E s \in Spenders : Admit(s) \/ RefuseRequest(s)) \/ NextInstant

BudgetSpec == BudgetInit /\ [][BudgetNext]_budgetVars
----------------------------------------------------------------------------
(* Properties *)

\* No caller is admitted more often than PerWindow in any window, wherever it begins, and
\* though callers are forgotten; and no more than Tracked callers are ever kept.
SpendingIsLimited ==
    /\ \A s \in Spenders, t \in 0 .. LastInstant :
          Cardinality({n \in 1 .. Len(admitted[s]) : admitted[s][n] \in t .. t + Window - 1}) <= PerWindow
    /\ Cardinality({s \in Spenders : window[s] # <<>>}) <= Tracked
=============================================================================
