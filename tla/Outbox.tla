------------------------------- MODULE Outbox -------------------------------
(***************************************************************************)
(* What Silicon Remind promises about one occurrence of a reminder: it is *)
(* stored once, it may be sent many times, it is closed once, and it is   *)
(* closed as delivered only when every receiver that has been subscribed  *)
(* since before the occurrence has been sent it.                          *)
(***************************************************************************)
EXTENDS Naturals

CONSTANTS Items, Audience

VARIABLES
    phase,     \* of each item: "none", "open", "delivered", "failed" or "gone"
    audience,  \* the receivers an item is still owed to
    reached    \* the receivers an item has been sent to

vars == <<phase, audience, reached>>

TypeOK ==
    /\ phase \in [Items -> {"none", "open", "delivered", "failed", "gone"}]
    /\ audience \in [Items -> SUBSET Audience]
    /\ reached \in [Items -> SUBSET Audience]

Init ==
    /\ phase = [i \in Items |-> "none"]
    /\ audience \in [Items -> SUBSET Audience]
    /\ reached = [i \in Items |-> {}]

\* One step of one item's life; storing and closing are never undone.
Moves ==
    {<<"none", "open">>, <<"open", "delivered">>, <<"open", "failed">>, <<"open", "gone">>,
     <<"delivered", "gone">>, <<"failed", "gone">>}

\* A step of the system may move several items at once: a batch is stored, an
\* archived reminder's items close together.
Next ==
    \A i \in Items :
        /\ phase'[i] # phase[i] => <<phase[i], phase'[i]>> \in Moves
        /\ phase'[i] = "delivered" /\ phase[i] # "delivered" => audience[i] \subseteq reached[i]
        /\ reached'[i] # reached[i] => phase[i] # "none" /\ reached[i] \subseteq reached'[i]
        /\ phase[i] # "none" => audience'[i] \subseteq audience[i]

\* The functions keep their domains, whatever moves in them.
Spec == Init /\ [][Next /\ TypeOK']_vars

\* At least once: a delivered item has reached everyone it is still owed to.
DeliveredReached ==
    \A i \in Items : phase[i] = "delivered" => audience[i] \subseteq reached[i]
=============================================================================
