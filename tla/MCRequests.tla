----------------------------- MODULE MCRequests -----------------------------
(***************************************************************************)
(* Small instances of what requests meet on their way: the check of their   *)
(* token (Gateway), their budget (Budget), a key to repeat them with        *)
(* (Replay), and what they ask for: subscriptions (Subscriptions), pages    *)
(* of reminders (Listing) and bug reports (Reports); and of the links that  *)
(* an operator makes (Links).                                              *)
(*                                                                         *)
(* The seven have no state in common, and `part` picks the one that a       *)
(* behaviour is about; the others rest in their initial states.            *)
(***************************************************************************)
EXTENDS Replay, Subscriptions, Reports, Gateway, Listing, Budget, Links, TLC

CONSTANTS o1, o2, r1, r2, c1, c2, k1, k2, s1, s2

VARIABLE part

Ask(op, target, key, body, until) ==
    [owner |-> o1, op |-> op, target |-> target, key |-> key, body |-> body, until |-> until]

\* Two creations, of which one is for instant 1, and one key for two changes.
SomeAsks ==
    {Ask("create", "none", k1, "x", 1), Ask("create", "none", k2, "x", 9),
     Ask("change", r1, k1, "x", 9), Ask("change", r1, k1, "y", 9)}

\* Two rows of one instant, between an older and a newer one.
SomeCreated == [i \in 1 .. 4 |-> CASE i = 1 -> 3 [] i = 4 -> 1 [] OTHER -> 2]

\* r2 has two spellings.
SomePrincipalOf == [s \in {s1, s2, r2} |-> IF s = s1 THEN r1 ELSE r2]

Line(spelling, account) == [spelling |-> spelling, account |-> account]

\* First files, corrections of them, and one whose lines contradict each other.
SomeFiles ==
    {<<Line(s1, o1), Line(s2, o2)>>, <<Line(s1, o2)>>, <<Line(s2, o1)>>, <<Line(s1, "-")>>,
     <<Line(s2, o1), Line(r2, o2)>>}

vars == <<part, replayVars, subscriptionsVars, reportsVars, gatewayVars, listingVars, budgetVars,
          linksVars>>

Init ==
    /\ ReplayInit /\ SubscriptionsInit /\ ReportsInit /\ GatewayInit /\ BudgetInit /\ LinksInit
    /\ \/ part \in {"replay", "subscriptions", "reports", "gateway", "budget", "links"}
          /\ ListingInit /\ rowState = [i \in Rows |-> "none"]
       \/ part = "listing" /\ ListingInit

Next ==
    /\ \/ part = "replay" /\ ReplayNext
          /\ UNCHANGED <<subscriptionsVars, reportsVars, gatewayVars, listingVars, budgetVars, linksVars>>
       \/ part = "subscriptions" /\ SubscriptionsNext
          /\ UNCHANGED <<replayVars, reportsVars, gatewayVars, listingVars, budgetVars, linksVars>>
       \/ part = "reports" /\ ReportsNext
          /\ UNCHANGED <<replayVars, subscriptionsVars, gatewayVars, listingVars, budgetVars, linksVars>>
       \/ part = "gateway" /\ GatewayNext
          /\ UNCHANGED <<replayVars, subscriptionsVars, reportsVars, listingVars, budgetVars, linksVars>>
       \/ part = "listing" /\ ListingNext
          /\ UNCHANGED <<replayVars, subscriptionsVars, reportsVars, gatewayVars, budgetVars, linksVars>>
       \/ part = "budget" /\ BudgetNext
          /\ UNCHANGED <<replayVars, subscriptionsVars, reportsVars, gatewayVars, listingVars, linksVars>>
       \/ part = "links" /\ LinksNext
          /\ UNCHANGED <<replayVars, subscriptionsVars, reportsVars, gatewayVars, listingVars,
                         budgetVars>>
    /\ UNCHANGED part

Spec == Init /\ [][Next]_vars

\* The two processes that handle requests are alike; their names serve all parts.
Symmetry == Permutations(Clients)

\* The variables have their types, and nobody holds a lock outside the code that takes it.
RequestsTypeOK ==
    CASE part = "replay" -> ReplayTypeOK
      [] part = "subscriptions" -> SubscriptionsTypeOK
      [] part = "reports" -> ReportsTypeOK
      [] part = "gateway" -> GatewayTypeOK
      [] part = "listing" -> ListingTypeOK
      [] part = "budget" -> BudgetTypeOK
      [] part = "links" -> LinksTypeOK

\* Whatever races, no limit is passed: reminders and active subscriptions of an account,
\* its reports per hour, requests of a caller per minute, and fetches of keys.
LimitsHold ==
    /\ RemindersAreLimited
    /\ SubscriptionsAreLimited
    /\ ReportsAreLimited
    /\ SpendingIsLimited
    /\ FetchesAreRare
=============================================================================
