--------------------------- MODULE RequestsProofs ---------------------------
(***************************************************************************)
(* Proofs about what requests meet on their way, for every number of       *)
(* processes, subscriptions, principals and keys, every limit and every    *)
(* timing:                                                                 *)
(*   - a roll-out of keys leaves every active subscription readable by     *)
(*     every process, an ended subscription stays ended, and no account    *)
(*     has more active ones than its limit;                                *)
(*   - a revoked token is refused once a cached answer and one request to  *)
(*     Silicon Accounts have passed, and keys are fetched rarely;          *)
(*   - links never give two principals one account, a run that nothing     *)
(*     disturbed is complete, and a drain spares who was linked.           *)
(* The last section puts the parts together, with those that ReplayProofs  *)
(* and LimitsProofs are about: what each keeps alone, the whole keeps.     *)
(***************************************************************************)
EXTENDS MCRequests, ReplayProofs, LimitsProofs
----------------------------------------------------------------------------
(* The roll-out of keys *)

\* A process uses the new key only when every process knows it; one forgets the old key
\* only when every process uses the new one and no active row is left under the old.
RolledOut ==
    /\ \A n, m \in Nodes : setting[n] >= 3 => setting[m] >= 2
    /\ \A n, m \in Nodes : setting[n] = 4 => setting[m] >= 3

\* Whatever is active or about to be inserted is under a key that every process knows.
KeysFit ==
    /\ \A n \in Nodes : job[n].pc = "insert" => job[n].key = Current(n)
    /\ \A h \in Hooks, n \in Nodes : Active(h) =>
          /\ hook[h].key = NewKey => setting[n] >= 2
          /\ hook[h].key = OldKey => setting[n] <= 3

RollOutInv == SubscriptionsTypeOK /\ RolledOut /\ KeysFit

\* What the sweep and the insertion write is readable: the key in use anywhere is known
\* everywhere, and the old one is in use only while nobody has forgotten it.
LEMMA CurrentFits ==
    ASSUME RolledOut, setting \in [Nodes -> Settings], NEW n \in Nodes, NEW m \in Nodes
    PROVE  /\ Current(n) \in {OldKey, NewKey}
           /\ Current(n) = NewKey => setting[m] >= 2
           /\ Current(n) = OldKey => setting[m] <= 3
<1>1. setting[n] \in 1 .. 4 /\ setting[m] \in 1 .. 4
  BY DEF Settings
<1> QED
  BY <1>1 DEF RolledOut, Current, OldKey, NewKey

\* Reading the invariant: what fits is known.
LEMMA FitsIsKnown ==
    ASSUME RollOutInv
    PROVE  EveryoneCanRead
<1> SUFFICES ASSUME NEW n \in Nodes, NEW h \in Hooks, Active(h)
             PROVE  hook[h].key \in Known(n)
  BY DEF EveryoneCanRead
<1>1. setting[n] \in 1 .. 4 /\ hook[h].key \in {OldKey, NewKey}
  BY DEF RollOutInv, SubscriptionsTypeOK, Settings, HookRows, NoHook, Active
<1> QED
  BY <1>1 DEF RollOutInv, KeysFit, Known, OldKey, NewKey

\* No process has the new key, no row and no job.
LEMMA RollOutInit == ASSUME SubscriptionsInit PROVE RollOutInv
<1>1. SubscriptionsTypeOK
  BY SubscriptionsAssumption DEF SubscriptionsInit, SubscriptionsTypeOK, NoHook, NoJob, Jobs, Settings,
     OldKey, NewKey
<1>2. RolledOut /\ KeysFit
  BY DEF SubscriptionsInit, RolledOut, KeysFit, Active, NoHook, NoJob
<1> QED
  BY <1>1, <1>2 DEF RollOutInv

\* The two ways in which a row is written again give a row.
LEMMA EndedIsRow ==
    ASSUME NEW row \in HookRows, row.version < MaxVersion, day \in 0 .. MaxDay
    PROVE  EndedRow(row) \in HookRows /\ EndedRow(row).state = "ended"
<1>1. row.version + 1 \in 1 .. MaxVersion
  BY SubscriptionsAssumption DEF HookRows
<1> QED
  BY <1>1 DEF EndedRow, HookRows

\* A rewrap makes a row of the next version under the current key.
LEMMA RewrappedIsRow ==
    ASSUME NEW row \in HookRows, row.version < MaxVersion,
           NEW n \in Nodes, Current(n) \in {OldKey, NewKey}
    PROVE  UnderCurrent(n, row) \in HookRows /\ UnderCurrent(n, row).key = Current(n)
<1>1. row.version + 1 \in 1 .. MaxVersion
  BY SubscriptionsAssumption DEF HookRows
<1> QED
  BY <1>1 DEF UnderCurrent, HookRows

\* Every step keeps the roll-out sound, one action after the other.
LEMMA RollOutStep ==
    ASSUME RollOutInv, [SubscriptionsNext]_subscriptionsVars
    PROVE  RollOutInv'
<1> USE DEF OldKey, NewKey
<1>t. SubscriptionsTypeOK /\ RolledOut /\ KeysFit
  BY DEF RollOutInv
<1>h. /\ hook \in [Hooks -> HookRows \cup {NoHook("unused"), NoHook("purged")}]
      /\ setting \in [Nodes -> Settings] /\ job \in [Nodes -> Jobs]
  BY <1>t DEF SubscriptionsTypeOK
<1>f. \A n, m \in Nodes : /\ Current(n) \in {OldKey, NewKey}
                          /\ Current(n) = NewKey => setting[m] >= 2
                          /\ Current(n) = OldKey => setting[m] <= 3
  BY <1>t, <1>h, CurrentFits
<1>a. \A h \in Hooks : Active(h) => hook[h] \in HookRows
  BY <1>h DEF Active, NoHook
<1>n. NoJob \in Jobs /\ NoJob.pc = "idle"
  BY DEF NoJob, Jobs
<1>1. ASSUME NEW n \in Nodes, Subscribe(n) PROVE RollOutInv'
  <2>1. SubscriptionsTypeOK'
    BY <1>t, <1>1, <1>f DEF Subscribe, MayCountRows, SubscriptionsTypeOK, Jobs, NoJob
  <2>2. RolledOut' /\ KeysFit'
    BY <1>t, <1>1, <1>h DEF Subscribe, RolledOut, KeysFit, Active, Current, NoJob, Jobs
  <2> QED
    BY <2>1, <2>2 DEF RollOutInv
<1>2. ASSUME NEW n \in Nodes, NEW h \in Hooks, AddHook(n, h) PROVE RollOutInv'
  <2>1. job[n].key \in {OldKey, NewKey} /\ job[n].key = Current(n)
    BY <1>t, <1>2, <1>h DEF AddHook, KeysFit, Jobs
  <2>2. SubscriptionsTypeOK'
    BY <1>t, <1>2, <2>1, SubscriptionsAssumption DEF AddHook, SubscriptionsTypeOK, HookRows, NoHook, Jobs, NoJob
  <2>3. RolledOut'
    BY <1>t, <1>2 DEF AddHook, RolledOut
  <2>4. KeysFit'
    BY <1>t, <1>2, <1>h, <1>f, <2>1 DEF AddHook, KeysFit, Active, Current, NoJob
  <2> QED
    BY <2>2, <2>3, <2>4 DEF RollOutInv
<1>3. ASSUME NEW hooks \in SUBSET Hooks, Unsubscribe(hooks) PROVE RollOutInv'
  <2>1. \A h \in hooks : hook[h] \in HookRows /\ EndedRow(hook[h]) \in HookRows
    BY <1>3, <1>a, <1>t, EndedIsRow DEF Unsubscribe, SubscriptionsTypeOK
  <2>2. SubscriptionsTypeOK'
    BY <1>t, <1>3, <2>1 DEF Unsubscribe, SubscriptionsTypeOK
  <2>3. RolledOut'
    BY <1>t, <1>3 DEF Unsubscribe, RolledOut
  <2>4. \A h \in hooks : EndedRow(hook[h]).state = "ended"
    BY <1>3, <1>a, <1>t, EndedIsRow DEF Unsubscribe, SubscriptionsTypeOK
  <2>5. KeysFit'
    BY <1>t, <1>3, <1>h, <2>4 DEF Unsubscribe, KeysFit, Active, Current
  <2> QED
    BY <2>2, <2>3, <2>5 DEF RollOutInv
<1>4. ASSUME NEW n \in Nodes, Sweep(n) PROVE RollOutInv'
  <2> DEFINE old == {<<h, hook[h].version>> : h \in {g \in Hooks : Active(g) /\ hook[g].key # Current(n)}}
  <2>1. old \in SUBSET (Hooks \X (1 .. MaxVersion))
    BY <1>h DEF Active, HookRows, NoHook
  <2>2. SubscriptionsTypeOK'
    BY <1>t, <1>4, <2>1 DEF Sweep, SubscriptionsTypeOK, Jobs, NoJob
  <2>3. RolledOut' /\ KeysFit'
    BY <1>t, <1>4, <1>h DEF Sweep, RolledOut, KeysFit, Active, Current, NoJob, Jobs
  <2> QED
    BY <2>2, <2>3 DEF RollOutInv
<1>5. ASSUME NEW n \in Nodes, NEW h \in Hooks, NEW old \in 1 .. MaxVersion, Rewrap(n, h, old)
      PROVE  RollOutInv'
  <2>u. Active(h) /\ hook[h].version < MaxVersion =>
           /\ UnderCurrent(n, hook[h]) \in HookRows
           /\ UnderCurrent(n, hook[h]).key = Current(n)
    BY <1>a, <1>f, RewrappedIsRow
  <2>j. /\ [job[n] EXCEPT !.rows = @ \ {<<h, old>>}] \in Jobs
        /\ [job[n] EXCEPT !.rows = @ \ {<<h, old>>}].pc = job[n].pc
        /\ [job[n] EXCEPT !.rows = @ \ {<<h, old>>}].key = job[n].key
    BY <1>h DEF Jobs
  <2>m. /\ hook' \in [Hooks -> HookRows \cup {NoHook("unused"), NoHook("purged")}]
        /\ \A g \in Hooks : hook'[g] = hook[g] \/ (Active(g) /\ hook'[g].key = Current(n))
    BY <1>5, <1>h, <2>u DEF Rewrap, SameRow
  <2>k. /\ job' \in [Nodes -> Jobs]
        /\ \A m \in Nodes : job'[m].pc = "insert" => job'[m] = job[m]
        /\ job[n].pc = "rewrap"
    BY <1>5, <1>h, <1>n, <2>j DEF Rewrap
  <2>l. /\ UNCHANGED <<day, counting, setting>>
        /\ \A m \in Nodes \ {n} : job'[m] = job[m]
    BY <1>5, <1>h DEF Rewrap
  <2>1. SubscriptionsTypeOK'
    BY <1>t, <2>m, <2>k, <2>l DEF SubscriptionsTypeOK
  <2>2. RolledOut'
    BY <1>t, <1>5 DEF Rewrap, RolledOut
  <2>4. KeysFit'
    BY <1>t, <1>f, <2>m, <2>k, <2>l DEF KeysFit, Current, Active
  <2> QED
    BY <2>1, <2>2, <2>4 DEF RollOutInv
<1>6. ASSUME NEW n \in Nodes, PurgeHooks(n) PROVE RollOutInv'
  <2>1. SubscriptionsTypeOK'
    BY <1>t, <1>6 DEF PurgeHooks, SubscriptionsTypeOK, Jobs, NoJob
  <2>2. RolledOut' /\ KeysFit'
    BY <1>t, <1>6, <1>h DEF PurgeHooks, RolledOut, KeysFit, Active, Current, NoJob, NoHook, Jobs
  <2> QED
    BY <2>1, <2>2 DEF RollOutInv
<1>7. ASSUME NEW n \in Nodes, Restart(n) PROVE RollOutInv'
  <2>0. PICK s \in {setting[n], setting[n] + 1} \cap Settings :
           (s # setting[n] => MayUse(s)) /\ setting' = [setting EXCEPT ![n] = s]
    BY <1>7 DEF Restart
  <2>i. \A m \in Nodes : setting[m] \in 1 .. 4
    BY <1>h DEF Settings
  <2>j. job' \in [Nodes -> Jobs] /\ \A m \in Nodes \ {n} : job'[m] = job[m]
    BY <1>7, <1>h, <1>n DEF Restart
  <2>1. SubscriptionsTypeOK'
    BY <1>t, <1>7, <1>h, <2>0, <2>j, SubscriptionsAssumption DEF Restart, SubscriptionsTypeOK
  <2>2. RolledOut'
    BY <1>t, <1>h, <2>0, <2>i DEF RolledOut, MayUse, Settings
  <2>3. \A m \in Nodes : job'[m].pc = "insert" => m # n /\ job[m] = job'[m]
    BY <1>7, <1>h DEF Restart, NoJob
  <2>4. \A h \in Hooks : Active(h)' => Active(h) /\ hook'[h] = hook[h]
    BY <1>7 DEF Restart, Active
  <2>5. KeysFit'
    BY <1>t, <1>h, <2>0, <2>i, <2>3, <2>4 DEF KeysFit, Current, MayUse, Settings
  <2> QED
    BY <2>1, <2>2, <2>5 DEF RollOutInv
<1>8. CASE NextDay
  BY <1>t, <1>8, SubscriptionsAssumption DEF NextDay, RollOutInv, SubscriptionsTypeOK, RolledOut, KeysFit, Active, Current
<1>9. CASE UNCHANGED subscriptionsVars
  BY <1>t, <1>9 DEF subscriptionsVars, RollOutInv, SubscriptionsTypeOK, RolledOut, KeysFit, Active, Current
<1>10. {h \in Hooks : Active(h)} \in SUBSET Hooks /\ \A h \in Hooks : {h} \in SUBSET Hooks
  OBVIOUS
<1> QED
  BY <1>1, <1>2, <1>3, <1>4, <1>5, <1>6, <1>7, <1>8, <1>9, <1>10 DEF SubscriptionsNext

\* While keys are rolled out one setting after the other, every process can read every
\* active subscription, whatever sweeps and insertions of older settings are in flight.
THEOREM ReadableForAll == SubscriptionsSpec => []EveryoneCanRead
<1>1. SubscriptionsInit => RollOutInv
  BY RollOutInit
<1>2. RollOutInv /\ [SubscriptionsNext]_subscriptionsVars => RollOutInv'
  BY RollOutStep
<1>3. RollOutInv => EveryoneCanRead
  BY FitsIsKnown
<1> QED
  BY <1>1, <1>2, <1>3, PTL DEF SubscriptionsSpec

\* A sweep that read a subscription before it ended does not bring it back, and a purge
\* waits for its retention.
THEOREM EndedForGood == SubscriptionsSpec => EndedStaysEnded
<1> DEFINE Stays(h) == \/ hook'[h] = hook[h]
                       \/ hook'[h].state = "purged" /\ hook[h].ended + KeepEnded <= day
<1>1. RollOutInv /\ [SubscriptionsNext]_subscriptionsVars => \A h \in Hooks : Ended(h) => Stays(h)
  <2> SUFFICES ASSUME RollOutInv, [SubscriptionsNext]_subscriptionsVars, NEW h \in Hooks, Ended(h)
               PROVE  Stays(h)
    OBVIOUS
  <2>h. hook \in [Hooks -> HookRows \cup {NoHook("unused"), NoHook("purged")}]
    BY DEF RollOutInv, SubscriptionsTypeOK
  <2>1. ASSUME NEW hooks, Unsubscribe(hooks) PROVE Stays(h)
    BY <2>1 DEF Unsubscribe, Active, Ended
  <2>2. ASSUME NEW n \in Nodes, NEW g \in Hooks, AddHook(n, g) PROVE Stays(h)
    BY <2>2, <2>h DEF AddHook, Ended
  <2>3. ASSUME NEW n \in Nodes, NEW g \in Hooks, NEW old \in 1 .. MaxVersion, Rewrap(n, g, old)
        PROVE  Stays(h)
    BY <2>3, <2>h DEF Rewrap, SameRow, Active, Ended
  <2>4. ASSUME NEW n \in Nodes, PurgeHooks(n) PROVE Stays(h)
    BY <2>4 DEF PurgeHooks, Purges, NoHook
  <2>5. ASSUME NEW n \in Nodes, Subscribe(n) \/ Sweep(n) \/ Restart(n) PROVE Stays(h)
    BY <2>5 DEF Subscribe, Sweep, Restart
  <2>6. CASE NextDay \/ UNCHANGED subscriptionsVars
    BY <2>6 DEF NextDay, subscriptionsVars
  <2> QED
    BY <2>1, <2>2, <2>3, <2>4, <2>5, <2>6 DEF SubscriptionsNext
<1>2. SubscriptionsInit => RollOutInv
  BY RollOutInit
<1>3. RollOutInv /\ [SubscriptionsNext]_subscriptionsVars => RollOutInv'
  BY RollOutStep
<1> QED
  BY <1>1, <1>2, <1>3, PTL DEF SubscriptionsSpec, EndedStaysEnded
----------------------------------------------------------------------------
(* Tokens and keys *)

\* Nothing has happened later than now.
NothingLater ==
    /\ revoked <= second /\ introspected.at <= second
    /\ \A c \in Checks : check[c].at <= second
    /\ \A t \in forced : t <= second

\* An answer that the token is good was given before the revocation, and what is cached
\* or was accepted cannot be much younger.
AnswersAge ==
    /\ \A c \in Checks : check[c].pc = "asked" /\ check[c].active /\ revoked # Never =>
          check[c].at <= revoked
    /\ introspected.active /\ revoked # Never => introspected.at <= revoked + Trip

\* A request that met an unknown key has seen cached keys, and so has one that verifies.
KeysSeen ==
    \A c \in Checks : check[c].pc = "verify" \/ check[c].unknown => Cached

GatewayInv ==
    GatewayTypeOK /\ NothingLater /\ AnswersAge /\ KeysSeen /\ RevokedTokensEnd /\ FetchesAreRare

\* Nothing was asked, cached or fetched.
LEMMA GatewayStart == ASSUME GatewayInit PROVE GatewayInv
<1>1. GatewayTypeOK
  BY GatewayAssumption DEF GatewayInit, GatewayTypeOK, NewCheck, ChecksDone, Stages, Seconds, Never
<1>2. NothingLater /\ AnswersAge /\ KeysSeen /\ RevokedTokensEnd /\ FetchesAreRare
  BY <1>1 DEF GatewayInit, NothingLater, AnswersAge, KeysSeen, RevokedTokensEnd, FetchesAreRare,
     NewCheck, Never
<1> QED
  BY <1>1, <1>2 DEF GatewayInv

\* Every step keeps them.
LEMMA GatewayStep ==
    ASSUME GatewayInv, [GatewayNext]_gatewayVars
    PROVE  GatewayInv'
<1> USE DEF Never
<1>i. /\ GatewayTypeOK /\ NothingLater /\ AnswersAge /\ KeysSeen
      /\ RevokedTokensEnd /\ FetchesAreRare
  BY DEF GatewayInv
<1>t. /\ second \in Nat /\ second \in Seconds /\ revoked \in Int /\ introspected.at \in Int
      /\ check \in [Checks -> ChecksDone] /\ \A c \in Checks : check[c].at \in Nat
      /\ \A s \in forced : s \in Nat
  BY <1>i, GatewayAssumption DEF GatewayTypeOK, Seconds, ChecksDone
<1>n. NewCheck \in ChecksDone /\ NewCheck.pc = "idle" /\ NewCheck.at = 0 /\ ~NewCheck.unknown
  BY GatewayAssumption DEF NewCheck, ChecksDone, Stages, Seconds
<1>1. ASSUME NEW c \in Checks, NEW key \in KeyNumbers \cup {0}, Present(c, key) PROVE GatewayInv'
  <2> DEFINE begun == [NewCheck EXCEPT !.pc = IF FreshKeys THEN "verify" ELSE "wait", !.key = key]
  <2>1. /\ begun \in ChecksDone /\ begun.at = 0 /\ ~begun.unknown
        /\ begun.pc \in {"verify", "wait"} /\ (begun.pc = "verify" => Cached)
    BY <1>n DEF NewCheck, ChecksDone, Stages, FreshKeys
  <2>2. check' = [check EXCEPT ![c] = begun]
        /\ UNCHANGED <<second, accountsSide, keys, forced, fetching, introspected>>
        /\ check[c].pc \in {"idle", "accepted"}
    BY <1>1 DEF Present
  <2> HIDE DEF begun
  <2>3. GatewayTypeOK'
    BY <1>i, <1>t, <2>1, <2>2 DEF GatewayTypeOK, accountsSide
  <2>4. NothingLater' /\ AnswersAge' /\ KeysSeen' /\ RevokedTokensEnd' /\ FetchesAreRare'
    BY <1>i, <1>t, <2>1, <2>2 DEF NothingLater, AnswersAge, KeysSeen, RevokedTokensEnd,
       FetchesAreRare, accountsSide, Cached
  <2> QED
    BY <2>3, <2>4 DEF GatewayInv
<1>2. ASSUME NEW c \in Checks, TakeMutex(c) PROVE GatewayInv'
  <2> DEFINE moved(pc) == [check[c] EXCEPT !.pc = pc]
  <2>1. \A pc \in {"verify", "fetch"} :
           /\ moved(pc) \in ChecksDone /\ moved(pc).pc = pc /\ moved(pc).at = check[c].at
           /\ moved(pc).unknown = check[c].unknown
    BY <1>t DEF ChecksDone, Stages
  <2>2. /\ UNCHANGED <<second, accountsSide, keys, introspected>> /\ check[c].pc = "wait"
        /\ fetching = NoCheck
        /\ \/ Enough(c) /\ check' = [check EXCEPT ![c] = moved("verify")] /\ UNCHANGED <<forced, fetching>>
           \/ /\ ~Enough(c) /\ check' = [check EXCEPT ![c] = moved("fetch")] /\ fetching' = c
              /\ forced' = IF check[c].unknown THEN forced \cup {second} ELSE forced
    BY <1>2 DEF TakeMutex, Step
  <2> HIDE DEF moved
  <2>m. \A d \in Checks : (fetching' = d) = (check'[d].pc = "fetch")
    <3>1. \A d \in Checks : check[d].pc # "fetch"
      BY <1>i, <2>2, GatewayAssumption DEF GatewayTypeOK
    <3>2. CASE Enough(c)
      BY <1>t, <2>1, <2>2, <3>1, <3>2, GatewayAssumption
    <3>3. CASE ~Enough(c)
      BY <1>t, <2>1, <2>2, <3>1, <3>3
    <3> QED
      BY <3>2, <3>3
  <2>n. fetching' \in Checks \cup {NoCheck} /\ check' \in [Checks -> ChecksDone]
    BY <1>i, <1>t, <2>1, <2>2 DEF GatewayTypeOK
  <2>o. forced' \subseteq Seconds
    <3>1. forced' \in {forced, forced \cup {second}}
      BY <2>2
    <3> QED
      BY <1>i, <1>t, <3>1 DEF GatewayTypeOK
  <2>3. GatewayTypeOK'
    BY <1>i, <2>2, <2>m, <2>n, <2>o DEF GatewayTypeOK, accountsSide
  <2>4. NothingLater' /\ AnswersAge' /\ KeysSeen' /\ RevokedTokensEnd'
    BY <1>i, <1>t, <2>1, <2>2 DEF NothingLater, AnswersAge, KeysSeen, RevokedTokensEnd,
       accountsSide, Cached, Enough
  <2>5. ~Enough(c) /\ check[c].unknown => \A t \in forced : second - t >= Interval
    BY <1>i, <1>t, GatewayAssumption DEF Enough, KeysSeen, ForcedRecently
  <2>6. FetchesAreRare'
    BY <1>i, <1>t, <2>2, <2>5 DEF FetchesAreRare, NothingLater
  <2> QED
    BY <2>3, <2>4, <2>6 DEF GatewayInv
<1>3. ASSUME NEW c \in Checks, Fetched(c) PROVE GatewayInv'
  <2> DEFINE moved == [check[c] EXCEPT !.pc = "verify"]
  <2>1. /\ moved \in ChecksDone /\ moved.pc = "verify" /\ moved.at = check[c].at
        /\ moved.unknown = check[c].unknown
    BY <1>t DEF ChecksDone, Stages
  <2>2. /\ UNCHANGED <<second, accountsSide, forced, introspected>> /\ check[c].pc = "fetch"
        /\ fetching' = NoCheck
        /\ \/ /\ check' = [check EXCEPT ![c] = moved]
              /\ \/ keys' = [newest |-> published, at |-> second]
                 \/ Cached /\ UNCHANGED keys
           \/ ~Cached /\ check' = [check EXCEPT ![c] = NewCheck] /\ UNCHANGED keys
    BY <1>3 DEF Fetched, Step, Reject
  <2> HIDE DEF moved
  <2>3. fetching = c /\ \A d \in Checks \ {c} : check[d].pc # "fetch"
    BY <1>i, <2>2 DEF GatewayTypeOK
  <2>4. published \in KeyNumbers /\ published # 0
    BY <1>i, GatewayAssumption DEF GatewayTypeOK
  <2>m. \A d \in Checks : (fetching' = d) = (check'[d].pc = "fetch")
    BY <1>t, <1>n, <2>1, <2>2, <2>3, GatewayAssumption
  <2>n. keys' \in [newest : KeyNumbers \cup {0}, at : Seconds] /\ check' \in [Checks -> ChecksDone]
    BY <1>i, <1>t, <1>n, <2>1, <2>2, <2>4 DEF GatewayTypeOK
  <2>5. GatewayTypeOK'
    BY <1>i, <2>2, <2>m, <2>n DEF GatewayTypeOK, accountsSide
  <2>6. KeysSeen'
    BY <1>i, <1>t, <1>n, <2>1, <2>2, <2>4 DEF KeysSeen, Cached
  <2>c. \A d \in Checks : \/ check'[d] = check[d]
                          \/ /\ check'[d].pc \in {"verify", "idle"}
                             /\ check'[d].at \in {check[c].at, 0}
    BY <1>t, <1>n, <2>1, <2>2
  <2>7. NothingLater'
    BY <1>i, <1>t, <2>2, <2>c DEF NothingLater, accountsSide
  <2>8. AnswersAge' /\ RevokedTokensEnd' /\ FetchesAreRare'
    BY <1>i, <1>t, <2>2, <2>c DEF AnswersAge, RevokedTokensEnd, FetchesAreRare, accountsSide
  <2> QED
    BY <2>5, <2>6, <2>7, <2>8 DEF GatewayInv
<1>4. ASSUME NEW c \in Checks, Verify(c) PROVE GatewayInv'
  <2> DEFINE asking == [check[c] EXCEPT !.pc = "ask"]
             again == [check[c] EXCEPT !.pc = "wait", !.unknown = TRUE]
  <2>1. /\ asking \in ChecksDone /\ asking.pc = "ask" /\ asking.at = check[c].at
        /\ asking.unknown = check[c].unknown
        /\ again \in ChecksDone /\ again.pc = "wait" /\ again.at = check[c].at
    BY <1>t DEF ChecksDone, Stages
  <2>2. /\ UNCHANGED <<second, accountsSide, keys, forced, fetching, introspected>>
        /\ check[c].pc = "verify"
        /\ \E stage \in {asking, again, NewCheck} : check' = [check EXCEPT ![c] = stage]
    BY <1>4, <1>t DEF Verify, Step, Reject
  <2> HIDE DEF asking, again
  <2>3. GatewayTypeOK'
    BY <1>i, <1>t, <1>n, <2>1, <2>2 DEF GatewayTypeOK, accountsSide
  <2>4. KeysSeen'
    BY <1>i, <1>t, <1>n, <2>1, <2>2 DEF KeysSeen, Cached
  <2>5. NothingLater' /\ AnswersAge' /\ RevokedTokensEnd' /\ FetchesAreRare'
    BY <1>i, <1>t, <1>n, <2>1, <2>2 DEF NothingLater, AnswersAge, RevokedTokensEnd,
       FetchesAreRare, accountsSide
  <2> QED
    BY <2>3, <2>4, <2>5 DEF GatewayInv
<1>d. ASSUME NEW c \in Checks, NEW active \in BOOLEAN, Decide(c, active)
      PROVE  \E done \in ChecksDone :
                /\ check' = [check EXCEPT ![c] = done]
                /\ done.pc = (IF active THEN "accepted" ELSE "idle")
                /\ done.at = (IF active THEN second ELSE 0) /\ ~done.unknown
  <2> DEFINE accepted == [NewCheck EXCEPT !.pc = "accepted", !.at = second]
  <2>1. /\ accepted \in ChecksDone /\ accepted.pc = "accepted" /\ accepted.at = second
        /\ ~accepted.unknown
    BY <1>t, <1>n DEF NewCheck, ChecksDone, Stages
  <2>2. check' = [check EXCEPT ![c] = IF active THEN accepted ELSE NewCheck]
    BY <1>d DEF Decide
  <2> HIDE DEF accepted
  <2> QED
    BY <1>n, <2>1, <2>2
<1>5. ASSUME NEW c \in Checks, Introspect(c) PROVE GatewayInv'
  <2>1. check[c].pc = "ask" /\ UNCHANGED <<second, accountsSide, keys, forced, fetching, introspected>>
    BY <1>5 DEF Introspect
  <2>2. CASE Reusable /\ Decide(c, introspected.active)
    <3>1. PICK done \in ChecksDone :
             /\ check' = [check EXCEPT ![c] = done]
             /\ done.pc = (IF introspected.active THEN "accepted" ELSE "idle")
             /\ done.at = (IF introspected.active THEN second ELSE 0) /\ ~done.unknown
      BY <1>d, <1>i, <2>2 DEF GatewayTypeOK
    <3>2. introspected.active /\ revoked # Never => second < revoked + Reuse + Trip
      BY <1>i, <1>t, <2>2, GatewayAssumption DEF Reusable, AnswersAge
    <3>3. GatewayTypeOK'
      BY <1>i, <1>t, <2>1, <3>1 DEF GatewayTypeOK, accountsSide
    <3>4. NothingLater' /\ AnswersAge' /\ KeysSeen' /\ FetchesAreRare'
      BY <1>i, <1>t, <2>1, <3>1 DEF NothingLater, AnswersAge, KeysSeen, Cached, FetchesAreRare, accountsSide
    <3>5. RevokedTokensEnd'
      BY <1>i, <1>t, <2>1, <3>1, <3>2 DEF RevokedTokensEnd, accountsSide
    <3> QED
      BY <3>3, <3>4, <3>5 DEF GatewayInv
  <2>3. CASE check' = [check EXCEPT ![c].pc = "asked", ![c].at = second, ![c].active = revoked = Never]
    <3> DEFINE asked == [check[c] EXCEPT !.pc = "asked", !.at = second, !.active = (revoked = Never)]
    <3>1. /\ asked \in ChecksDone /\ asked.pc = "asked" /\ asked.at = second
          /\ asked.unknown = check[c].unknown
      BY <1>t DEF ChecksDone, Stages
    <3>a. asked.active => revoked = Never
      BY <1>t DEF ChecksDone
    <3>2. check' = [check EXCEPT ![c] = asked]
      BY <2>3, <1>t
    <3> HIDE DEF asked
    <3>3. GatewayTypeOK'
      BY <1>i, <1>t, <2>1, <3>1, <3>2 DEF GatewayTypeOK, accountsSide
    <3>4. NothingLater' /\ KeysSeen' /\ FetchesAreRare' /\ RevokedTokensEnd'
      BY <1>i, <1>t, <2>1, <3>1, <3>2 DEF NothingLater, KeysSeen, Cached, FetchesAreRare,
         RevokedTokensEnd, accountsSide
    <3>5. AnswersAge'
      BY <1>i, <1>t, <2>1, <3>1, <3>a, <3>2 DEF AnswersAge, accountsSide
    <3> QED
      BY <3>3, <3>4, <3>5 DEF GatewayInv
  <2> QED
    BY <1>5, <2>2, <2>3 DEF Introspect
<1>6. ASSUME NEW c \in Checks, Answered(c) PROVE GatewayInv'
  <2>1. /\ check[c].pc = "asked" /\ second - check[c].at <= Trip
        /\ introspected' = [active |-> check[c].active, at |-> second]
        /\ UNCHANGED <<second, accountsSide, keys, forced, fetching>>
    BY <1>6 DEF Answered
  <2>2. check[c].active \in BOOLEAN
    BY <1>t DEF ChecksDone
  <2>3. PICK done \in ChecksDone :
           /\ check' = [check EXCEPT ![c] = done]
           /\ done.pc = (IF check[c].active THEN "accepted" ELSE "idle")
           /\ done.at = (IF check[c].active THEN second ELSE 0) /\ ~done.unknown
    BY <1>6, <1>d, <2>2 DEF Answered
  <2>4. check[c].active /\ revoked # Never => second <= revoked + Trip
    BY <1>i, <1>t, <2>1, GatewayAssumption DEF AnswersAge
  <2>5. GatewayTypeOK'
    BY <1>i, <1>t, <2>1, <2>2, <2>3 DEF GatewayTypeOK, accountsSide
  <2>6. NothingLater' /\ KeysSeen' /\ FetchesAreRare'
    BY <1>i, <1>t, <2>1, <2>3 DEF NothingLater, KeysSeen, Cached, FetchesAreRare, accountsSide
  <2>7. AnswersAge' /\ RevokedTokensEnd'
    BY <1>i, <1>t, <2>1, <2>3, <2>4, GatewayAssumption DEF AnswersAge, RevokedTokensEnd, accountsSide
  <2> QED
    BY <2>5, <2>6, <2>7 DEF GatewayInv
<1>7. ASSUME NEW c \in Checks, Unanswered(c) PROVE GatewayInv'
  <2>1. /\ check[c].pc = "asked" /\ check' = [check EXCEPT ![c] = NewCheck]
        /\ UNCHANGED <<second, accountsSide, keys, forced, fetching, introspected>>
    BY <1>7 DEF Unanswered, Reject
  <2>2. GatewayTypeOK'
    BY <1>i, <1>t, <1>n, <2>1 DEF GatewayTypeOK, accountsSide
  <2>3. NothingLater' /\ AnswersAge' /\ KeysSeen' /\ FetchesAreRare' /\ RevokedTokensEnd'
    BY <1>i, <1>t, <1>n, <2>1 DEF NothingLater, AnswersAge, KeysSeen, Cached, FetchesAreRare,
       RevokedTokensEnd, accountsSide
  <2> QED
    BY <2>2, <2>3 DEF GatewayInv
<1>8. CASE Revoke
  <2>1. GatewayTypeOK'
    BY <1>i, <1>t, <1>8 DEF Revoke, GatewayTypeOK
  <2>2. NothingLater' /\ KeysSeen' /\ FetchesAreRare'
    BY <1>i, <1>t, <1>8 DEF Revoke, NothingLater, KeysSeen, Cached, FetchesAreRare
  <2>3. AnswersAge' /\ RevokedTokensEnd'
    BY <1>i, <1>t, <1>8, GatewayAssumption DEF Revoke, NothingLater, AnswersAge, RevokedTokensEnd
  <2> QED
    BY <2>1, <2>2, <2>3 DEF GatewayInv
<1>9. CASE Publish \/ NextSecond \/ UNCHANGED gatewayVars
  <2>1. /\ UNCHANGED <<revoked, keys, forced, fetching, introspected, check>>
        /\ second' \in Seconds /\ second <= second'
        /\ published' \in KeyNumbers
    BY <1>i, <1>t, <1>9, GatewayAssumption
       DEF Publish, NextSecond, gatewayVars, accountsSide, Seconds, GatewayTypeOK
  <2>2. GatewayTypeOK'
    BY <1>i, <2>1 DEF GatewayTypeOK, Seconds
  <2>3. NothingLater' /\ AnswersAge' /\ KeysSeen' /\ FetchesAreRare' /\ RevokedTokensEnd'
    BY <1>i, <1>t, <2>1, GatewayAssumption DEF NothingLater, AnswersAge, KeysSeen, Cached, FetchesAreRare,
       RevokedTokensEnd, Seconds
  <2> QED
    BY <2>2, <2>3 DEF GatewayInv
<1> QED
  BY <1>1, <1>2, <1>3, <1>4, <1>5, <1>6, <1>7, <1>8, <1>9 DEF GatewayNext

\* A revoked token is refused once a cached answer and one request to Silicon Accounts
\* have passed, however many requests ask at once and whatever answers overtake each other.
THEOREM RevokedIsRefused == GatewaySpec => []RevokedTokensEnd
<1>1. GatewayInit => GatewayInv
  BY GatewayStart
<1>2. GatewayInv /\ [GatewayNext]_gatewayVars => GatewayInv'
  BY GatewayStep
<1>3. GatewayInv => RevokedTokensEnd
  BY DEF GatewayInv
<1> QED
  BY <1>1, <1>2, <1>3, PTL DEF GatewaySpec

\* However many tokens with unknown keys come at once, two fetches for them are at least
\* Interval apart.
THEOREM FetchesRare == GatewaySpec => []FetchesAreRare
<1>1. GatewayInit => GatewayInv
  BY GatewayStart
<1>2. GatewayInv /\ [GatewayNext]_gatewayVars => GatewayInv'
  BY GatewayStep
<1>3. GatewayInv => FetchesAreRare
  BY DEF GatewayInv
<1> QED
  BY <1>1, <1>2, <1>3, PTL DEF GatewaySpec
----------------------------------------------------------------------------
(* Links *)

\* The lock is held from the validation of a file to the commit, and the file stays valid
\* meanwhile.
LinkingInv ==
    /\ run \in [Operators -> RunSteps \cup {NoRun}]
    /\ linking \in Operators \cup {NoOperator}
    /\ \A o \in Operators : (linking = o) = (run[o].pc = "commit")
    /\ \A o \in Operators : run[o].pc = "commit" => ValidateMappings(run[o].file)
    /\ NeverMerged

\* In a valid file one line speaks of a principal, if any.
LEMMA OneLine ==
    ASSUME NEW f \in Files, ValidateMappings(f), NEW p \in Principals, Lines(f, p) # {}
    PROVE  \E i \in 1 .. Len(f) : PrincipalOf[f[i].spelling] = p /\ Mapped(f, p) = f[i].account
<1> DEFINE Last(i) == \A j \in Lines(f, p) : j <= i
<1>1. PICK i \in Lines(f, p) : TRUE
  OBVIOUS
<1>2. i \in 1 .. Len(f) /\ PrincipalOf[f[i].spelling] = p
  BY <1>1 DEF Lines
<1>3. \A j \in Lines(f, p) : j = i
  BY <1>2 DEF ValidateMappings, Lines, Same
<1>4. Last(i)
  BY <1>1, <1>2, <1>3 DEF Lines
<1>5. (CHOOSE k \in Lines(f, p) : Last(k)) = i
  <2>1. \E k \in Lines(f, p) : Last(k)
    BY <1>1, <1>4
  <2>2. (CHOOSE k \in Lines(f, p) : Last(k)) \in Lines(f, p)
    BY <2>1
  <2> QED
    BY <1>3, <2>2
<1> QED
  BY <1>2, <1>5 DEF Mapped

\* A valid file leaves no two principals with one account.
LEMMA CommitKeepsApart ==
    ASSUME NEW f \in Files, ValidateMappings(f), NeverMerged,
           NEW p \in Principals, NEW q \in Principals, p # q,
           ApplyEntries(f)[p] = ApplyEntries(f)[q]
    PROVE  ApplyEntries(f)[p] = Unlinked
<1> SUFFICES ASSUME ApplyEntries(f)[p] # Unlinked PROVE FALSE
  OBVIOUS
<1> DEFINE said(r) == IF Lines(f, r) = {} THEN link[r] ELSE Mapped(f, r)
<1>1. ApplyEntries(f)[p] = said(p) /\ ApplyEntries(f)[q] = said(q)
  BY DEF ApplyEntries
<1>2. CASE Lines(f, p) = {} /\ Lines(f, q) = {}
  BY <1>1, <1>2 DEF NeverMerged
<1>3. \A r, t \in Principals :
         r # t /\ Lines(f, r) # {} /\ Lines(f, t) = {} /\ Mapped(f, r) # Unlinked => Mapped(f, r) # link[t]
  <2> SUFFICES ASSUME NEW r \in Principals, NEW t \in Principals, r # t, Lines(f, r) # {},
                      Mapped(f, r) # Unlinked, Mapped(f, r) = link[t]
               PROVE  FALSE
    OBVIOUS
  <2>1. PICK i \in 1 .. Len(f) : PrincipalOf[f[i].spelling] = r /\ Mapped(f, r) = f[i].account
    BY OneLine
  <2>2. Taken(f[i])
    BY <2>1 DEF Taken
  <2> QED
    BY <2>1, <2>2 DEF ValidateMappings
<1>4. CASE Lines(f, p) # {} /\ Lines(f, q) # {}
  <2>1. PICK i \in 1 .. Len(f) : PrincipalOf[f[i].spelling] = p /\ Mapped(f, p) = f[i].account
    BY <1>4, OneLine
  <2>2. PICK j \in 1 .. Len(f) : PrincipalOf[f[j].spelling] = q /\ Mapped(f, q) = f[j].account
    BY <1>4, OneLine
  <2>3. i # j /\ Assigns(f[i], f[j])
    BY <1>1, <1>4, <2>1, <2>2 DEF Assigns
  <2> QED
    BY <2>3 DEF ValidateMappings
<1> QED
  BY <1>1, <1>2, <1>3, <1>4

\* Nobody has begun.
LEMMA LinkingStart == ASSUME LinksInit PROVE LinkingInv
BY LinksAssumption DEF LinksInit, LinkingInv, NeverMerged, NoRun

\* Every step of a run, an operator's or a worker's, keeps them.
LEMMA LinkingStep ==
    ASSUME LinkingInv, [LinksNext]_linksVars
    PROVE  LinkingInv'
<1>t. /\ run \in [Operators -> RunSteps \cup {NoRun}]
      /\ linking \in Operators \cup {NoOperator}
      /\ \A o \in Operators : (linking = o) = (run[o].pc = "commit")
  BY DEF LinkingInv
<1>v. \A o \in Operators : run[o].pc = "commit" => ValidateMappings(run[o].file)
  BY DEF LinkingInv
<1>m. NeverMerged
  BY DEF LinkingInv
<1>r. \A o \in Operators : Working(o) => run[o] \in RunSteps
  BY <1>t DEF Working, NoRun
<1>s. ASSUME NEW o \in Operators, NEW next \in RunSteps \cup {NoRun}, run' = [run EXCEPT ![o] = next],
             UNCHANGED link, linking' \in Operators \cup {NoOperator},
             (linking' = o) = (next.pc = "commit"),
             next.pc = "commit" => ValidateMappings(next.file),
             \A p \in Operators \ {o} : linking' = p <=> linking = p
      PROVE  LinkingInv'
  <2>1. run' \in [Operators -> RunSteps \cup {NoRun}]
    BY <1>t, <1>s
  <2>2. \A p \in Operators : (linking' = p) = (run'[p].pc = "commit")
    <3>1. \A p \in Operators \ {o} : run'[p] = run[p]
      BY <1>t, <1>s
    <3>2. run'[o] = next
      BY <1>t, <1>s
    <3> QED
      BY <1>t, <1>s, <3>1, <3>2
  <2>4. link' = link /\ \A p \in Operators : run'[p] = run[p] \/ run'[p] = next
    BY <1>s, <1>t
  <2>5. (\A p \in Operators : run[p].pc = "commit" => ValidateMappings(run[p].file))'
    BY <1>s, <1>v, <2>4 DEF ValidateMappings, Taken
  <2>6. NeverMerged'
    BY <1>m, <1>s DEF NeverMerged
  <2> QED
    BY <1>s, <2>1, <2>2, <2>5, <2>6 DEF LinkingInv
<1>1. ASSUME NEW o \in Operators, NEW f \in Files, BeginRun(o, f) PROVE LinkingInv'
  <2> DEFINE next == [pc |-> "lock", file |-> f, applied |-> {}]
  <2>1. next \in RunSteps /\ next.pc = "lock"
    BY DEF RunSteps
  <2>2. ~Working(o) /\ run' = [run EXCEPT ![o] = next] /\ UNCHANGED <<link, linking>>
    BY <1>1 DEF BeginRun
  <2>3. linking # o
    BY <1>t, <2>2 DEF Working
  <2> HIDE DEF next
  <2> QED
    BY <1>s, <1>t, <2>1, <2>2, <2>3
<1>2. ASSUME NEW o \in Operators, Validate(o) PROVE LinkingInv'
  <2> DEFINE next == [run[o] EXCEPT !.pc = "commit"]
  <2>1. /\ run[o].pc = "lock" /\ linking = NoOperator /\ linking' = o
        /\ ValidateMappings(run[o].file) /\ run' = [run EXCEPT ![o] = next] /\ UNCHANGED link
    BY <1>2 DEF Validate, MayLink
  <2>2. next \in RunSteps /\ next.pc = "commit" /\ next.file = run[o].file
    BY <1>r, <2>1 DEF Working, RunSteps
  <2> HIDE DEF next
  <2> QED
    BY <1>s, <1>t, <2>1, <2>2, LinksAssumption
<1>3. ASSUME NEW o \in Operators, CommitLinks(o) PROVE LinkingInv'
  <2> DEFINE f == run[o].file
             next == [run[o] EXCEPT !.pc = "tests", !.applied = Applied(f)]
  <2>1. /\ run[o].pc = "commit" /\ link' = ApplyEntries(f) /\ linking' = NoOperator
        /\ run' = [run EXCEPT ![o] = next]
    BY <1>3, <1>t DEF CommitLinks
  <2>2. next \in RunSteps /\ next.pc = "tests" /\ f \in Files
    BY <1>r, <2>1 DEF Working, RunSteps, Applied
  <2>3. ValidateMappings(f)
    BY <1>v, <2>1
  <2> HIDE DEF f, next
  <2>4. run' \in [Operators -> RunSteps \cup {NoRun}]
    BY <1>t, <2>1, <2>2
  <2>5. \A p \in Operators : run'[p].pc # "commit" /\ linking' # p
    BY <1>t, <2>1, <2>2, LinksAssumption
  <2>6. NeverMerged'
    BY <1>m, <2>1, <2>2, <2>3, CommitKeepsApart DEF NeverMerged
  <2> QED
    BY <2>1, <2>4, <2>5, <2>6 DEF LinkingInv
<1>4. ASSUME NEW o \in Operators, LinkTestEnvironments(o) PROVE LinkingInv'
  <2> DEFINE next == [run[o] EXCEPT !.pc = "done"]
  <2>1. run[o].pc = "tests" /\ run' = [run EXCEPT ![o] = next] /\ UNCHANGED <<link, linking>>
    BY <1>4 DEF LinkTestEnvironments
  <2>2. next \in RunSteps /\ next.pc = "done" /\ linking # o
    BY <1>r, <1>t, <2>1 DEF Working, RunSteps
  <2> HIDE DEF next
  <2> QED
    BY <1>s, <1>t, <2>1, <2>2
<1>5. ASSUME NEW o \in Operators, RollBack(o) PROVE LinkingInv'
  <2>1. /\ run' = [run EXCEPT ![o] = NoRun] /\ UNCHANGED link
        /\ linking' = IF linking = o THEN NoOperator ELSE linking
    BY <1>5 DEF RollBack
  <2>2. NoRun.pc # "commit" /\ linking' # o
    BY <2>1, LinksAssumption DEF NoRun
  <2> QED
    BY <1>s, <1>t, <2>1, <2>2, LinksAssumption
<1>6. ASSUME NEW w \in Drainers, BeginDrain(w) \/ DrainExecutions(w) \/ EndDrain(w) PROVE UNCHANGED <<link, linking, run>>
  BY <1>6 DEF BeginDrain, DrainExecutions, EndDrain
<1>7. CASE UNCHANGED <<link, linking, run>>
  <2>1. \A g : ValidateMappings(g) => ValidateMappings(g)'
    BY <1>7 DEF ValidateMappings, Taken
  <2> QED
    BY <1>t, <1>v, <1>m, <1>7, <2>1 DEF LinkingInv, NeverMerged
<1> QED
  BY <1>1, <1>2, <1>3, <1>4, <1>5, <1>6, <1>7 DEF LinksNext, linksVars

\* Whatever files are run at once and after one another, and whichever of them fail, no two
\* principals have one account.
THEOREM LinksStayApart == LinksSpec => []NeverMerged
<1>1. LinksInit => LinkingInv
  BY LinkingStart
<1>2. LinkingInv /\ [LinksNext]_linksVars => LinkingInv'
  BY LinkingStep
<1>3. LinkingInv => NeverMerged
  BY DEF LinkingInv
<1> QED
  BY <1>1, <1>2, <1>3, PTL DEF LinksSpec

\* In a file of one line for each principal, the last line is the only one.
OneLineEach(f) == \A i, j \in 1 .. Len(f) : i # j => ~Same(f[i], f[j])
Said(f, i) == PrincipalOf[f[i].spelling]

LEMMA LineTypes ==
    ASSUME NEW f \in Files, NEW i \in 1 .. Len(f)
    PROVE  f[i].account \in AccountOrNone /\ PrincipalOf[f[i].spelling] \in Principals
<1> DEFINE FileLine == [spelling : Spellings, account : AccountIds \cup {Unlinked}]
<1>1. f \in Seq(FileLine)
  BY LinksAssumption DEF LinksAssumption
<1> HIDE DEF FileLine
<1>2. f[i] \in FileLine
  BY <1>1
<1>3. f[i].spelling \in Spellings /\ f[i].account \in AccountIds \cup {Unlinked}
  BY <1>2 DEF FileLine
<1> QED
  BY <1>3, LinksAssumption DEF AccountOrNone, LinksAssumption

LEMMA TheLine ==
    ASSUME NEW f \in Files, OneLineEach(f), NEW i \in 1 .. Len(f)
    PROVE  /\ Said(f, i) \in Principals
           /\ i \in Lines(f, Said(f, i)) /\ Mapped(f, Said(f, i)) = f[i].account
<1> DEFINE p == Said(f, i)
           Last(k) == \A j \in Lines(f, p) : j <= k
<1>1. p \in Principals
  BY LineTypes DEF Said
<1>2. i \in Lines(f, p)
  BY DEF Lines, Said
<1>3. \A j \in Lines(f, p) : j = i
  BY DEF OneLineEach, Lines, Same, Said
<1>4. Last(i)
  BY <1>3
<1>5. (CHOOSE k \in Lines(f, p) : Last(k)) = i
  <2>1. (CHOOSE k \in Lines(f, p) : Last(k)) \in Lines(f, p)
    BY <1>2, <1>4
  <2> QED
    BY <1>3, <2>1
<1> QED
  BY <1>1, <1>2, <1>5 DEF Mapped

\* The databases say what a file says.
ProductionSays(f) == \A i \in 1 .. Len(f) : link[Said(f, i)] = f[i].account
TestsSay(f) == \A i \in 1 .. Len(f) : f[i].account # Unlinked => owner[Said(f, i)] = f[i].account

LEMMA SomeLine ==
    ASSUME NEW f \in Files, OneLineEach(f), NEW p \in Principals, Lines(f, p) # {}
    PROVE  \E i \in 1 .. Len(f) : Said(f, i) = p /\ Mapped(f, p) = f[i].account
                                  /\ Mapped(f, p) \in AccountOrNone
<1>1. PICK i \in 1 .. Len(f) : Said(f, i) = p
  BY DEF Lines, Said
<1>2. Mapped(f, p) = f[i].account
  BY <1>1, TheLine
<1>3. f[i].account \in AccountOrNone
  BY LineTypes
<1> QED
  BY <1>1, <1>2, <1>3

\* A run goes on with a file of one line for each principal, and knows what it linked.
FilesAreRead ==
    \A o \in Operators :
        /\ run[o].pc \in {"commit", "tests"} => OneLineEach(run[o].file)
        /\ run[o].pc = "tests" => run[o].applied = Applied(run[o].file)

\* Nobody else works beside a run that is alone, which finds what it left.
AloneInv ==
    \A o \in alone :
        /\ \A other \in Operators \ {o} : ~Working(other)
        /\ run[o].pc \in {"tests", "done"} => ProductionSays(run[o].file)
        /\ run[o].pc = "done" => TestsSay(run[o].file)

\* What a drain keeps for linked is linked.
KeptIsLinked ==
    \A w \in Drainers : drain[w] # NoDrain => \A p \in drain[w].kept : link[p] # Unlinked

LinksInv == LinksTypeOK /\ LinkingInv /\ FilesAreRead /\ AloneInv /\ KeptIsLinked /\ LinkedIsKept

LEMMA LinksStart == ASSUME LinksInit PROVE LinksInv
<1>1. LinksTypeOK
  BY LinksAssumption DEF LinksInit, LinksTypeOK, AccountOrNone, NoRun, LegacyRows
<1>2. FilesAreRead /\ AloneInv /\ KeptIsLinked /\ LinkedIsKept
  BY DEF LinksInit, FilesAreRead, AloneInv, KeptIsLinked, LinkedIsKept, NoRun
<1> QED
  BY <1>1, <1>2, LinkingStart DEF LinksInv

LEMMA LinksStep ==
    ASSUME LinksInv, [LinksNext]_linksVars
    PROVE  LinksInv'
<1> USE LinksAssumption DEF LinksAssumption
<1>1. /\ LinksTypeOK /\ LinkingInv /\ FilesAreRead /\ AloneInv /\ KeptIsLinked /\ LinkedIsKept
      /\ link \in [Principals -> AccountOrNone] /\ owner \in [Principals -> AccountOrNone]
      /\ drain \in [Drainers -> Drains \cup {NoDrain}] /\ rows \in [Principals -> LegacyRows]
      /\ run \in [Operators -> RunSteps \cup {NoRun}] /\ alone \subseteq Operators /\ runs \in 0 .. MaxRuns
  BY DEF LinksInv, LinksTypeOK
<1>2. /\ LinkingInv' /\ run' \in [Operators -> RunSteps \cup {NoRun}]
      /\ linking' \in Operators \cup {NoOperator}
      /\ \A p \in Operators : (linking' = p) = (run'[p].pc = "commit")
  BY <1>1, LinkingStep DEF LinkingInv
<1>3. \A o \in Operators : Working(o) => run[o] \in RunSteps
  BY <1>1 DEF Working, NoRun
<1>4. ASSUME NEW o \in Operators, NEW f \in Files, BeginRun(o, f)
      PROVE  LinksInv'
  <2> DEFINE next == [pc |-> "lock", file |-> f, applied |-> {}]
  <2>1. /\ ~Working(o) /\ runs < MaxRuns /\ runs' = runs + 1 /\ run' = [run EXCEPT ![o] = next]
        /\ alone' = IF {p \in Operators : Working(p)} = {} THEN {o} ELSE {}
        /\ UNCHANGED <<link, owner, linking, rows, drain>>
    BY <1>4 DEF BeginRun, rowVars
  <2>2. next.pc = "lock"
    OBVIOUS
  <2> HIDE DEF next
  <2>3. run'[o] = next /\ \A p \in Operators \ {o} : run'[p] = run[p]
    BY <1>1, <2>1
  <2>4. LinksTypeOK'
    <3>1. runs' \in 0 .. MaxRuns
      BY <1>1, <2>1
    <3>2. alone' \subseteq Operators
      BY <2>1
    <3> QED
      BY <1>1, <1>2, <2>1, <3>1, <3>2 DEF LinksTypeOK
  <2>5. FilesAreRead'
    BY <1>1, <2>2, <2>3 DEF FilesAreRead
  <2>6. AloneInv'
    <3>1. ASSUME NEW p \in alone'
          PROVE  p = o /\ \A other \in Operators \ {o} : ~Working(other)'
      BY <2>1, <2>3, <3>1 DEF Working
    <3> QED
      BY <2>2, <2>3, <3>1 DEF AloneInv
  <2>7. KeptIsLinked' /\ LinkedIsKept'
    BY <1>1, <2>1 DEF KeptIsLinked, LinkedIsKept
  <2> QED
    BY <1>2, <2>4, <2>5, <2>6, <2>7 DEF LinksInv
<1>5. ASSUME NEW o \in Operators, Validate(o)
      PROVE  LinksInv'
  <2> DEFINE next == [run[o] EXCEPT !.pc = "commit"]
  <2>1. /\ run[o].pc = "lock" /\ ValidateMappings(run[o].file) /\ run' = [run EXCEPT ![o] = next]
        /\ UNCHANGED <<link, owner, alone, runs, rows, drain>>
    BY <1>5 DEF Validate, rowVars
  <2>2. next.pc = "commit" /\ next.file = run[o].file /\ OneLineEach(run[o].file)
    BY <1>3, <2>1 DEF Working, RunSteps, ValidateMappings, OneLineEach
  <2> HIDE DEF next
  <2>3. run'[o] = next /\ \A p \in Operators \ {o} : run'[p] = run[p]
    BY <1>1, <2>1
  <2>4. LinksTypeOK'
    BY <1>1, <1>2, <2>1 DEF LinksTypeOK
  <2>5. FilesAreRead'
    BY <1>1, <2>2, <2>3 DEF FilesAreRead
  <2>6. AloneInv'
    <3>1. \A p \in Operators : Working(p)' <=> Working(p)
      BY <2>1, <2>2, <2>3 DEF Working
    <3>2. \A p \in Operators : run'[p].pc \in {"tests", "done"} => run'[p] = run[p]
      BY <2>2, <2>3
    <3> QED
      BY <1>1, <2>1, <3>1, <3>2 DEF AloneInv, ProductionSays, TestsSay
  <2>7. KeptIsLinked' /\ LinkedIsKept'
    BY <1>1, <2>1 DEF KeptIsLinked, LinkedIsKept
  <2> QED
    BY <1>2, <2>4, <2>5, <2>6, <2>7 DEF LinksInv
<1>6. ASSUME NEW o \in Operators, CommitLinks(o)
      PROVE  LinksInv'
  <2> DEFINE f == run[o].file
             next == [run[o] EXCEPT !.pc = "tests", !.applied = Applied(f)]
  <2>1. /\ run[o].pc = "commit" /\ link' = ApplyEntries(f) /\ run' = [run EXCEPT ![o] = next]
        /\ drain' = [w \in Drainers |-> IF drain[w] = NoDrain THEN NoDrain
                       ELSE [drain[w] EXCEPT !.kept = {p \in @ : link'[p] # Unlinked}]]
        /\ UNCHANGED <<owner, alone, runs, rows>>
    BY <1>6 DEF CommitLinks
  <2>2. /\ next.pc = "tests" /\ next.file = f /\ next.applied = Applied(f)
        /\ f \in Files /\ OneLineEach(f)
    <3>1. run[o] \in RunSteps /\ OneLineEach(f)
      BY <1>1, <1>3, <2>1 DEF Working, FilesAreRead
    <3> QED
      BY <3>1 DEF RunSteps
  <2> HIDE DEF f, next
  <2>3. run'[o] = next /\ \A p \in Operators \ {o} : run'[p] = run[p]
    BY <1>1, <2>1
  <2>4. ASSUME NEW w \in Drainers, drain'[w] # NoDrain
        PROVE  /\ drain[w] # NoDrain /\ drain'[w] \in Drains
               /\ drain'[w].reminders = drain[w].reminders /\ drain'[w].executions = drain[w].executions
               /\ drain'[w].kept \subseteq drain[w].kept
               /\ \A p \in drain'[w].kept : link'[p] # Unlinked
    <3> DEFINE kept == {p \in drain[w].kept : link'[p] # Unlinked}
    <3>1. drain[w] # NoDrain /\ drain'[w] = [drain[w] EXCEPT !.kept = kept] /\ drain[w] \in Drains
      BY <1>1, <2>1, <2>4
    <3> HIDE DEF kept
    <3>2. /\ drain'[w].kept = kept /\ drain'[w].reminders = drain[w].reminders
          /\ drain'[w].executions = drain[w].executions /\ drain'[w].pc = drain[w].pc
          /\ DOMAIN drain'[w] = DOMAIN drain[w]
      BY <3>1 DEF Drains
    <3>3. kept \subseteq drain[w].kept /\ \A p \in kept : link'[p] # Unlinked
      BY DEF kept
    <3>4. drain'[w] \in Drains
      <4>1. kept \subseteq Principals
        BY <3>1, <3>3 DEF Drains
      <4> QED
        BY <3>1, <4>1 DEF Drains
    <3> QED
      BY <3>1, <3>2, <3>3, <3>4
  <2>5. LinksTypeOK'
    <3>1. link' \in [Principals -> AccountOrNone]
      <4>1. \A p \in Principals : Lines(f, p) # {} => Mapped(f, p) \in AccountOrNone
        BY <2>2, SomeLine
      <4> QED
        BY <1>1, <2>1, <4>1 DEF ApplyEntries
    <3>2. drain' \in [Drainers -> Drains \cup {NoDrain}]
      <4>1. drain' = [w \in Drainers |-> drain'[w]]
        BY <2>1
      <4> QED
        BY <2>4, <4>1
    <3> QED
      BY <1>1, <1>2, <2>1, <3>1, <3>2 DEF LinksTypeOK
  <2>6. FilesAreRead'
    BY <1>1, <2>2, <2>3 DEF FilesAreRead
  <2>7. AloneInv'
    <3>1. \A p \in Operators : Working(p)' <=> Working(p)
      BY <2>1, <2>2, <2>3 DEF Working
    <3>2. ASSUME NEW p \in alone'
          PROVE  p = o /\ \A other \in Operators \ {p} : ~Working(other)'
      BY <1>1, <2>1, <3>1, <3>2 DEF AloneInv, Working
    <3>3. ASSUME NEW i \in 1 .. Len(f)
          PROVE  link'[Said(f, i)] = f[i].account
      <4>1. /\ Said(f, i) \in Principals /\ Lines(f, Said(f, i)) # {}
            /\ Mapped(f, Said(f, i)) = f[i].account
        BY <2>2, TheLine
      <4> QED
        BY <2>1, <4>1 DEF ApplyEntries
    <3>4. run'[o].file = f
      BY <2>2, <2>3
    <3>6. ProductionSays(run[o].file)'
      BY <3>3, <3>4 DEF ProductionSays
    <3>5. run'[o].pc # "done"
      BY <2>2, <2>3
    <3> QED
      BY <3>2, <3>5, <3>6 DEF AloneInv
  <2>8. KeptIsLinked' /\ LinkedIsKept'
    BY <1>1, <2>4 DEF KeptIsLinked, LinkedIsKept
  <2> QED
    BY <1>2, <2>5, <2>6, <2>7, <2>8 DEF LinksInv
<1>7. ASSUME NEW o \in Operators, LinkTestEnvironments(o)
      PROVE  LinksInv'
  <2> DEFINE f == run[o].file
             next == [run[o] EXCEPT !.pc = "done"]
  <2>1. /\ run[o].pc = "tests" /\ run' = [run EXCEPT ![o] = next]
        /\ owner' = [p \in Principals |-> IF p \in run[o].applied THEN Mapped(f, p) ELSE owner[p]]
        /\ UNCHANGED <<link, alone, runs, rows, drain>>
    BY <1>7 DEF LinkTestEnvironments, rowVars
  <2>2. /\ next.pc = "done" /\ next.file = f /\ f \in Files /\ OneLineEach(f)
        /\ run[o].applied = Applied(f)
    <3>1. run[o] \in RunSteps /\ OneLineEach(f) /\ run[o].applied = Applied(f)
      BY <1>1, <1>3, <2>1 DEF Working, FilesAreRead
    <3> QED
      BY <3>1 DEF RunSteps
  <2>3. o \in alone => ProductionSays(f)
    BY <1>1, <2>1 DEF AloneInv
  <2> HIDE DEF f, next
  <2>4. run'[o] = next /\ \A p \in Operators \ {o} : run'[p] = run[p]
    BY <1>1, <2>1
  <2>5. LinksTypeOK'
    <3>1. \A p \in Applied(f) : Mapped(f, p) \in AccountOrNone
      BY <2>2, SomeLine DEF Applied
    <3>2. owner' \in [Principals -> AccountOrNone]
      BY <1>1, <2>1, <2>2, <3>1
    <3> QED
      BY <1>1, <1>2, <2>1, <3>2 DEF LinksTypeOK
  <2>6. FilesAreRead'
    BY <1>1, <2>2, <2>4 DEF FilesAreRead
  <2>7. AloneInv'
    <3>1. \A p \in Operators : Working(p)' => Working(p)
      BY <2>1, <2>2, <2>4 DEF Working
    <3>2. ASSUME NEW p \in alone'
          PROVE  p = o /\ \A other \in Operators \ {p} : ~Working(other)'
      BY <1>1, <2>1, <3>1, <3>2 DEF AloneInv, Working
    <3>3. ASSUME NEW i \in 1 .. Len(f), f[i].account # Unlinked
          PROVE  owner'[Said(f, i)] = f[i].account
      <4>1. Said(f, i) \in Applied(f) /\ Mapped(f, Said(f, i)) = f[i].account
        BY <2>2, <3>3, TheLine DEF Applied
      <4>2. Said(f, i) \in Principals
        BY <4>1 DEF Applied
      <4> QED
        BY <2>1, <2>2, <4>1, <4>2
    <3>4. run'[o].file = f
      BY <2>2, <2>4
    <3>5. TestsSay(run[o].file)'
      BY <3>3, <3>4 DEF TestsSay
    <3>6. o \in alone' => ProductionSays(run[o].file)'
      BY <2>1, <2>3, <3>4 DEF ProductionSays
    <3> QED
      BY <3>2, <3>5, <3>6 DEF AloneInv
  <2>8. KeptIsLinked' /\ LinkedIsKept'
    BY <1>1, <2>1 DEF KeptIsLinked, LinkedIsKept
  <2> QED
    BY <1>2, <2>5, <2>6, <2>7, <2>8 DEF LinksInv
<1>8. ASSUME NEW o \in Operators, RollBack(o)
      PROVE  LinksInv'
  <2>1. /\ run' = [run EXCEPT ![o] = NoRun] /\ alone' = alone \ {o}
        /\ UNCHANGED <<link, owner, runs, rows, drain>>
    BY <1>8 DEF RollBack, rowVars
  <2>2. run'[o] = NoRun /\ \A p \in Operators \ {o} : run'[p] = run[p]
    BY <1>1, <2>1
  <2>3. LinksTypeOK'
    BY <1>1, <1>2, <2>1 DEF LinksTypeOK
  <2>4. FilesAreRead'
    BY <1>1, <2>2 DEF FilesAreRead, NoRun
  <2>5. AloneInv'
    <3>1. \A p \in Operators : Working(p)' => Working(p)
      BY <2>2 DEF Working, NoRun
    <3>2. \A p \in alone' : p \in alone /\ run'[p] = run[p]
      BY <1>1, <2>1, <2>2
    <3> QED
      BY <1>1, <2>1, <3>1, <3>2 DEF AloneInv, ProductionSays, TestsSay
  <2>6. KeptIsLinked' /\ LinkedIsKept'
    BY <1>1, <2>1 DEF KeptIsLinked, LinkedIsKept
  <2> QED
    BY <1>2, <2>3, <2>4, <2>5, <2>6 DEF LinksInv
<1>9. ASSUME UNCHANGED <<link, owner, run, alone>>
      PROVE  FilesAreRead' /\ AloneInv'
  BY <1>1, <1>9 DEF FilesAreRead, AloneInv, ProductionSays, TestsSay, Working
<1>10. ASSUME NEW w \in Drainers, BeginDrain(w)
       PROVE  LinksInv'
  <2>1. PICK taken \in Batches({p \in Principals \ Locked("reminders") : rows[p].reminder /\ Drainable(p)}) :
           drain' = [drain EXCEPT ![w] = [pc |-> "executions", reminders |-> taken, executions |-> {},
                                          kept |-> {p \in Principals : link[p] # Unlinked}]]
    BY <1>10 DEF BeginDrain
  <2>2. UNCHANGED <<link, owner, linking, run, alone, runs, rows>>
    BY <1>10 DEF BeginDrain
  <2>3. \A p \in taken : p \in Principals /\ link[p] = Unlinked
    BY DEF Batches, Drainable
  <2>4. LinksTypeOK'
    BY <1>1, <1>2, <2>1, <2>2, <2>3 DEF LinksTypeOK, Drains
  <2>5. KeptIsLinked' /\ LinkedIsKept'
    BY <1>1, <2>1, <2>2, <2>3 DEF KeptIsLinked, LinkedIsKept
  <2> QED
    BY <1>2, <1>9, <2>2, <2>4, <2>5 DEF LinksInv
<1>11. ASSUME NEW w \in Drainers, DrainExecutions(w)
       PROVE  LinksInv'
  <2>1. PICK taken \in Batches({p \in Principals \ Locked("executions") : rows[p].open /\ Drainable(p)}) :
           drain' = [drain EXCEPT ![w].pc = "hooks", ![w].executions = taken]
    BY <1>11 DEF DrainExecutions
  <2>2. UNCHANGED <<link, owner, linking, run, alone, runs, rows>> /\ drain[w].pc = "executions"
    BY <1>11 DEF DrainExecutions
  <2>3. \A p \in taken : p \in Principals /\ link[p] = Unlinked
    BY DEF Batches, Drainable
  <2>4. drain[w] \in Drains
    BY <1>1, <2>2 DEF NoDrain
  <2>5. /\ drain'[w] \in Drains /\ drain'[w].reminders = drain[w].reminders
        /\ drain'[w].executions = taken /\ drain'[w].kept = drain[w].kept
        /\ \A v \in Drainers \ {w} : drain'[v] = drain[v]
    BY <1>1, <2>1, <2>3, <2>4 DEF Drains
  <2>6. drain' \in [Drainers -> Drains \cup {NoDrain}]
    BY <1>1, <2>1, <2>5
  <2>7. LinksTypeOK'
    BY <1>1, <1>2, <2>2, <2>6 DEF LinksTypeOK
  <2>8. drain[w] # NoDrain
    BY <2>2 DEF NoDrain
  <2>9. KeptIsLinked'
    BY <1>1, <2>2, <2>5, <2>8 DEF KeptIsLinked
  <2>10. LinkedIsKept'
    <3>1. ASSUME NEW v \in Drainers, drain'[v] # NoDrain
          PROVE  (drain'[v].reminders \cup drain'[v].executions) \cap drain'[v].kept = {}
      <4>1. CASE v = w
        BY <1>1, <2>3, <2>5, <2>8, <4>1 DEF LinkedIsKept, KeptIsLinked
      <4>2. CASE v # w
        BY <1>1, <2>5, <3>1, <4>2 DEF LinkedIsKept
      <4> QED
        BY <4>1, <4>2
    <3> QED
      BY <3>1 DEF LinkedIsKept
  <2> QED
    BY <1>2, <1>9, <2>2, <2>7, <2>9, <2>10 DEF LinksInv
<1>12. ASSUME NEW w \in Drainers, EndDrain(w)
       PROVE  LinksInv'
  <2>1. drain' = [drain EXCEPT ![w] = NoDrain] /\ UNCHANGED <<link, owner, linking, run, alone, runs>>
    BY <1>12 DEF EndDrain
  <2>2. rows' \in [Principals -> LegacyRows]
    <3>1. ASSUME NEW hooks,
                 rows' = [p \in Principals |->
                    [reminder |-> rows[p].reminder /\ p \notin drain[w].reminders,
                     open |-> rows[p].open /\ p \notin drain[w].executions,
                     hook |-> rows[p].hook /\ p \notin hooks]]
          PROVE  rows' \in [Principals -> LegacyRows]
      BY <3>1 DEF LegacyRows
    <3> QED
      BY <1>1, <1>12, <3>1 DEF EndDrain
  <2>3. LinksTypeOK'
    BY <1>1, <1>2, <2>1, <2>2 DEF LinksTypeOK
  <2>4. KeptIsLinked' /\ LinkedIsKept'
    BY <1>1, <2>1 DEF KeptIsLinked, LinkedIsKept
  <2> QED
    BY <1>2, <1>9, <2>1, <2>3, <2>4 DEF LinksInv
<1>13. CASE UNCHANGED linksVars
  <2>1. UNCHANGED <<link, owner, linking, run, alone, runs, rows, drain>>
    BY <1>13 DEF linksVars
  <2>2. LinksTypeOK' /\ KeptIsLinked' /\ LinkedIsKept'
    BY <1>1, <2>1 DEF LinksTypeOK, KeptIsLinked, LinkedIsKept
  <2> QED
    BY <1>2, <1>9, <2>1, <2>2 DEF LinksInv
<1> QED
  BY <1>4, <1>5, <1>6, <1>7, <1>8, <1>10, <1>11, <1>12, <1>13 DEF LinksNext

\* A run that no other overlapped and that succeeded leaves both databases as every line of
\* its file says, whatever failed half-way before (remind-migrate, run again).
THEOREM RunsAreComplete == LinksSpec => [](LinksTypeOK /\ RunsComplete)
<1>1. LinksInit => LinksInv
  BY LinksStart
<1>2. LinksInv /\ [LinksNext]_linksVars => LinksInv'
  BY LinksStep
<1>3. LinksInv => LinksTypeOK /\ RunsComplete
  BY DEF LinksInv, AloneInv, ProductionSays, TestsSay, Said, RunsComplete
<1> QED
  BY <1>1, <1>2, <1>3, PTL DEF LinksSpec

\* A drain takes nothing of a principal that was linked before it began.
THEOREM LinkedStays == LinksSpec => []LinkedIsKept
<1>1. LinksInit => LinksInv
  BY LinksStart
<1>2. LinksInv /\ [LinksNext]_linksVars => LinksInv'
  BY LinksStep
<1>3. LinksInv => LinkedIsKept
  BY DEF LinksInv
<1> QED
  BY <1>1, <1>2, <1>3, PTL DEF LinksSpec
----------------------------------------------------------------------------
(* The limit of active subscriptions *)

ActiveHooks == {h \in Hooks : Active(h)}

\* Whoever is about to insert has the lock, and counted fewer than the limit.
CountInv ==
    /\ IsFiniteSet(ActiveHooks) /\ Cardinality(ActiveHooks) <= MaxActive
    /\ \A n \in Nodes : job[n].pc = "insert" =>
          counting = n /\ Cardinality(ActiveHooks) < MaxActive

\* A step that activates nothing, and after which nobody inserts who did not before.
LEMMA FewerActive ==
    ASSUME CountInv, (ActiveHooks)' \subseteq ActiveHooks,
           \A n \in Nodes : job'[n].pc = "insert" => job[n].pc = "insert" /\ counting' = n
    PROVE  CountInv'
<1>1. /\ IsFiniteSet(ActiveHooks) /\ Cardinality(ActiveHooks) <= MaxActive /\ MaxActive \in Nat
      /\ \A n \in Nodes : job[n].pc = "insert" =>
            counting = n /\ Cardinality(ActiveHooks) < MaxActive
  BY SubscriptionsAssumption DEF CountInv, SubscriptionsAssumption
<1>2. /\ IsFiniteSet((ActiveHooks)') /\ Cardinality((ActiveHooks)') \in Nat
      /\ Cardinality(ActiveHooks) \in Nat
      /\ Cardinality((ActiveHooks)') <= Cardinality(ActiveHooks)
  BY <1>1, PartOf
<1>3. IsFiniteSet(ActiveHooks)' /\ (Cardinality(ActiveHooks) <= MaxActive)'
  BY <1>1, <1>2
<1>4. (\A n \in Nodes : job[n].pc = "insert" =>
          counting = n /\ Cardinality(ActiveHooks) < MaxActive)'
  BY <1>1, <1>2
<1> QED
  BY <1>3, <1>4 DEF CountInv

LEMMA CountStep ==
    ASSUME RollOutInv, CountInv, [SubscriptionsNext]_subscriptionsVars
    PROVE  CountInv'
<1>1. /\ hook \in [Hooks -> HookRows \cup {NoHook("unused"), NoHook("purged")}]
      /\ job \in [Nodes -> Jobs]
  BY DEF RollOutInv, SubscriptionsTypeOK
<1>2. /\ IsFiniteSet(ActiveHooks) /\ Cardinality(ActiveHooks) <= MaxActive /\ MaxActive \in Nat
      /\ Nobody \notin Nodes
      /\ \A n \in Nodes : job[n].pc = "insert" =>
            counting = n /\ Cardinality(ActiveHooks) < MaxActive
  BY SubscriptionsAssumption DEF CountInv, SubscriptionsAssumption
<1>3. NoJob.pc = "idle"
  BY DEF NoJob
<1>4. ASSUME NEW n \in Nodes, Subscribe(n)
      PROVE  CountInv'
  <2>1. /\ counting = Nobody /\ counting' = n /\ hook' = hook
        /\ Cardinality(ActiveHooks) < MaxActive
        /\ \A m \in Nodes \ {n} : job'[m] = job[m]
    BY <1>1, <1>4 DEF Subscribe, MayCountRows, ActiveHooks
  <2>2. (ActiveHooks)' = ActiveHooks
    BY <2>1 DEF ActiveHooks, Active
  <2>3. \A m \in Nodes : job'[m].pc = "insert" => m = n
    BY <1>2, <2>1
  <2> QED
    BY <1>2, <2>1, <2>2, <2>3 DEF CountInv
<1>5. ASSUME NEW n \in Nodes, NEW h \in Hooks, AddHook(n, h)
      PROVE  CountInv'
  <2>1. /\ job[n].pc = "insert" /\ counting = n /\ Cardinality(ActiveHooks) < MaxActive
        /\ job' = [job EXCEPT ![n] = NoJob] /\ \A g \in Hooks \ {h} : hook'[g] = hook[g]
    BY <1>1, <1>2, <1>5 DEF AddHook
  <2>2. (ActiveHooks)' \subseteq ActiveHooks \cup {h}
    BY <2>1 DEF ActiveHooks, Active
  <2>3. /\ IsFiniteSet(ActiveHooks \cup {h}) /\ Cardinality(ActiveHooks \cup {h}) \in Nat
        /\ Cardinality(ActiveHooks) \in Nat
        /\ Cardinality(ActiveHooks \cup {h}) <= Cardinality(ActiveHooks) + 1
    BY <1>2, WithOne
  <2>4. /\ IsFiniteSet((ActiveHooks)') /\ Cardinality((ActiveHooks)') \in Nat
        /\ Cardinality((ActiveHooks)') <= Cardinality(ActiveHooks \cup {h})
    BY <2>2, <2>3, PartOf
  <2>5. IsFiniteSet(ActiveHooks)' /\ (Cardinality(ActiveHooks) <= MaxActive)'
    BY <1>2, <2>1, <2>3, <2>4
  <2>6. \A m \in Nodes : job'[m].pc # "insert"
    BY <1>1, <1>2, <1>3, <2>1
  <2> QED
    BY <2>5, <2>6 DEF CountInv
<1>6. ASSUME NEW hooks, Unsubscribe(hooks)
      PROVE  CountInv'
  <2>1. \A h \in Hooks : Active(h)' => Active(h)
    BY <1>1, <1>6 DEF Unsubscribe, Active
  <2>2. (ActiveHooks)' \subseteq ActiveHooks /\ UNCHANGED <<counting, job>>
    BY <1>6, <2>1 DEF Unsubscribe, ActiveHooks
  <2> QED
    BY <1>2, <2>2, FewerActive
<1>7. ASSUME NEW n \in Nodes, Sweep(n)
      PROVE  CountInv'
  <2> DEFINE read == {<<h, hook[h].version>> : h \in {g \in Hooks : Active(g) /\ hook[g].key # Current(n)}}
  <2>1. /\ UNCHANGED <<hook, counting>>
        /\ job' = [job EXCEPT ![n] = [NoJob EXCEPT !.pc = "rewrap", !.rows = read]]
    BY <1>7 DEF Sweep
  <2> HIDE DEF read
  <2>2. (ActiveHooks)' \subseteq ActiveHooks
    BY <2>1 DEF ActiveHooks, Active
  <2>3. \A m \in Nodes : job'[m].pc = "insert" => job'[m] = job[m]
    BY <1>1, <2>1 DEF NoJob
  <2> QED
    BY <1>2, <2>1, <2>2, <2>3, FewerActive
<1>8. ASSUME NEW n \in Nodes, NEW h \in Hooks, NEW old \in 1 .. MaxVersion, Rewrap(n, h, old)
      PROVE  CountInv'
  <2>1. /\ counting' = counting /\ job[n].pc = "rewrap"
        /\ \/ hook' = hook
           \/ Active(h) /\ \A g \in Hooks \ {h} : hook'[g] = hook[g]
    BY <1>1, <1>8 DEF Rewrap, SameRow
  <2>2. (ActiveHooks)' \subseteq ActiveHooks
    BY <2>1 DEF ActiveHooks, Active
  <2>3. \A m \in Nodes : job'[m].pc = "insert" => job'[m] = job[m]
    <3>1. \/ job' = [job EXCEPT ![n] = NoJob]
          \/ job' = [job EXCEPT ![n].rows = @ \ {<<h, old>>}]
      BY <1>8 DEF Rewrap
    <3>2. CASE job' = [job EXCEPT ![n].rows = @ \ {<<h, old>>}]
      BY <1>1, <2>1, <3>2 DEF Jobs
    <3> QED
      BY <1>1, <1>3, <3>1, <3>2
  <2> QED
    BY <1>2, <2>1, <2>2, <2>3, FewerActive
<1>9. ASSUME NEW n \in Nodes, PurgeHooks(n)
      PROVE  CountInv'
  <2>1. \A h \in Hooks : Active(h)' => Active(h)
    BY <1>1, <1>9 DEF PurgeHooks, Active, NoHook
  <2>2. (ActiveHooks)' \subseteq ActiveHooks /\ counting' = counting
    BY <1>9, <2>1 DEF PurgeHooks, ActiveHooks
  <2>3. \A m \in Nodes : job'[m].pc = "insert" => job'[m] = job[m]
    BY <1>1, <1>3, <1>9 DEF PurgeHooks
  <2> QED
    BY <1>2, <2>2, <2>3, FewerActive
<1>10. ASSUME NEW n \in Nodes, Restart(n)
       PROVE  CountInv'
  <2>1. /\ hook' = hook /\ job' = [job EXCEPT ![n] = NoJob]
        /\ counting' = IF counting = n THEN Nobody ELSE counting
    BY <1>10 DEF Restart
  <2>2. (ActiveHooks)' \subseteq ActiveHooks
    BY <2>1 DEF ActiveHooks, Active
  <2>3. \A m \in Nodes : job'[m].pc = "insert" => job'[m] = job[m] /\ m # n
    BY <1>1, <1>3, <2>1
  <2>4. \A m \in Nodes : job'[m].pc = "insert" => job[m].pc = "insert" /\ counting' = m
    BY <1>2, <2>1, <2>3
  <2> QED
    BY <2>2, <2>4, FewerActive
<1>11. CASE NextDay \/ UNCHANGED subscriptionsVars
  <2>1. UNCHANGED <<hook, counting, job>>
    BY <1>11 DEF NextDay, subscriptionsVars
  <2>2. (ActiveHooks)' \subseteq ActiveHooks
    BY <2>1 DEF ActiveHooks, Active
  <2> QED
    BY <1>2, <2>1, <2>2, FewerActive
<1> QED
  BY <1>4, <1>5, <1>6, <1>7, <1>8, <1>9, <1>10, <1>11 DEF SubscriptionsNext

\* However many requests subscribe at once, no more subscriptions are active than the limit,
\* and the variables keep their types.
THEOREM SubscriptionsLimited == SubscriptionsSpec => [](SubscriptionsTypeOK /\ SubscriptionsAreLimited)
<1>1. SubscriptionsInit => RollOutInv /\ CountInv
  <2> SUFFICES ASSUME SubscriptionsInit PROVE CountInv
    BY RollOutInit
  <2>1. ActiveHooks = {} /\ \A n \in Nodes : job[n].pc # "insert"
    BY DEF SubscriptionsInit, ActiveHooks, Active, NoHook, NoJob
  <2> QED
    BY <2>1, FS_EmptySet, SubscriptionsAssumption DEF CountInv, SubscriptionsAssumption
<1>2. RollOutInv /\ CountInv /\ [SubscriptionsNext]_subscriptionsVars => RollOutInv' /\ CountInv'
  BY RollOutStep, CountStep
<1>3. RollOutInv /\ CountInv => SubscriptionsTypeOK /\ SubscriptionsAreLimited
  BY DEF RollOutInv, CountInv, SubscriptionsAreLimited, ActiveHooks
<1> QED
  BY <1>1, <1>2, <1>3, PTL DEF SubscriptionsSpec
----------------------------------------------------------------------------
(* All parts together *)

\* A behaviour of the whole is one of each part: the part that it is about steps, the
\* others rest.
LEMMA PartsStep ==
    ASSUME [Next]_vars
    PROVE  /\ [ReplayNext]_replayVars /\ [SubscriptionsNext]_subscriptionsVars
           /\ [ReportsNext]_reportsVars /\ [GatewayNext]_gatewayVars
           /\ [ListingNext]_listingVars /\ [BudgetNext]_budgetVars /\ [LinksNext]_linksVars
           /\ part' = part
BY DEF Next, vars

Parts == {"replay", "subscriptions", "reports", "gateway", "listing", "budget", "links"}

LEMMA WholeIsParts ==
    Spec => /\ ReplaySpec /\ SubscriptionsSpec /\ ReportsSpec /\ GatewaySpec
            /\ ListingSpec /\ BudgetSpec /\ LinksSpec /\ [](part \in Parts)
<1>1. Init => /\ ReplayInit /\ SubscriptionsInit /\ ReportsInit /\ GatewayInit
              /\ ListingInit /\ BudgetInit /\ LinksInit /\ part \in Parts
  BY DEF Init, Parts
<1>2. [Next]_vars => /\ [ReplayNext]_replayVars /\ [SubscriptionsNext]_subscriptionsVars
                     /\ [ReportsNext]_reportsVars /\ [GatewayNext]_gatewayVars
                     /\ [ListingNext]_listingVars /\ [BudgetNext]_budgetVars /\ [LinksNext]_linksVars
                     /\ part' = part
  BY PartsStep
<1>3. part \in Parts /\ part' = part => (part \in Parts)'
  OBVIOUS
<1> QED
  BY <1>1, <1>2, <1>3, PTL DEF Spec, ReplaySpec, SubscriptionsSpec, ReportsSpec, GatewaySpec,
     ListingSpec, BudgetSpec, LinksSpec

\* Whatever races, no limit is passed: reminders and subscriptions of an account, its
\* reports per hour, a caller's requests per minute, and fetches of keys.
THEOREM LimitsAreKept == Spec => []LimitsHold
<1>1. RemindersAreLimited /\ SubscriptionsAreLimited /\ ReportsAreLimited /\ SpendingIsLimited
         /\ FetchesAreRare => LimitsHold
  BY DEF LimitsHold
<1> QED
  BY <1>1, WholeIsParts, LimitIsKept, SubscriptionsLimited, ReportsWithinHour, SpendingLimited,
     FetchesRare, PTL

\* The variables of every part have their types, and each lock is held by the code that
\* takes it.
THEOREM RequestsTypes == Spec => []RequestsTypeOK
<1>1. ReplayInv => ReplayTypeOK
  BY DEF ReplayInv
<1>2. GatewaySpec => []GatewayTypeOK
  <2>1. GatewayInit => GatewayInv
    BY GatewayStart
  <2>2. GatewayInv /\ [GatewayNext]_gatewayVars => GatewayInv'
    BY GatewayStep
  <2>3. GatewayInv => GatewayTypeOK
    BY DEF GatewayInv
  <2> QED
    BY <2>1, <2>2, <2>3, PTL DEF GatewaySpec
<1>3. /\ ReplayTypeOK /\ SubscriptionsTypeOK /\ ReportsTypeOK /\ GatewayTypeOK
      /\ ListingTypeOK /\ BudgetTypeOK /\ LinksTypeOK /\ part \in Parts
      => RequestsTypeOK
  BY DEF RequestsTypeOK, Parts
<1> QED
  BY <1>1, <1>2, <1>3, WholeIsParts, ReplayInvariant, SubscriptionsLimited, ReportsWithinHour,
     SpendingLimited, ListingExact, RunsAreComplete, PTL

\* What each part keeps alone, all of them keep in the specification that TLC checks.
THEOREM RequestsAreKept ==
    Spec => /\ [](EffectOncePerKey /\ AnswersAreTrue /\ ChangesBuildOnEachOther)
            /\ [](EveryoneCanRead /\ NewestClaimDecides /\ RevokedTokensEnd /\ ListingIsExact)
            /\ [](NeverMerged /\ RunsComplete /\ LinkedIsKept)
            /\ EndedStaysEnded /\ ImplementsLedger
BY WholeIsParts, OneEffectPerKey, RepliesAreTrue, NoLostChange, ReadableForAll, NewestDecides,
   RevokedIsRefused, ListingExact, LinksStayApart, RunsAreComplete, LinkedStays, EndedForGood,
   RequestsAreSerial, PTL
=============================================================================
