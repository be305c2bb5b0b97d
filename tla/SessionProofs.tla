--------------------------- MODULE SessionProofs ---------------------------
(***************************************************************************)
(* Proofs that processes which share the state file never present a        *)
(* refresh token twice and leave no sign-in behind, for every number of    *)
(* processes, sign-ins, slots and failures.  The argument: a sign-in is in  *)
(* one place, the file or the hands of one process, and what is there is    *)
(* its newest generation unless the sign-in was hit by a failure.          *)
(*                                                                         *)
(* Then that the web frontend refreshes each token of a browser once,       *)
(* however many requests, answers and moments there are: whoever carries    *)
(* the token before the newest arrives while its refresh is remembered.     *)
(***************************************************************************)
EXTENDS MCIdentity, TLAPS
----------------------------------------------------------------------------
(* The inductive invariant *)

ToEnd == {"store", "revoke"}

\* A sign-in is in one slot or in the hands of one process that stores or ends it.
OnePlace ==
    /\ \A s, r \in Slots : s # r /\ file[s] # NoSignIn => file[s].family # file[r].family
    /\ \A p \in Processes : task[p].pc \in ToEnd =>
          /\ \A s \in Slots : file[s].family # task[p].hand.family
          /\ \A q \in Processes : q # p /\ task[q].pc \in ToEnd =>
                task[q].hand.family # task[p].hand.family

\* What a process works on is a sign-in, which Silicon Accounts has made.
HandsAreSignIns ==
    \A p \in Processes :
        task[p].pc \in {"refresh", "save", "store", "revoke"} => task[p].hand \in SignIns

UsedOnly ==
    /\ \A s \in Slots : file[s] # NoSignIn => remote[file[s].family].status # "unused"
    /\ \A p \in Processes : task[p].pc \in ToEnd => remote[task[p].hand.family].status # "unused"

\* The holder of the lock works on what the file holds.
UnderLock ==
    \A p \in Processes :
        /\ task[p].pc = "refresh" => task[p].hand = file[task[p].slot]
        /\ task[p].pc = "save" => task[p].hand.family = file[task[p].slot].family

Sound(x) == Live(x.family) /\ x.family \notin faulted => Newest(x)

Saving(s) == \E p \in Processes : task[p].pc = "save" /\ task[p].slot = s

\* What the file holds is the newest, unless the process that has it is about to save it.
NewestKept ==
    /\ \A s \in Slots : file[s] # NoSignIn /\ ~Saving(s) => Sound(file[s])
    /\ \A p \in Processes : task[p].pc \in {"save", "store", "revoke"} => Sound(task[p].hand)

\* Only a refresh that was given up arrives late.
LateIsFaulted == \A x \in late : x.family \in faulted

PlacesInv == OnePlace /\ HandsAreSignIns /\ UsedOnly /\ UnderLock /\ NewestKept /\ LateIsFaulted

SessionInv == SessionTypeOK /\ PlacesInv /\ NoReuse
----------------------------------------------------------------------------
(* Types *)

\* No sign-in is not a sign-in, and an entry with a family is one.
LEMMA NoSignInIsNone ==
    /\ NoSignIn \notin SignIns
    /\ NoSignIn.family = NoFamily /\ NoFamily \notin Families
    /\ \A x \in SignIns \cup {NoSignIn} : x # NoSignIn => x \in SignIns
    /\ \A x \in SignIns : x.family \in Families /\ x.gen \in 1 .. MaxGen
<1>1. NoFamily \notin Families
  BY SessionAssumption
<1>2. \A x \in SignIns : x.family \in Families /\ x.gen \in 1 .. MaxGen
  BY DEF SignIns
<1>3. NoSignIn.family = NoFamily
  BY DEF NoSignIn
<1> QED
  BY <1>1, <1>2, <1>3

\* No process does anything and no sign-in exists.
LEMMA SessionInit == ASSUME Init PROVE SessionInv
<1>1. NoTask \in Tasks /\ NoTask.pc = "idle"
  BY SessionAssumption DEF NoTask, Tasks, Steps
<1>2. SessionTypeOK
  BY <1>1, SessionAssumption DEF Init, SessionTypeOK
<1>3. PlacesInv /\ NoReuse
  BY <1>1 DEF Init, PlacesInv, OnePlace, HandsAreSignIns, UsedOnly, UnderLock, NewestKept, LateIsFaulted,
     NoReuse, ToEnd
<1> QED
  BY <1>2, <1>3 DEF SessionInv

\* A presented token leaves every sign-in in one of its states.
LEMMA PresentTypes ==
    ASSUME SessionTypeOK, NEW x \in SignIns, Present(x)
    PROVE  /\ remote' \in [Families -> [status : {"unused", "live", "ended"}, gen : 0 .. MaxGen]]
           /\ reused' \subseteq Families
           /\ \A f \in Families \ {x.family} : remote'[f] = remote[f]
           /\ Rotates(x) => /\ remote'[x.family].status = "live"
                            /\ remote'[x.family].gen = x.gen + 1
                            /\ x.gen + 1 \in 1 .. MaxGen
           /\ ~Rotates(x) => remote'[x.family].status = "ended"
           /\ reused' = reused \/ (reused' = reused \cup {x.family} /\ Live(x.family) /\ ~Newest(x))
<1>1. x.family \in Families /\ x.gen \in 1 .. MaxGen /\ MaxGen \in Nat \ {0}
  BY SessionAssumption DEF SignIns
<1>2. CASE Rotates(x)
  BY <1>1, <1>2 DEF Present, Rotates, Newest, Live, SessionTypeOK
<1>3. CASE ~Rotates(x)
  BY <1>1, <1>3 DEF Present, Ended, SessionTypeOK
<1> QED
  BY <1>2, <1>3

\* What a process does next is a task.
LEMMA TaskTypes ==
    ASSUME SessionTypeOK, NEW p \in Processes, NEW t \in Tasks, Become(p, t)
    PROVE  /\ task' \in [Processes -> Tasks]
           /\ task'[p] = t
           /\ \A q \in Processes \ {p} : task'[q] = task[q]
  BY DEF SessionTypeOK, Become
----------------------------------------------------------------------------
(* Steps *)

Busy == {"refresh", "save", "store", "revoke"}

\* A process that has nothing in its hands moves on, and still has nothing.
LEMMA QuietStep ==
    ASSUME SessionInv, NEW p \in Processes, NEW t \in Tasks, Become(p, t),
           task[p].pc \notin Busy, t.pc \notin Busy,
           UNCHANGED <<remoteVars, file, lock, faultVars>>
    PROVE  SessionInv'
<1>1. /\ task' \in [Processes -> Tasks] /\ task'[p] = t
      /\ \A q \in Processes \ {p} : task'[q] = task[q]
  BY TaskTypes DEF SessionInv
<1>2. SessionTypeOK'
  BY <1>1 DEF SessionInv, SessionTypeOK, remoteVars, faultVars, Busy
<1>3. OnePlace' /\ UsedOnly'
  BY <1>1 DEF SessionInv, PlacesInv, OnePlace, UsedOnly, ToEnd, Busy, remoteVars
<1>4. HandsAreSignIns' /\ UnderLock'
  BY <1>1 DEF SessionInv, PlacesInv, HandsAreSignIns, UnderLock, Busy
<1>5. \A s \in Slots : Saving(s)' = Saving(s)
  BY <1>1 DEF Saving, Busy
<1>6. NewestKept' /\ LateIsFaulted' /\ NoReuse'
  BY <1>1, <1>5 DEF SessionInv, PlacesInv, NewestKept, LateIsFaulted, NoReuse, Sound, Live, Newest, Busy,
     remoteVars, faultVars
<1> QED
  BY <1>2, <1>3, <1>4, <1>6 DEF SessionInv, PlacesInv

\* Commands that only start, or call Remind.
LEMMA StartSteps ==
    ASSUME SessionInv, NEW p \in Processes, NEW s \in Slots,
           Begin(p, s) \/ BeginLogin(p, s) \/ BeginRemove(p, s) \/ Call(p)
    PROVE  SessionInv'
<1>1. task[p] \in Tasks /\ Production \in Slots /\ NoTask \in Tasks /\ NoTask.pc = "idle"
  BY SessionAssumption DEF SessionInv, SessionTypeOK, NoTask, Tasks, Steps
<1>2. CASE Begin(p, s)
  <2> DEFINE own == Effective(s)
             t == [NoTask EXCEPT !.pc = IF Fresh(file[own]) THEN "call" ELSE "lock",
                                 !.slot = own, !.hand = file[own]]
  <2>1. own \in Slots
    BY <1>1 DEF Effective
  <2>2. t \in Tasks /\ t.pc \notin Busy
    BY <1>1, <2>1 DEF SessionInv, SessionTypeOK, NoTask, Tasks, Steps, Busy
  <2>3. Become(p, t) /\ task[p].pc = "idle" /\ UNCHANGED <<remoteVars, file, lock, faultVars>>
    BY <1>2 DEF Begin
  <2> HIDE DEF t
  <2> QED
    BY <2>2, <2>3, QuietStep DEF Busy
<1>3. CASE BeginLogin(p, s)
  <2> DEFINE t == [NoTask EXCEPT !.pc = "exchange", !.slot = s]
  <2>1. t \in Tasks /\ t.pc \notin Busy
    BY <1>1 DEF NoTask, Tasks, Steps, Busy
  <2>2. Become(p, t) /\ task[p].pc = "idle" /\ UNCHANGED <<remoteVars, file, lock, faultVars>>
    BY <1>3 DEF BeginLogin, CheckLock
  <2> HIDE DEF t
  <2> QED
    BY <2>1, <2>2, QuietStep DEF Busy
<1>4. CASE BeginRemove(p, s)
  <2> DEFINE t == [NoTask EXCEPT !.pc = "remove", !.slot = s]
  <2>1. t \in Tasks /\ t.pc \notin Busy
    BY <1>1 DEF NoTask, Tasks, Steps, Busy
  <2>2. Become(p, t) /\ task[p].pc = "idle" /\ UNCHANGED <<remoteVars, file, lock, faultVars>>
    BY <1>4 DEF BeginRemove
  <2> HIDE DEF t
  <2> QED
    BY <2>1, <2>2, QuietStep DEF Busy
<1>5. CASE Call(p)
  <2> DEFINE t == [task[p] EXCEPT !.pc = "lock", !.force = TRUE]
  <2>1. t \in Tasks /\ t.pc \notin Busy
    BY <1>1 DEF Tasks, Steps, Busy
  <2>2. /\ Become(p, t) \/ Become(p, NoTask)
        /\ task[p].pc = "call" /\ UNCHANGED <<remoteVars, file, lock, faultVars>>
    BY <1>5 DEF Call, End
  <2> HIDE DEF t
  <2> QED
    BY <1>1, <2>1, <2>2, QuietStep DEF Busy
<1> QED
  BY <1>2, <1>3, <1>4, <1>5

\* Under the lock: there is nothing to do, or the refresh of what the file holds begins.
LEMMA LockStep == ASSUME SessionInv, NEW p \in Processes, Lock(p) PROVE SessionInv'
<1>1. /\ task[p] \in Tasks /\ Production \in Slots /\ NoTask \in Tasks /\ NoTask.pc = "idle"
      /\ task[p].slot \in Slots /\ file[task[p].slot] \in SignIns \cup {NoSignIn}
  BY SessionAssumption DEF SessionInv, SessionTypeOK, NoTask, Tasks, Steps
<1>2. task[p].pc = "lock" /\ lock = NoProcess /\ UNCHANGED <<remoteVars, file, faultVars>>
  BY DEF Lock, MayLock
<1> DEFINE called == [task[p] EXCEPT !.pc = "call", !.hand = Refreshed(p)]
           begun == [task[p] EXCEPT !.pc = "refresh", !.hand = Refreshed(p)]
<1>3. /\ called \in Tasks /\ called.pc = "call"
      /\ begun \in Tasks /\ begun.pc = "refresh"
      /\ begun.slot = task[p].slot /\ begun.hand = file[task[p].slot]
  BY <1>1 DEF Tasks, Steps, Refreshed
<1>4. \/ UNCHANGED lock /\ (Become(p, NoTask) \/ Become(p, called))
      \/ ~Refused(p) /\ Become(p, begun) /\ lock' = p
  BY DEF Lock, End, Proceed
<1> HIDE DEF called, begun
<1>5. CASE UNCHANGED lock /\ (Become(p, NoTask) \/ Become(p, called))
  BY <1>1, <1>2, <1>3, <1>5, QuietStep DEF Busy
<1>6. CASE ~Refused(p) /\ Become(p, begun) /\ lock' = p
  <2>1. file[task[p].slot] \in SignIns
    BY <1>1, <1>6, NoSignInIsNone DEF Refused
  <2>2. /\ task' \in [Processes -> Tasks] /\ task'[p] = begun
        /\ \A q \in Processes \ {p} : task'[q] = task[q]
    BY <1>3, <1>6, TaskTypes DEF SessionInv
  <2>3. \A q \in Processes : task[q].pc \notin {"refresh", "save"}
    BY <1>2, SessionAssumption DEF SessionInv, SessionTypeOK
  <2>4. SessionTypeOK'
    BY <1>2, <1>3, <1>6, <2>2, <2>3 DEF SessionInv, SessionTypeOK, remoteVars, faultVars
  <2>5. OnePlace' /\ UsedOnly'
    BY <1>2, <1>3, <2>2 DEF SessionInv, PlacesInv, OnePlace, UsedOnly, ToEnd, remoteVars
  <2>6. HandsAreSignIns' /\ UnderLock'
    BY <1>2, <1>3, <2>1, <2>2 DEF SessionInv, PlacesInv, HandsAreSignIns, UnderLock
  <2>7. \A s \in Slots : Saving(s)' = Saving(s)
    BY <1>2, <1>3, <2>2 DEF Saving
  <2>8. NewestKept' /\ LateIsFaulted' /\ NoReuse'
    BY <1>2, <1>3, <2>2, <2>7 DEF SessionInv, PlacesInv, NewestKept, LateIsFaulted, NoReuse, Sound, Live,
       Newest, remoteVars, faultVars
  <2> QED
    BY <2>4, <2>5, <2>6, <2>8 DEF SessionInv, PlacesInv
<1> QED
  BY <1>4, <1>5, <1>6

\* Unlocking frees what p holds.
LEMMA UnlockFrees ==
    ASSUME SessionInv, NEW p \in Processes, NEW t \in Tasks, Become(p, t), Unlock(p),
           t.pc \notin {"refresh", "save"}
    PROVE  /\ lock' \in Processes \cup {NoProcess}
           /\ \A q \in Processes : (lock' = q) = (task'[q].pc \in {"refresh", "save"})
<1>1. /\ task' \in [Processes -> Tasks] /\ task'[p] = t
      /\ \A q \in Processes \ {p} : task'[q] = task[q]
  BY TaskTypes DEF SessionInv
<1>2. lock \in Processes \cup {NoProcess} /\ NoProcess \notin Processes
  BY SessionAssumption DEF SessionInv, SessionTypeOK
<1>3. \A q \in Processes : (lock = q) = (task[q].pc \in {"refresh", "save"})
  BY DEF SessionInv, SessionTypeOK
<1>4. ASSUME NEW q \in Processes
      PROVE  (lock' = q) <=> (task'[q].pc \in {"refresh", "save"})
  <2>1. CASE q = p
    BY <1>1, <1>2, <2>1 DEF Unlock
  <2>2. CASE q # p
    BY <1>1, <1>2, <1>3, <2>2 DEF Unlock
  <2> QED
    BY <2>1, <2>2
<1> QED
  BY <1>2, <1>4 DEF Unlock

\* The answer to a refresh: what was presented is what the file holds, and nobody is saving
\* it, so it was the newest; what came back is the newest now.
LEMMA RefreshStep == ASSUME SessionInv, NEW p \in Processes, Refresh(p) PROVE SessionInv'
<1> DEFINE x == task[p].hand
           next == [task[p] EXCEPT !.pc = "save", !.hand = [x EXCEPT !.gen = @ + 1]]
<1>0. PICK slot \in Slots : slot = task[p].slot
  BY DEF SessionInv, SessionTypeOK, Tasks
<1>1. /\ task[p] \in Tasks /\ NoTask \in Tasks /\ NoTask.pc = "idle" /\ slot = task[p].slot
      /\ task[p].pc = "refresh" /\ UNCHANGED <<stale, faultVars>>
  BY <1>0, SessionAssumption DEF SessionInv, SessionTypeOK, NoTask, Tasks, Steps, Refresh
<1>2. x \in SignIns /\ x = file[slot] /\ x # NoSignIn /\ x.family \in Families /\ x.gen \in 1 .. MaxGen
  BY <1>1, NoSignInIsNone DEF SessionInv, PlacesInv, HandsAreSignIns, UnderLock
<1>3. \A q \in Processes \ {p} : task[q].pc \notin {"refresh", "save"}
  BY <1>1 DEF SessionInv, SessionTypeOK
<1>4. \A s \in Slots : ~Saving(s)
  BY <1>1, <1>3 DEF Saving
<1>5. Sound(x)
  BY <1>1, <1>2, <1>4 DEF SessionInv, PlacesInv, NewestKept
<1>6. /\ remote' \in [Families -> [status : {"unused", "live", "ended"}, gen : 0 .. MaxGen]]
      /\ reused' \subseteq Families
      /\ \A f \in Families \ {x.family} : remote'[f] = remote[f]
      /\ Rotates(x) => /\ remote'[x.family].status = "live"
                       /\ remote'[x.family].gen = x.gen + 1
                       /\ x.gen + 1 \in 1 .. MaxGen
      /\ ~Rotates(x) => remote'[x.family].status = "ended"
      /\ reused' = reused \/ (reused' = reused \cup {x.family} /\ Live(x.family) /\ ~Newest(x))
  BY <1>1, <1>2, PresentTypes DEF SessionInv, Refresh
<1>7. NoReuse' /\ LateIsFaulted'
  BY <1>1, <1>2, <1>5, <1>6 DEF SessionInv, PlacesInv, NoReuse, LateIsFaulted, Sound, faultVars
<1>8. \A s \in Slots : s # slot /\ file[s] # NoSignIn => file[s].family # x.family /\ file[s].family \in Families
  BY <1>1, <1>2, NoSignInIsNone DEF SessionInv, SessionTypeOK, PlacesInv, OnePlace
<1>9. \A q \in Processes : task[q].pc \in ToEnd => task[q].hand.family # x.family /\ task[q].hand.family \in Families
  BY <1>1, <1>2, NoSignInIsNone DEF SessionInv, PlacesInv, OnePlace, HandsAreSignIns, ToEnd
<1>10. CASE Rotates(x)
  <2>1. next \in Tasks /\ next.pc = "save" /\ next.slot = slot /\ next.hand \in SignIns
        /\ next.hand.family = x.family /\ next.hand.gen = x.gen + 1
    BY <1>1, <1>2, <1>6, <1>10 DEF Tasks, Steps, SignIns
  <2>2. Become(p, next) /\ UNCHANGED <<file, lock>>
    BY <1>10 DEF Refresh
  <2> HIDE DEF next
  <2>3. /\ task' \in [Processes -> Tasks] /\ task'[p] = next
        /\ \A q \in Processes \ {p} : task'[q] = task[q]
    BY <2>1, <2>2, TaskTypes DEF SessionInv
  <2>4. SessionTypeOK'
    BY <1>1, <1>6, <2>1, <2>2, <2>3 DEF SessionInv, SessionTypeOK, faultVars
  <2>5. OnePlace'
    BY <1>1, <2>1, <2>2, <2>3 DEF SessionInv, PlacesInv, OnePlace, ToEnd
  <2>6. UsedOnly'
    BY <1>1, <1>2, <1>6, <1>8, <1>9, <1>10, <2>1, <2>2, <2>3 DEF SessionInv, PlacesInv, UsedOnly, ToEnd
  <2>7. HandsAreSignIns' /\ UnderLock'
    BY <1>2, <2>1, <2>2, <2>3 DEF SessionInv, PlacesInv, HandsAreSignIns, UnderLock
  <2>8. \A s \in Slots : s # slot /\ file[s] # NoSignIn => Sound(file[s])'
    BY <1>1, <1>4, <1>6, <1>8, <2>2 DEF SessionInv, PlacesInv, NewestKept, Sound, Live, Newest, faultVars
  <2>9. Saving(slot)' /\ Sound(task[p].hand)'
    BY <1>1, <1>2, <1>6, <1>10, <2>1, <2>3 DEF Saving, Sound, Newest
  <2>10. \A q \in Processes \ {p} : task[q].pc \in {"save", "store", "revoke"} => Sound(task[q].hand)'
    BY <1>1, <1>3, <1>6, <1>9, <2>3 DEF SessionInv, PlacesInv, NewestKept, Sound, Live, Newest, faultVars, ToEnd
  <2>11. NewestKept'
    BY <1>1, <2>2, <2>3, <2>8, <2>9, <2>10 DEF NewestKept
  <2> QED
    BY <1>7, <2>4, <2>5, <2>6, <2>7, <2>11 DEF SessionInv, PlacesInv
<1>11. CASE ~Rotates(x)
  <2>1. /\ file' = [file EXCEPT ![slot] = NoSignIn] \/ file' = file
        /\ Become(p, NoTask) /\ Unlock(p)
    BY <1>1, <1>11 DEF Refresh, Write, End
  <2>2. /\ task' \in [Processes -> Tasks] /\ task'[p] = NoTask
        /\ \A q \in Processes \ {p} : task'[q] = task[q]
    BY <1>1, <2>1, TaskTypes DEF SessionInv
  <2>3. /\ file' \in [Slots -> SignIns \cup {NoSignIn}]
        /\ \A s \in Slots \ {slot} : file'[s] = file[s]
        /\ file'[slot] \in {x, NoSignIn}
    BY <1>0, <1>1, <1>2, <2>1 DEF SessionInv, SessionTypeOK
  <2>4. /\ lock' \in Processes \cup {NoProcess}
        /\ \A q \in Processes : (lock' = q) = (task'[q].pc \in {"refresh", "save"})
    BY <1>1, <2>1, UnlockFrees
  <2>5. SessionTypeOK'
    BY <1>1, <1>6, <2>2, <2>3, <2>4 DEF SessionInv, SessionTypeOK, faultVars
  <2>6. OnePlace'
    BY <1>1, <1>2, <1>8, <1>9, <2>2, <2>3, NoSignInIsNone DEF SessionInv, PlacesInv, OnePlace, ToEnd,
       HandsAreSignIns
  <2>7. UsedOnly'
    BY <1>1, <1>2, <1>6, <1>8, <1>9, <1>11, <2>2, <2>3 DEF SessionInv, PlacesInv, UsedOnly, ToEnd
  <2>8. HandsAreSignIns' /\ UnderLock'
    BY <1>1, <1>3, <2>2 DEF SessionInv, PlacesInv, HandsAreSignIns, UnderLock
  <2>9. \A s \in Slots : s # slot /\ file[s] # NoSignIn => Sound(file[s])'
    BY <1>1, <1>4, <1>6, <1>8, <2>3 DEF SessionInv, PlacesInv, NewestKept, Sound, Live, Newest, faultVars
  <2>10. file'[slot] # NoSignIn => Sound(file[slot])'
    BY <1>1, <1>2, <1>6, <1>11, <2>3 DEF Sound, Live
  <2>11. \A q \in Processes \ {p} : task[q].pc \in {"save", "store", "revoke"} => Sound(task[q].hand)'
    BY <1>1, <1>3, <1>6, <1>9, <2>2 DEF SessionInv, PlacesInv, NewestKept, Sound, Live, Newest, faultVars, ToEnd
  <2>12. NewestKept'
    BY <1>1, <2>2, <2>3, <2>9, <2>10, <2>11 DEF NewestKept
  <2> QED
    BY <1>7, <2>5, <2>6, <2>7, <2>8, <2>12 DEF SessionInv, PlacesInv
<1> QED
  BY <1>10, <1>11

\* A refresh without an answer, and a process that fails with a sign-in in its hands: that
\* sign-in counts as hit, and nothing else changes.
LEMMA FaultSteps ==
    ASSUME SessionInv, NEW p \in Processes, GiveUp(p) \/ Fail(p)
    PROVE  SessionInv'
<1> DEFINE x == task[p].hand
<1>1. /\ NoTask \in Tasks /\ NoTask.pc = "idle" /\ Become(p, NoTask) /\ Unlock(p)
      /\ task[p].pc \in Busy /\ task[p].slot \in Slots
      /\ UNCHANGED <<remoteVars, file>>
      /\ late' \in {late, late \cup {x}} /\ (late' # late => task[p].pc = "refresh")
      /\ faults' \in 0 .. MaxFaults /\ faulted' = faulted \cup {x.family}
  <2>1. NoTask \in Tasks /\ NoTask.pc = "idle" /\ task[p].slot \in Slots
    BY SessionAssumption DEF NoTask, Tasks, Steps, SessionInv, SessionTypeOK
  <2>2. faults \in 0 .. MaxFaults /\ MaxFaults \in Nat
    BY SessionAssumption DEF SessionInv, SessionTypeOK
  <2>3. CASE GiveUp(p)
    BY <2>1, <2>2, <2>3 DEF GiveUp, GivenUp, Fault, End, Busy, remoteVars
  <2>4. CASE Fail(p)
    BY <2>1, <2>2, <2>4 DEF Fail, Fault, End, Busy, remoteVars
  <2> QED
    BY <2>3, <2>4
<1>2. x \in SignIns /\ x.family \in Families
  BY <1>1, NoSignInIsNone DEF SessionInv, PlacesInv, HandsAreSignIns, Busy
<1>3. /\ task' \in [Processes -> Tasks] /\ task'[p] = NoTask
      /\ \A q \in Processes \ {p} : task'[q] = task[q]
  BY <1>1, TaskTypes DEF SessionInv
<1>4. /\ lock' \in Processes \cup {NoProcess}
      /\ \A q \in Processes : (lock' = q) = (task'[q].pc \in {"refresh", "save"})
  BY <1>1, UnlockFrees
<1>5. SessionTypeOK'
  BY <1>1, <1>2, <1>3, <1>4 DEF SessionInv, SessionTypeOK, remoteVars
<1>6. OnePlace' /\ UsedOnly'
  BY <1>1, <1>3 DEF SessionInv, PlacesInv, OnePlace, UsedOnly, ToEnd, remoteVars
<1>7. HandsAreSignIns' /\ UnderLock'
  BY <1>1, <1>3 DEF SessionInv, PlacesInv, HandsAreSignIns, UnderLock
<1>8. \A s \in Slots : Saving(s)' \/ ~Saving(s) \/ file[s].family = x.family
  BY <1>3 DEF Saving, SessionInv, PlacesInv, UnderLock
<1>9. NewestKept'
  BY <1>1, <1>3, <1>8 DEF SessionInv, PlacesInv, NewestKept, Sound, Live, Newest, remoteVars
<1>10. LateIsFaulted' /\ NoReuse'
  BY <1>1 DEF SessionInv, PlacesInv, LateIsFaulted, NoReuse, remoteVars
<1> QED
  BY <1>5, <1>6, <1>7, <1>9, <1>10 DEF SessionInv, PlacesInv

\* What came back is written to the slot that it was read from.
LEMMA SaveStep == ASSUME SessionInv, NEW p \in Processes, Save(p) PROVE SessionInv'
<1> DEFINE x == task[p].hand
           called == [task[p] EXCEPT !.pc = "call", !.hand = x]
<1>0. PICK slot \in Slots : slot = task[p].slot
  BY DEF SessionInv, SessionTypeOK, Tasks
<1>1. /\ task[p] \in Tasks /\ NoTask \in Tasks /\ NoTask.pc = "idle"
      /\ task[p].pc = "save" /\ UNCHANGED <<remoteVars, faultVars>>
      /\ file' = [file EXCEPT ![slot] = x] /\ Unlock(p)
  BY <1>0, SessionAssumption DEF SessionInv, SessionTypeOK, NoTask, Tasks, Steps, Save, Write
<1>2. x \in SignIns /\ x.family \in Families /\ x.family = file[slot].family /\ file[slot] # NoSignIn /\ x # NoSignIn
  BY <1>0, <1>1, NoSignInIsNone DEF SessionInv, PlacesInv, HandsAreSignIns, UnderLock
<1>3. PICK t \in Tasks : Become(p, t) /\ t.pc \notin Busy
  <2>1. called \in Tasks /\ called.pc = "call"
    BY <1>1 DEF Tasks, Steps
  <2>2. Become(p, called) \/ Become(p, NoTask)
    BY DEF Save, Proceed, End
  <2> QED
    BY <1>1, <2>1, <2>2 DEF Busy
<1>4. /\ task' \in [Processes -> Tasks] /\ task'[p] = t
      /\ \A q \in Processes \ {p} : task'[q] = task[q]
  BY <1>3, TaskTypes DEF SessionInv
<1>5. /\ lock' \in Processes \cup {NoProcess}
      /\ \A q \in Processes : (lock' = q) = (task'[q].pc \in {"refresh", "save"})
  BY <1>1, <1>3, UnlockFrees DEF Busy
<1>6. \A q \in Processes \ {p} : task[q].pc \notin {"refresh", "save"}
  BY <1>1 DEF SessionInv, SessionTypeOK
<1>7. /\ file' \in [Slots -> SignIns \cup {NoSignIn}] /\ file'[slot] = x
      /\ \A s \in Slots \ {slot} : file'[s] = file[s]
  BY <1>1, <1>2 DEF SessionInv, SessionTypeOK
<1>8. SessionTypeOK'
  BY <1>1, <1>4, <1>5, <1>7 DEF SessionInv, SessionTypeOK, remoteVars, faultVars
<1>9. OnePlace'
  <2>1. \A s \in Slots : file'[s].family = file[s].family /\ (file'[s] # NoSignIn => file[s] # NoSignIn)
    BY <1>2, <1>7
  <2> QED
    BY <1>3, <1>4, <2>1 DEF SessionInv, PlacesInv, OnePlace, ToEnd, Busy
<1>10. UsedOnly'
  BY <1>1, <1>2, <1>3, <1>4, <1>7 DEF SessionInv, PlacesInv, UsedOnly, ToEnd, Busy, remoteVars
<1>11. HandsAreSignIns' /\ UnderLock'
  BY <1>3, <1>4, <1>6 DEF SessionInv, PlacesInv, HandsAreSignIns, UnderLock, Busy
<1>12. \A s \in Slots \ {slot} : ~Saving(s)
  BY <1>0, <1>6 DEF Saving
<1>13. NewestKept' /\ LateIsFaulted' /\ NoReuse'
  BY <1>1, <1>3, <1>4, <1>7, <1>12 DEF SessionInv, PlacesInv, NewestKept, Sound, Live, Newest, Busy,
     LateIsFaulted, NoReuse, remoteVars, faultVars
<1> QED
  BY <1>8, <1>9, <1>10, <1>11, <1>13 DEF SessionInv, PlacesInv

\* A new sign-in comes into the hands of one process; or nothing does.
LEMMA ExchangeStep == ASSUME SessionInv, NEW p \in Processes, Exchange(p) PROVE SessionInv'
<1>1. /\ task[p] \in Tasks /\ NoTask \in Tasks /\ NoTask.pc = "idle" /\ MaxGen \in Nat \ {0}
      /\ task[p].pc = "exchange" /\ UNCHANGED <<stale, reused, file, lock, late>>
  BY SessionAssumption DEF SessionInv, SessionTypeOK, NoTask, Tasks, Steps, Exchange
<1>2. CASE Become(p, NoTask) /\ UNCHANGED <<remote, faulted, faults>>
  BY <1>1, <1>2, QuietStep DEF Busy, remoteVars, faultVars
<1>3. ASSUME NEW f \in Families, remote[f].status = "unused",
             remote' = [remote EXCEPT ![f] = [status |-> "live", gen |-> 1]],
             NEW t \in Tasks, Become(p, t),
             \/ /\ t.pc \in ToEnd /\ t.hand = [family |-> f, gen |-> 1]
                /\ UNCHANGED <<faulted, faults>>
             \/ t.pc = "idle" /\ Fault(f)
      PROVE  SessionInv'
  <2>1. /\ task' \in [Processes -> Tasks] /\ task'[p] = t
        /\ \A q \in Processes \ {p} : task'[q] = task[q]
    BY <1>3, TaskTypes DEF SessionInv
  <2>2. /\ remote' \in [Families -> [status : {"unused", "live", "ended"}, gen : 0 .. MaxGen]]
        /\ remote'[f].status = "live" /\ remote'[f].gen = 1
        /\ \A g \in Families \ {f} : remote'[g] = remote[g]
    BY <1>1, <1>3 DEF SessionInv, SessionTypeOK
  <2>3. /\ faulted \subseteq faulted' /\ faulted' \subseteq Families /\ faults' \in 0 .. MaxFaults
        /\ t.pc \in ToEnd \cup {"idle"}
    BY <1>3, SessionAssumption DEF SessionInv, SessionTypeOK, Fault
  <2>4. /\ \A s \in Slots : file[s] # NoSignIn => file[s].family \in Families \ {f}
        /\ \A s \in Slots : file[s].family # f
        /\ \A q \in Processes : task[q].pc \in ToEnd => task[q].hand.family \in Families \ {f}
    BY <1>3, NoSignInIsNone DEF SessionInv, SessionTypeOK, PlacesInv, UsedOnly, HandsAreSignIns, ToEnd
  <2>5. SessionTypeOK'
    BY <1>1, <2>1, <2>2, <2>3 DEF SessionInv, SessionTypeOK, ToEnd
  <2>6. t.pc \in ToEnd => t.hand \in SignIns /\ t.hand.family = f /\ t.hand.gen = 1
    BY <1>1, <1>3 DEF SignIns, ToEnd
  <2>7. OnePlace'
    BY <1>1, <2>1, <2>4, <2>6 DEF SessionInv, PlacesInv, OnePlace
  <2>8. UsedOnly'
    BY <1>1, <2>1, <2>2, <2>4, <2>6 DEF SessionInv, PlacesInv, UsedOnly
  <2>9. HandsAreSignIns' /\ UnderLock'
    BY <1>1, <2>1, <2>3, <2>6 DEF SessionInv, PlacesInv, HandsAreSignIns, UnderLock, ToEnd
  <2>10. \A s \in Slots : Saving(s)' = Saving(s)
    BY <1>1, <2>1, <2>3 DEF Saving, ToEnd
  <2>11. \A s \in Slots : file'[s] # NoSignIn /\ ~Saving(s)' => Sound(file[s])'
    BY <1>1, <2>2, <2>3, <2>4, <2>10 DEF SessionInv, PlacesInv, NewestKept, Sound, Live, Newest
  <2>12. \A q \in Processes \ {p} : task[q].pc \in {"save", "store", "revoke"} => Sound(task[q].hand)'
    <3> SUFFICES ASSUME NEW q \in Processes \ {p}, task[q].pc \in {"save", "store", "revoke"}
                 PROVE  Sound(task[q].hand)'
      OBVIOUS
    <3>1. task[q].hand.family \in Families \ {f}
      <4>1. CASE task[q].pc = "save"
        BY <2>4, <4>1, NoSignInIsNone DEF SessionInv, SessionTypeOK, PlacesInv, UnderLock, HandsAreSignIns, Tasks
      <4>2. CASE task[q].pc \in {"store", "revoke"}
        BY <2>4, <4>2 DEF ToEnd
      <4> QED
        BY <4>1, <4>2
    <3> QED
      BY <2>1, <2>2, <2>3, <3>1 DEF SessionInv, PlacesInv, NewestKept, Sound, Live, Newest
  <2>13. t.pc \in ToEnd => Sound(task[p].hand)'
    BY <2>1, <2>2, <2>6 DEF Sound, Newest, Live, ToEnd
  <2>14. NewestKept'
    BY <2>1, <2>3, <2>11, <2>12, <2>13 DEF NewestKept, ToEnd
  <2>15. LateIsFaulted' /\ NoReuse'
    BY <1>1, <2>3 DEF SessionInv, PlacesInv, LateIsFaulted, NoReuse
  <2> QED
    BY <2>5, <2>7, <2>8, <2>9, <2>14, <2>15 DEF SessionInv, PlacesInv
<1>4. CASE ~(Become(p, NoTask) /\ UNCHANGED <<remote, faulted, faults>>)
  <2>1. PICK f \in Families :
          /\ remote[f].status = "unused"
          /\ remote' = [remote EXCEPT ![f] = [status |-> "live", gen |-> 1]]
          /\ \/ /\ \E pc \in {"store", "revoke"} :
                      Become(p, [task[p] EXCEPT !.pc = pc, !.hand = [family |-> f, gen |-> 1]])
                /\ UNCHANGED <<faulted, faults>>
             \/ Become(p, NoTask) /\ Fault(f)
    BY <1>4 DEF Exchange, End
  <2>2. CASE Become(p, NoTask) /\ Fault(f)
    BY <1>1, <1>3, <2>1, <2>2
  <2>3. ASSUME NEW pc \in {"store", "revoke"}, UNCHANGED <<faulted, faults>>,
               Become(p, [task[p] EXCEPT !.pc = pc, !.hand = [family |-> f, gen |-> 1]])
        PROVE  SessionInv'
    <3> DEFINE t == [task[p] EXCEPT !.pc = pc, !.hand = [family |-> f, gen |-> 1]]
    <3>1. [family |-> f, gen |-> 1] \in SignIns
      BY <1>1 DEF SignIns
    <3>2. t \in Tasks /\ t.pc \in ToEnd /\ t.hand = [family |-> f, gen |-> 1]
      BY <1>1, <3>1 DEF Tasks, Steps, ToEnd
    <3>3. Become(p, t)
      BY <2>3
    <3> HIDE DEF t
    <3> QED
      BY <1>3, <2>1, <2>3, <3>2, <3>3
  <2> QED
    BY <2>1, <2>2, <2>3
<1> QED
  BY <1>2, <1>4

\* A sign-in is stored or taken from its slot; the one that was there is in the hands of the
\* process that ends it.
LEMMA ReplaceSteps ==
    ASSUME SessionInv, NEW p \in Processes, Store(p) \/ Remove(p)
    PROVE  SessionInv'
<1>0. PICK slot \in Slots : slot = task[p].slot
  BY DEF SessionInv, SessionTypeOK, Tasks
<1>1. /\ task[p] \in Tasks /\ NoTask \in Tasks /\ NoTask.pc = "idle"
      /\ task[p].pc \in {"store", "remove"} /\ lock = NoProcess
      /\ UNCHANGED <<remoteVars, lock, faultVars>> /\ Replaced(p, file[slot])
  BY <1>0, SessionAssumption DEF SessionInv, SessionTypeOK, NoTask, Tasks, Steps, Store, Remove
<1>2. PICK x \in SignIns \cup {NoSignIn} :
        /\ file' = [file EXCEPT ![slot] = x]
        /\ x # NoSignIn => task[p].pc = "store" /\ task[p].hand = x
  BY <1>0, <1>1 DEF Store, Remove, Write, SessionInv, PlacesInv, HandsAreSignIns
<1>3. PICK t \in Tasks :
        /\ Become(p, t)
        /\ \/ t.pc = "idle"
           \/ t.pc = "revoke" /\ t.hand = file[slot] /\ file[slot] # NoSignIn
  <2> DEFINE next == [task[p] EXCEPT !.pc = "revoke", !.hand = file[slot]]
  <2>1. next \in Tasks /\ next.pc = "revoke" /\ next.hand = file[slot]
    BY <1>1 DEF Tasks, Steps, SessionInv, SessionTypeOK
  <2>2. Become(p, NoTask) \/ (Become(p, next) /\ file[slot] # NoSignIn)
    BY <1>1 DEF Replaced, End
  <2> HIDE DEF next
  <2> QED
    BY <1>1, <2>1, <2>2
<1>4. /\ task' \in [Processes -> Tasks] /\ task'[p] = t
      /\ \A q \in Processes \ {p} : task'[q] = task[q]
  BY <1>3, TaskTypes DEF SessionInv
<1>5. \A q \in Processes : task[q].pc \notin {"refresh", "save"} /\ task'[q].pc \notin {"refresh", "save"}
  BY <1>1, <1>3, <1>4, SessionAssumption DEF SessionInv, SessionTypeOK
<1>6. /\ file' \in [Slots -> SignIns \cup {NoSignIn}] /\ file'[slot] = x
      /\ \A s \in Slots \ {slot} : file'[s] = file[s]
  BY <1>2 DEF SessionInv, SessionTypeOK
<1>7. SessionTypeOK'
  BY <1>1, <1>4, <1>5, <1>6, SessionAssumption DEF SessionInv, SessionTypeOK, remoteVars, faultVars
<1>8. OnePlace'
  <2>1. \A s, r \in Slots : s # r /\ file'[s] # NoSignIn => file'[s].family # file'[r].family
    BY <1>2, <1>6, NoSignInIsNone DEF SessionInv, PlacesInv, OnePlace, ToEnd, HandsAreSignIns, SessionTypeOK
  <2>2. ASSUME NEW q \in Processes, task'[q].pc \in ToEnd
        PROVE  \A s \in Slots : file'[s].family # task'[q].hand.family
    <3>1. CASE q = p
      <4>1. t.hand = file[slot] /\ file[slot] \in SignIns
        BY <1>3, <1>4, <2>2, <3>1, NoSignInIsNone DEF ToEnd, SessionInv, SessionTypeOK
      <4>2. \A s \in Slots \ {slot} : file[s].family # file[slot].family
        BY <4>1, NoSignInIsNone DEF SessionInv, PlacesInv, OnePlace
      <4>3. x.family # file[slot].family
        BY <1>2, <4>1, NoSignInIsNone DEF SessionInv, PlacesInv, OnePlace, ToEnd
      <4> QED
        BY <1>4, <1>6, <3>1, <4>1, <4>2, <4>3
    <3>2. CASE q # p
      <4>1. task'[q] = task[q] /\ task[q].hand \in SignIns
        BY <1>4, <2>2, <3>2 DEF SessionInv, PlacesInv, HandsAreSignIns, ToEnd
      <4>2. x.family # task[q].hand.family
        BY <1>2, <2>2, <3>2, <4>1, NoSignInIsNone DEF SessionInv, PlacesInv, OnePlace, ToEnd
      <4> QED
        BY <1>6, <2>2, <4>1, <4>2 DEF SessionInv, PlacesInv, OnePlace
    <3> QED
      BY <3>1, <3>2
  <2>3. ASSUME NEW q \in Processes, NEW r \in Processes, q # r,
               task'[q].pc \in ToEnd, task'[r].pc \in ToEnd
        PROVE  task'[q].hand.family # task'[r].hand.family
    <3>1. CASE q # p /\ r # p
      BY <1>4, <2>3, <3>1 DEF SessionInv, PlacesInv, OnePlace
    <3>2. ASSUME NEW o \in Processes \ {p}, task[o].pc \in ToEnd, t.pc \in ToEnd
          PROVE  task[o].hand.family # t.hand.family
      BY <1>3, <3>2 DEF SessionInv, PlacesInv, OnePlace, ToEnd
    <3> QED
      BY <1>4, <2>3, <3>1, <3>2
  <2> QED
    BY <2>1, <2>2, <2>3 DEF OnePlace
<1>9. UsedOnly'
  BY <1>1, <1>2, <1>3, <1>4, <1>6 DEF SessionInv, PlacesInv, UsedOnly, ToEnd, remoteVars
<1>10. HandsAreSignIns' /\ UnderLock'
  BY <1>3, <1>4, <1>5, NoSignInIsNone DEF SessionInv, PlacesInv, HandsAreSignIns, UnderLock, SessionTypeOK
<1>11. NewestKept'
  BY <1>1, <1>2, <1>3, <1>4, <1>5, <1>6 DEF SessionInv, PlacesInv, NewestKept, Saving, Sound, Live, Newest,
     remoteVars, faultVars
<1>12. LateIsFaulted' /\ NoReuse'
  BY <1>1 DEF SessionInv, PlacesInv, LateIsFaulted, NoReuse, remoteVars, faultVars
<1> QED
  BY <1>7, <1>8, <1>9, <1>10, <1>11, <1>12 DEF SessionInv, PlacesInv

\* A sign-in ends, by a process that revokes it or at Silicon Accounts, or a refresh that
\* was given up reaches it: no other sign-in notices.
LEMMA ElsewhereStep ==
    ASSUME SessionInv, NEW f \in Families,
           remote' \in [Families -> [status : {"unused", "live", "ended"}, gen : 0 .. MaxGen]],
           \A g \in Families \ {f} : remote'[g] = remote[g],
           \/ remote'[f].status = "ended"
           \/ remote'[f] = remote[f]
           \/ remote'[f].status = "live" /\ f \in faulted
    PROVE  /\ \A g \in Families : remote[g].status # "unused" => remote'[g].status # "unused"
           /\ \A x \in SignIns : Sound(x) => (remote'[x.family].status = "live" /\ x.family \notin faulted =>
                                              x.gen = remote'[x.family].gen)
  BY NoSignInIsNone DEF Sound, Live, Newest

\* The invariant after such a step.
LEMMA RemoteSteps ==
    ASSUME SessionInv,
           \/ \E f \in Families : EndRemotely(f)
           \/ \E x \in late : Arrive(x)
           \/ \E p \in Processes : Revoke(p)
    PROVE  SessionInv'
<1>1. PICK f \in Families :
        /\ remote' \in [Families -> [status : {"unused", "live", "ended"}, gen : 0 .. MaxGen]]
        /\ \A g \in Families \ {f} : remote'[g] = remote[g]
        /\ \/ remote'[f].status = "ended"
           \/ remote'[f] = remote[f]
           \/ remote'[f].status = "live" /\ f \in faulted
        /\ reused' = reused \/ (reused' = reused \cup {f} /\ f \in faulted)
        /\ late' \subseteq late
        /\ UNCHANGED <<stale, file, lock, faulted, faults>>
  <2>1. ASSUME NEW f \in Families
        PROVE  Ended(f) \in [Families -> [status : {"unused", "live", "ended"}, gen : 0 .. MaxGen]]
               /\ Ended(f)[f].status = "ended" /\ \A g \in Families \ {f} : Ended(f)[g] = remote[g]
    BY SessionAssumption DEF SessionInv, SessionTypeOK, Ended
  <2>2. ASSUME NEW f \in Families, EndRemotely(f)
        PROVE  remote' = Ended(f) /\ UNCHANGED <<reused, late, stale, file, lock, faulted, faults>>
    BY <2>2 DEF EndRemotely, faultVars
  <2>3. ASSUME NEW x \in late, Arrive(x)
        PROVE  /\ x \in SignIns /\ x.family \in Families /\ x.family \in faulted /\ Present(x)
               /\ late' \subseteq late /\ UNCHANGED <<stale, file, lock, faulted, faults>>
    BY <2>3, NoSignInIsNone DEF Arrive, SessionInv, SessionTypeOK, PlacesInv, LateIsFaulted
  <2>4. ASSUME NEW p \in Processes, Revoke(p)
        PROVE  /\ task[p].hand.family \in Families
               /\ remote' \in {Ended(task[p].hand.family), remote}
               /\ UNCHANGED <<reused, late, stale, file, lock, faulted, faults>>
    BY <2>4, NoSignInIsNone DEF Revoke, SessionInv, PlacesInv, HandsAreSignIns, faultVars
  <2>5. CASE \E f \in Families : EndRemotely(f)
    BY <2>1, <2>2, <2>5
  <2>6. CASE \E x \in late : Arrive(x)
    <3>1. PICK x \in late : Arrive(x)
      BY <2>6
    <3>2. /\ x \in SignIns /\ x.family \in Families /\ x.family \in faulted /\ Present(x)
          /\ late' \subseteq late /\ UNCHANGED <<stale, file, lock, faulted, faults>>
      BY <2>3, <3>1
    <3> QED
      BY <3>2, PresentTypes DEF SessionInv
  <2>7. CASE \E p \in Processes : Revoke(p)
    <3>1. PICK p \in Processes : Revoke(p)
      BY <2>7
    <3>2. PICK f \in Families : f = task[p].hand.family
      BY <2>4, <3>1
    <3>3. /\ remote' = Ended(f) \/ remote' = remote
          /\ UNCHANGED <<reused, late, stale, file, lock, faulted, faults>>
      BY <2>4, <3>1, <3>2
    <3>4. /\ remote' \in [Families -> [status : {"unused", "live", "ended"}, gen : 0 .. MaxGen]]
          /\ \A g \in Families \ {f} : remote'[g] = remote[g]
          /\ remote'[f].status = "ended" \/ remote'[f] = remote[f]
      BY <2>1, <3>3 DEF SessionInv, SessionTypeOK
    <3> QED
      BY <3>3, <3>4
  <2> QED
    BY <2>5, <2>6, <2>7
<1>2. /\ \A g \in Families : remote[g].status # "unused" => remote'[g].status # "unused"
      /\ \A x \in SignIns : Sound(x) => (remote'[x.family].status = "live" /\ x.family \notin faulted =>
                                         x.gen = remote'[x.family].gen)
  BY <1>1, ElsewhereStep
<1>3. task' = task \/ \E p \in Processes : task[p].pc = "revoke" /\ Become(p, NoTask)
  BY DEF EndRemotely, Arrive, Revoke, End
<1>4. NoTask \in Tasks /\ NoTask.pc = "idle"
  BY SessionAssumption DEF NoTask, Tasks, Steps
<1>5. /\ task' \in [Processes -> Tasks]
      /\ \A q \in Processes :
            \/ task'[q] = task[q]
            \/ task[q].pc = "revoke" /\ task'[q] = NoTask
  <2>1. CASE task' = task
    BY <2>1 DEF SessionInv, SessionTypeOK
  <2>2. ASSUME NEW p \in Processes, task[p].pc = "revoke", Become(p, NoTask)
        PROVE  /\ task' \in [Processes -> Tasks] /\ task'[p] = NoTask
               /\ \A q \in Processes \ {p} : task'[q] = task[q]
    BY <1>4, <2>2, TaskTypes DEF SessionInv
  <2> QED
    BY <1>3, <2>1, <2>2
<1>6. SessionTypeOK'
  BY <1>1, <1>4, <1>5 DEF SessionInv, SessionTypeOK
<1>7. OnePlace'
  BY <1>1, <1>4, <1>5 DEF SessionInv, PlacesInv, OnePlace, ToEnd
<1>8. UsedOnly'
  BY <1>1, <1>2, <1>4, <1>5, NoSignInIsNone DEF SessionInv, SessionTypeOK, PlacesInv, UsedOnly, HandsAreSignIns,
     ToEnd
<1>9. HandsAreSignIns' /\ UnderLock'
  BY <1>1, <1>4, <1>5 DEF SessionInv, PlacesInv, HandsAreSignIns, UnderLock
<1>10. \A s \in Slots : Saving(s)' <=> Saving(s)
  BY <1>4, <1>5 DEF Saving
<1>11. NewestKept'
  <2>1. \A x \in SignIns : Sound(x) => (Live(x.family)' /\ x.family \notin faulted' => Newest(x)')
    BY <1>1, <1>2 DEF Live, Newest
  <2>2. ASSUME NEW s \in Slots, file'[s] # NoSignIn, ~Saving(s)' PROVE Sound(file[s])'
    <3>1. file'[s] = file[s] /\ file[s] \in SignIns /\ Sound(file[s])
      BY <1>1, <1>10, <2>2, NoSignInIsNone DEF SessionInv, SessionTypeOK, PlacesInv, NewestKept
    <3> QED
      BY <2>1, <3>1 DEF Sound, Live, Newest
  <2>3. ASSUME NEW p \in Processes, task'[p].pc \in {"save", "store", "revoke"} PROVE Sound(task[p].hand)'
    <3>1. task'[p] = task[p] /\ task[p].hand \in SignIns /\ Sound(task[p].hand)
      BY <1>4, <1>5, <2>3 DEF SessionInv, PlacesInv, NewestKept, HandsAreSignIns
    <3> QED
      BY <2>1, <3>1 DEF Sound, Live, Newest
  <2> QED
    BY <2>2, <2>3 DEF NewestKept
<1>12. LateIsFaulted' /\ NoReuse'
  BY <1>1 DEF SessionInv, PlacesInv, LateIsFaulted, NoReuse
<1> QED
  BY <1>6, <1>7, <1>8, <1>9, <1>11, <1>12 DEF SessionInv, PlacesInv

\* An access token ages: only `stale` changes.
LEMMA ExpireStep == ASSUME SessionInv, NEW f \in Families, Expire(f) PROVE SessionInv'
<1>1. SessionTypeOK'
  BY DEF SessionInv, SessionTypeOK, Expire, faultVars
<1> QED
  BY <1>1 DEF SessionInv, PlacesInv, OnePlace, HandsAreSignIns, UsedOnly, UnderLock, NewestKept, Saving, Sound,
     Live, Newest, LateIsFaulted, NoReuse, Expire, faultVars
----------------------------------------------------------------------------
(* No sign-in is left behind *)

Kept(f) ==
    \/ \E s \in Slots : file[s].family = f
    \/ \E p \in Processes : Holds(p, f)
    \/ f \in faulted

\* A process that has nothing to store or end goes on: what was kept is kept.
LEMMA KeptByOthers ==
    ASSUME SessionInv, NEW p \in Processes, NEW t \in Tasks, Become(p, t),
           task[p].pc \notin ToEnd, faulted \subseteq faulted',
           NEW f \in Families, Kept(f),
           \A s \in Slots : file[s].family = f => file'[s].family = f
    PROVE  Kept(f)'
<1>1. \A q \in Processes \ {p} : task'[q] = task[q]
  BY TaskTypes DEF SessionInv
<1> QED
  BY <1>1 DEF Kept, Holds, ToEnd

\* Beginning, calling, taking the lock: nothing is stored, taken or ended.
LEMMA QuietKeeps ==
    ASSUME SessionInv, NoOrphans, NEW p \in Processes, NEW s \in Slots,
           Command(p, s) \/ Call(p) \/ Lock(p)
    PROVE  NoOrphans'
<1> SUFFICES ASSUME NEW f \in Families, Live(f)' PROVE Kept(f)'
  BY DEF NoOrphans, Kept
<1>1. UNCHANGED <<remote, file, faulted>> /\ task[p].pc \notin ToEnd /\ \A q \in Processes \ {p} : task'[q] = task[q]
  BY DEF Command, Begin, BeginLogin, BeginRemove, Call, Lock, MayLock, Become, End, Proceed, remoteVars, faultVars,
     ToEnd, SessionInv, SessionTypeOK
<1>2. Kept(f)
  BY <1>1 DEF NoOrphans, Kept, Live
<1> QED
  BY <1>1, <1>2 DEF Kept, Holds, ToEnd

\* A refresh, saved or not: the slot has a sign-in of the same family, or it has ended.
LEMMA RefreshKeeps ==
    ASSUME SessionInv, NoOrphans, NEW p \in Processes, Refresh(p) \/ Save(p)
    PROVE  NoOrphans'
<1> SUFFICES ASSUME NEW f \in Families, Live(f)' PROVE Kept(f)'
  BY DEF NoOrphans, Kept
<1> DEFINE x == task[p].hand
<1>0. PICK slot \in Slots : slot = task[p].slot
  BY DEF SessionInv, SessionTypeOK, Tasks
<1>1. /\ x \in SignIns /\ x.family \in Families /\ x.family = file[slot].family
      /\ task[p].pc \in {"refresh", "save"} /\ faulted' = faulted
      /\ \A q \in Processes \ {p} : task'[q] = task[q]
  <2>1. \A q \in Processes \ {p} : task'[q] = task[q]
    BY DEF Refresh, Save, Proceed, Become, End, SessionInv, SessionTypeOK
  <2> QED
    BY <1>0, <2>1, NoSignInIsNone DEF SessionInv, PlacesInv, HandsAreSignIns, UnderLock, Refresh, Save, faultVars
<1>2. Live(f) /\ \A s \in Slots : file[s].family = f => file'[s].family = f
  <2>1. CASE Save(p)
    BY <1>0, <1>1, <2>1 DEF Save, Write, Live, remoteVars, SessionInv, SessionTypeOK
  <2>2. CASE Refresh(p) /\ Rotates(x)
    <3>1. \A g \in Families \ {x.family} : remote'[g] = remote[g]
      BY <1>1, <2>2, PresentTypes DEF SessionInv, Refresh
    <3> QED
      BY <2>2, <3>1 DEF Refresh, Rotates, Newest, Live
  <2>3. CASE Refresh(p) /\ ~Rotates(x)
    <3>1. /\ \A g \in Families \ {x.family} : remote'[g] = remote[g]
          /\ remote'[x.family].status = "ended"
      BY <1>1, <2>3, PresentTypes DEF SessionInv, Refresh
    <3>2. f # x.family /\ Live(f)
      BY <3>1 DEF Live
    <3>3. \A s \in Slots \ {slot} : file'[s] = file[s]
      BY <1>0, <2>3 DEF Refresh, Write, SessionInv, SessionTypeOK
    <3> QED
      BY <1>1, <3>2, <3>3
  <2> QED
    BY <2>1, <2>2, <2>3
<1> QED
  BY <1>1, <1>2 DEF NoOrphans, Kept, Holds

\* A failure: what was in the hands of the process counts as hit.
LEMMA FaultKeeps ==
    ASSUME SessionInv, NoOrphans, NEW p \in Processes, GiveUp(p) \/ Fail(p)
    PROVE  NoOrphans'
<1>1. /\ UNCHANGED <<remote, file>> /\ faulted' = faulted \cup {task[p].hand.family}
      /\ \A q \in Processes \ {p} : task'[q] = task[q]
  BY DEF GiveUp, GivenUp, Fail, Fault, Become, End, remoteVars, SessionInv, SessionTypeOK
<1> QED
  BY <1>1 DEF NoOrphans, Holds, Live

\* A new sign-in is in the hands of the process, or its answer was lost.
LEMMA ExchangeKeeps ==
    ASSUME SessionInv, NoOrphans, NEW p \in Processes, Exchange(p)
    PROVE  NoOrphans'
<1>1. /\ task[p].pc = "exchange" /\ file' = file
      /\ \A q \in Processes \ {p} : task'[q] = task[q]
  BY DEF Exchange, Become, End, SessionInv, SessionTypeOK
<1>2. faulted \subseteq faulted'
  BY DEF Exchange, Fault
<1>3. ASSUME NEW f \in Families, Live(f)', Live(f)
      PROVE  \/ \E s \in Slots : file'[s].family = f
             \/ \E q \in Processes : Holds(q, f)'
             \/ f \in faulted'
  BY <1>1, <1>2, <1>3 DEF NoOrphans, Holds
<1>4. ASSUME NEW f \in Families, Live(f)', ~Live(f)
      PROVE  Holds(p, f)' \/ f \in faulted'
  <2>1. PICK g \in Families :
          /\ remote' = [remote EXCEPT ![g] = [status |-> "live", gen |-> 1]]
          /\ \/ \E pc \in {"store", "revoke"} :
                  Become(p, [task[p] EXCEPT !.pc = pc, !.hand = [family |-> g, gen |-> 1]])
             \/ Fault(g)
    BY <1>4 DEF Exchange, Live
  <2>2. g = f
    BY <1>4, <2>1 DEF Live, SessionInv, SessionTypeOK
  <2>3. CASE Fault(g)
    BY <2>2, <2>3 DEF Fault
  <2>4. ASSUME NEW pc \in {"store", "revoke"},
               Become(p, [task[p] EXCEPT !.pc = pc, !.hand = [family |-> g, gen |-> 1]])
        PROVE  Holds(p, f)'
    BY <2>2, <2>4 DEF Holds, Become, SessionInv, SessionTypeOK, Tasks
  <2> QED
    BY <2>1, <2>3, <2>4
<1> QED
  BY <1>3, <1>4 DEF NoOrphans

\* What leaves a slot is in the hands of the process, and what it stores is in the slot.
LEMMA ReplaceKeeps ==
    ASSUME SessionInv, NoOrphans, NEW p \in Processes, Store(p) \/ Remove(p)
    PROVE  NoOrphans'
<1> SUFFICES ASSUME NEW f \in Families, Live(f) PROVE Kept(f)'
  BY DEF NoOrphans, Kept, Live, Store, Remove, remoteVars
<1>0. PICK slot \in Slots : slot = task[p].slot
  BY DEF SessionInv, SessionTypeOK, Tasks
<1>1. /\ task[p] \in Tasks /\ faulted' = faulted /\ Replaced(p, file[slot])
      /\ file[slot] \in SignIns \cup {NoSignIn}
      /\ \A q \in Processes \ {p} : task'[q] = task[q]
  BY <1>0 DEF Store, Remove, Replaced, Become, End, faultVars, SessionInv, SessionTypeOK
<1>2. /\ \A s \in Slots \ {slot} : file'[s] = file[s]
      /\ task[p].pc = "store" => file'[slot] = task[p].hand
      /\ task[p].pc \in {"store", "remove"}
  BY <1>0 DEF Store, Remove, Write, SessionInv, SessionTypeOK
<1>3. CASE file[slot].family = f
  <2>1. Become(p, [task[p] EXCEPT !.pc = "revoke", !.hand = file[slot]])
    BY <1>1, <1>3, NoSignInIsNone DEF Replaced
  <2>2. Holds(p, f)'
    BY <1>1, <1>3, <2>1 DEF Holds, Become, SessionInv, SessionTypeOK, Tasks
  <2> QED
    BY <2>2 DEF Kept
<1>4. CASE file[slot].family # f
  BY <1>1, <1>2, <1>4 DEF NoOrphans, Kept, Holds
<1> QED
  BY <1>3, <1>4

\* A process ends the newest generation, so that the sign-in is not live any more.
LEMMA RevokeKeeps ==
    ASSUME SessionInv, NoOrphans, NEW p \in Processes, Revoke(p)
    PROVE  NoOrphans'
<1> DEFINE x == task[p].hand
<1>1. /\ UNCHANGED <<file, faulted>> /\ \A q \in Processes \ {p} : task'[q] = task[q]
  BY DEF Revoke, Become, End, faultVars, SessionInv, SessionTypeOK
<1>2. x \in SignIns /\ x.family \in Families /\ Sound(x)
  BY NoSignInIsNone DEF Revoke, SessionInv, PlacesInv, HandsAreSignIns, NewestKept
<1>3. \A f \in Families : Live(f)' => Live(f) /\ (f # x.family \/ f \in faulted)
  BY <1>2 DEF Revoke, Ended, Sound, Live, Newest, SessionInv, SessionTypeOK
<1> QED
  BY <1>1, <1>3 DEF NoOrphans, Holds

\* Nothing becomes live by ending, arriving or ageing.
LEMMA ElsewhereKeeps ==
    ASSUME SessionInv, NoOrphans,
           \/ \E f \in Families : Expire(f) \/ EndRemotely(f)
           \/ \E x \in late : Arrive(x)
    PROVE  NoOrphans'
<1>1. UNCHANGED <<file, task, faulted>>
  BY DEF Expire, EndRemotely, Arrive, faultVars
<1>2. \A f \in Families : Live(f)' => Live(f)
  <2>1. CASE \E f \in Families : Expire(f) \/ EndRemotely(f)
    BY <2>1 DEF Expire, EndRemotely, Ended, Live, SessionInv, SessionTypeOK
  <2>2. ASSUME NEW x \in late, Arrive(x) PROVE \A f \in Families : Live(f)' => Live(f)
    <3>1. x \in SignIns /\ Present(x) /\ x.family \in Families
      BY <2>2, NoSignInIsNone DEF Arrive, SessionInv, SessionTypeOK
    <3>2. /\ \A f \in Families \ {x.family} : remote'[f] = remote[f]
          /\ ~Rotates(x) => remote'[x.family].status = "ended"
      BY <3>1, PresentTypes DEF SessionInv
    <3> QED
      BY <3>1, <3>2 DEF Live, Rotates, Newest
  <2> QED
    BY <2>1, <2>2
<1> QED
  BY <1>1, <1>2 DEF NoOrphans, Holds
----------------------------------------------------------------------------
(* Theorems *)

\* Every step keeps the invariant.
LEMMA SessionStep == ASSUME SessionInv, [Next]_vars PROVE SessionInv'
<1>1. CASE \E f \in Families : Expire(f)
  BY <1>1, ExpireStep
<1>2. CASE \/ \E f \in Families : EndRemotely(f)
           \/ \E x \in late : Arrive(x)
           \/ \E p \in Processes : Revoke(p)
  BY <1>2, RemoteSteps
<1>3. ASSUME NEW p \in Processes, Step(p), ~Revoke(p) PROVE SessionInv'
  <2>1. PICK s \in Slots : TRUE
    BY SessionAssumption
  <2> QED
    BY <1>3, <2>1, StartSteps, LockStep, RefreshStep, FaultSteps, SaveStep, ExchangeStep, ReplaceSteps DEF Step
<1>4. ASSUME NEW p \in Processes, NEW s \in Slots, Command(p, s) PROVE SessionInv'
  BY <1>4, StartSteps DEF Command
<1>5. CASE UNCHANGED vars
  BY <1>5 DEF vars, SessionInv, SessionTypeOK, PlacesInv, OnePlace, HandsAreSignIns, UsedOnly, UnderLock,
     NewestKept, Saving, Sound, Live, Newest, LateIsFaulted, NoReuse
<1> QED
  BY <1>1, <1>2, <1>3, <1>4, <1>5 DEF Next

\* The invariant holds in every reachable state.
LEMMA SessionInvariant == Spec => []SessionInv
<1>1. Init => SessionInv
  BY SessionInit
<1>2. SessionInv /\ [Next]_vars => SessionInv'
  BY SessionStep
<1> QED
  BY <1>1, <1>2, PTL DEF Spec

\* Commands that run at once never present one refresh token twice: a sign-in ends by reuse
\* only after a failure in the middle of one of its own refreshes or writes.
THEOREM TokensPresentedOnce == Spec => []NoReuse
<1>1. SessionInv => NoReuse
  BY DEF SessionInv
<1> QED
  BY <1>1, SessionInvariant, PTL

\* Every step leaves every live sign-in with someone.
LEMMA OrphansStep == ASSUME SessionInv, NoOrphans, [Next]_vars PROVE NoOrphans'
<1>1. CASE \/ \E f \in Families : Expire(f) \/ EndRemotely(f)
           \/ \E x \in late : Arrive(x)
  BY <1>1, ElsewhereKeeps
<1>2. ASSUME NEW p \in Processes, Step(p) PROVE NoOrphans'
  <2>1. PICK s \in Slots : TRUE
    BY SessionAssumption
  <2> QED
    BY <1>2, <2>1, QuietKeeps, RefreshKeeps, FaultKeeps, ExchangeKeeps, ReplaceKeeps, RevokeKeeps DEF Step
<1>3. ASSUME NEW p \in Processes, NEW s \in Slots, Command(p, s) PROVE NoOrphans'
  BY <1>3, QuietKeeps
<1>4. CASE UNCHANGED vars
  BY <1>4 DEF vars, NoOrphans, Holds, Live
<1> QED
  BY <1>1, <1>2, <1>3, <1>4 DEF Next

\* Logins, logouts and refreshes that run at once leave no live sign-in behind that is in
\* no slot and that nobody is about to save or end, unless a failure hit it.
THEOREM NobodyLeftBehind == Spec => []NoOrphans
<1>1. Init => NoOrphans
  BY DEF Init, NoOrphans, Live
<1>2. SessionInv /\ NoOrphans /\ [Next]_vars => NoOrphans'
  BY OrphansStep
<1> QED
  BY <1>1, <1>2, SessionInvariant, PTL DEF Spec

\* The variables have their types, and the lock is held exactly during a refresh.
THEOREM SessionTypes == Spec => []SessionTypeOK
<1>1. SessionInv => SessionTypeOK
  BY DEF SessionInv
<1> QED
  BY <1>1, SessionInvariant, PTL

WorkingStays ==
    \A s \in Slots :
        (\E f \in Families : /\ file[s].family = f /\ file'[s].family # f
                             /\ remote'[f].status = "live") =>
            \E p \in Processes : task[p].slot = s /\ task[p].pc \in {"store", "remove"}

\* A step that changes a slot stores or removes a sign-in there on purpose, saves a newer
\* generation of the same one, or has just learned that it ended.
LEMMA SlotStep == ASSUME SessionInv, [Next]_vars PROVE WorkingStays
<1> SUFFICES ASSUME NEW s \in Slots, NEW f \in Families, file[s].family = f, file'[s].family # f,
                    remote'[f].status = "live"
             PROVE  \E p \in Processes : task[p].slot = s /\ task[p].pc \in {"store", "remove"}
  BY DEF WorkingStays
<1>1. /\ file \in [Slots -> SignIns \cup {NoSignIn}] /\ file' # file
      /\ \A p \in Processes : task[p] \in Tasks /\ task[p].slot \in Slots
  BY DEF SessionInv, SessionTypeOK, Tasks
<1>2. PICK p \in Processes : Refresh(p) \/ Save(p) \/ Store(p) \/ Remove(p)
  BY <1>1 DEF vars, faultVars, Next, Expire, EndRemotely, Arrive, Step, Command, Begin, BeginLogin, BeginRemove,
     Call, Lock, GiveUp, GivenUp, Exchange, Revoke, Fail
<1>3. \A x : Write(task[p].slot, x) => task[p].slot = s /\ file'[s] = x
  BY <1>1 DEF Write
<1>4. CASE Refresh(p)
  <2> DEFINE x == task[p].hand
  <2>1. x \in SignIns /\ x = file[task[p].slot] /\ Present(x)
    BY <1>4 DEF Refresh, SessionInv, PlacesInv, HandsAreSignIns, UnderLock
  <2>2. ~Rotates(x) /\ task[p].slot = s
    BY <1>1, <1>3, <1>4 DEF Refresh
  <2>3. remote'[x.family].status = "ended"
    BY <2>1, <2>2, PresentTypes DEF SessionInv
  <2> QED
    BY <2>1, <2>2, <2>3
<1>5. CASE Save(p)
  <2>1. task[p].slot = s /\ file'[s] = task[p].hand
    BY <1>3, <1>5 DEF Save
  <2>2. task[p].hand.family = file[s].family
    BY <1>5, <2>1 DEF Save, SessionInv, PlacesInv, UnderLock
  <2> QED
    BY <2>1, <2>2
<1>6. CASE Store(p) \/ Remove(p)
  BY <1>3, <1>6 DEF Store, Remove
<1> QED
  BY <1>2, <1>4, <1>5, <1>6

\* A saved sign-in that still works leaves its slot only for a command that says so: a
\* refresh that fails, or finds that another command changed the slot, keeps it.
THEOREM WorkingOnesStay == Spec => WorkingSignInsStay
<1>1. SessionInv /\ [Next]_vars =>
        [\A s \in Slots :
            (\E f \in Families : /\ file[s].family = f /\ file'[s].family # f
                                 /\ remote'[f].status = "live") =>
                \E p \in Processes : task[p].slot = s /\ task[p].pc \in {"store", "remove"}]_vars
  BY SlotStep DEF WorkingStays
<1> QED
  BY <1>1, SessionInvariant, PTL DEF Spec, WorkingSignInsStay
----------------------------------------------------------------------------
(* The web frontend *)

\* A refresh that is done.
Recalled(s, g) == memo[s][g].pc = "done"

\* Requests, answers and calls take no longer than they may.
OnTime ==
    /\ \A t \in Trips : trip[t] # Home =>
          /\ trip[t].since <= moment
          /\ trip[t].pc = "out" => moment <= trip[t].since + Travel
          /\ trip[t].pc = "back" => moment <= trip[t].since + WayBack
    /\ \A s \in Servers, g \in Tokens : memo[s][g].pc \in {"calling", "presented"} =>
          moment <= memo[s][g].until
    /\ \A g \in Tokens : received[g] <= moment

\* Somebody waits for every call.
Awaited == \A s \in Servers, g \in Tokens :
    memo[s][g].pc \in {"calling", "presented"} => Waiting(s, g) # {}

\* Nobody has the newest token before its refresh ends.
Unseen(s) ==
    (\E g \in Tokens : g + 1 = latest /\ memo[s][g].pc = "presented") =>
        /\ memo[s][latest] = NoMemo
        /\ cookie # latest
        /\ \A t \in Trips : trip[t].pc \in {"out", "waiting"} => trip[t].carries # latest
        /\ \A t \in Trips : trip[t].pc = "back" => trip[t].sets # latest

\* Only the newest token is being refreshed, long after it was received, and the token
\* before it is remembered for a time since then.
MemoFits(s) ==
    \A g \in Tokens :
        /\ g > latest => memo[s][g] = NoMemo
        /\ g = latest =>
              /\ memo[s][g].pc \in {"none", "calling", "done"} /\ memo[s][g].answer = Keep
              /\ memo[s][g].pc = "calling" => moment > received[g] + 2 * WayBack + Travel
        /\ g + 1 = latest /\ memo[s][g].pc # "none" =>
              /\ memo[s][g].pc \in {"presented", "done"} /\ memo[s][g].answer = latest
              /\ memo[s][g].pc = "done" => memo[s][g].until = received[latest] + Memo
        /\ g + 1 < latest => memo[s][g].pc \in {"none", "done"}

\* The cookie is the newest token, or the one before while its successor is on the way.
CookieFits(s) ==
    cookie \in {Clear, latest} \/
      /\ cookie + 1 = latest
      /\ \/ memo[s][cookie].pc = "presented"
         \/ /\ Recalled(s, cookie)
            /\ \E t \in Trips : trip[t].pc = "back" /\ trip[t].sets # Keep
                                /\ trip[t].since = received[latest]

\* So is what a request carries that sets out, and what an answer brings.
TripFits(s, t) ==
    /\ trip[t].pc = "out" => trip[t].carries = latest \/
         /\ trip[t].carries + 1 = latest
         /\ \/ memo[s][trip[t].carries].pc = "presented"
            \/ /\ Recalled(s, trip[t].carries)
               /\ trip[t].since <= received[latest] + WayBack
    /\ trip[t].pc = "waiting" => memo[s][trip[t].carries].pc \in {"calling", "presented"}
    /\ trip[t].pc = "back" /\ trip[t].sets \in Tokens =>
         trip[t].sets = latest /\ trip[t].since <= received[latest] + WayBack + Travel

Fits == \A s \in Servers : MemoFits(s) /\ Unseen(s) /\ CookieFits(s) /\ \A t \in Trips : TripFits(s, t)

WebInv ==
    /\ WebTypeOK /\ OnTime /\ Awaited /\ RefreshedOnce
    /\ ~mishap /\ ~over => Fits

USE DEF Keep, Clear

\* The invariant holds when the browser has signed in.
LEMMA WebInitially == WebInit => WebInv
<1> SUFFICES ASSUME WebInit PROVE WebInv
  OBVIOUS
<1> USE WebAssumption DEF WebInit
<1>1. WebTypeOK
  <2>1. 1 \in Tokens /\ 0 \in Moments /\ NoMemo \in Memos /\ moment \in Moments
    BY DEF Moments, Tokens, Memos, NoMemo, Answers
  <2> QED
    BY <2>1 DEF WebTypeOK
<1>2. OnTime /\ Awaited /\ RefreshedOnce
  BY DEF OnTime, Awaited, RefreshedOnce, NoMemo, Home, Tokens, Moments
<1>3. Fits
  BY DEF Fits, MemoFits, Unseen, CookieFits, TripFits, NoMemo, Home, Tokens
<1> QED
  BY <1>1, <1>2, <1>3 DEF WebInv

\* A request takes the cookie along while its token is the newest, or is remembered.
LEMMA VisitKeeps ==
    ASSUME WebInv, NEW t \in Trips, Visit(t)
    PROVE  WebInv'
<1> USE WebAssumption DEF WebInv
<1>1. /\ trip'[t] \in TripRows /\ trip'[t].pc = "out"
      /\ trip'[t].carries = cookie /\ trip'[t].since = moment
      /\ cookie # Clear /\ trip[t] = Home
      /\ \A u \in Trips : u # t => trip'[u] = trip[u]
      /\ trip' \in [Trips -> TripRows \cup {Home}]
      /\ UNCHANGED <<moment, latest, over, cookie, received, memo, replayed, mishap>>
  BY DEF Visit, WebTypeOK, TripRows, Answers
<1>2. WebTypeOK'
  BY <1>1 DEF WebTypeOK
<1>3. OnTime'
  BY <1>1 DEF OnTime, Moments, WebTypeOK
<1>4. Awaited' /\ RefreshedOnce'
  <2>1. \A s \in Servers, g \in Tokens : Waiting(s, g) \subseteq Waiting(s, g)'
    BY <1>1 DEF Waiting, Home
  <2> QED
    BY <1>1, <2>1 DEF Awaited, RefreshedOnce
<1>5. ASSUME ~mishap', ~over', NEW s \in Servers PROVE MemoFits(s)' /\ Unseen(s)'
  <2>1. MemoFits(s) /\ Unseen(s)
    BY <1>1, <1>5 DEF Fits
  <2>2. MemoFits(s)'
    BY <1>1, <2>1 DEF MemoFits
  <2>3. Unseen(s)'
    BY <1>1, <2>1 DEF Unseen
  <2> QED
    BY <2>2, <2>3
<1>6. ASSUME ~mishap', ~over', NEW s \in Servers PROVE CookieFits(s)'
  <2>1. CookieFits(s)
    BY <1>1, <1>6 DEF Fits
  <2> QED
    BY <1>1, <2>1 DEF CookieFits, Recalled, Home
<1>7. ASSUME ~mishap', ~over', NEW s \in Servers, NEW u \in Trips PROVE TripFits(s, u)'
  <2>1. CookieFits(s) /\ TripFits(s, u)
    BY <1>1, <1>7 DEF Fits
  <2>2. CASE u # t
    BY <1>1, <2>1, <2>2 DEF TripFits, Recalled
  <2>3. CASE u = t
    <3>1. cookie = latest \/ /\ cookie + 1 = latest
                             /\ \/ memo[s][cookie].pc = "presented"
                                \/ Recalled(s, cookie) /\ moment <= received[latest] + WayBack
      BY <1>1, <2>1 DEF CookieFits, OnTime, Home
    <3> QED
      BY <1>1, <2>3, <3>1 DEF TripFits, Recalled
  <2> QED
    BY <2>2, <2>3
<1> QED
  BY <1>2, <1>3, <1>4, <1>5, <1>6, <1>7 DEF Fits

\* What it means that answers set out.
LEMMA ReturnsFit ==
    ASSUME WebInv, NEW T, NEW sets \in Answers, Return(T, sets),
           \A t \in T \cap Trips : trip[t] \in TripRows
    PROVE  /\ trip' \in [Trips -> TripRows \cup {Home}]
           /\ \A t \in Trips :
                 /\ t \in T => /\ trip'[t] \in TripRows
                               /\ trip'[t].pc = "back" /\ trip'[t].since = moment
                               /\ trip'[t].sets = sets /\ trip'[t].carries = trip[t].carries
                 /\ t \notin T => trip'[t] = trip[t]
<1>1. /\ moment \in Moments
      /\ trip \in [Trips -> TripRows \cup {Home}]
  BY DEF WebInv, WebTypeOK
<1>2. \A t \in T \cap Trips : [trip[t] EXCEPT !.pc = "back", !.sets = sets, !.since = moment] \in TripRows
  BY <1>1 DEF TripRows
<1>3. \A t \in T \cap Trips : /\ [trip[t] EXCEPT !.pc = "back", !.sets = sets, !.since = moment].pc = "back"
    /\ [trip[t] EXCEPT !.pc = "back", !.sets = sets, !.since = moment].sets = sets
    /\ [trip[t] EXCEPT !.pc = "back", !.sets = sets, !.since = moment].since = moment
    /\ [trip[t] EXCEPT !.pc = "back", !.sets = sets, !.since = moment].carries = trip[t].carries
  BY <1>1 DEF TripRows
<1> QED
  BY <1>1, <1>2, <1>3 DEF Return

\* The browser gets an answer or loses it.
LEMMA ReceiveKeeps ==
    ASSUME WebInv, NEW t \in Trips, Receive(t) \/ LoseAnswer(t)
    PROVE  WebInv'
<1> USE WebAssumption DEF WebInv
<1>0. /\ trip[t] \in TripRows /\ trip[t].pc = "back"
      /\ trip'[t] = Home /\ \A u \in Trips : u # t => trip'[u] = trip[u]
      /\ trip' \in [Trips -> TripRows \cup {Home}]
      /\ UNCHANGED <<moment, latest, over, received, memo, replayed>>
      /\ ~mishap' => /\ ~mishap
                     /\ cookie' \in {cookie, trip[t].sets} \ {Keep}
                     /\ trip[t].sets # Keep => cookie' = trip[t].sets
      /\ mishap' \in BOOLEAN
      /\ mishap => mishap'
      /\ cookie' \in Tokens \cup {Clear}
  <2>1. /\ trip[t] \in TripRows /\ trip[t].pc = "back"
        /\ trip' = [trip EXCEPT ![t] = Home]
        /\ UNCHANGED <<moment, latest, over, received, memo, replayed>>
    BY DEF Receive, LoseAnswer, WebTypeOK, Home
  <2>2. /\ trip'[t] = Home /\ \A u \in Trips : u # t => trip'[u] = trip[u]
        /\ trip' \in [Trips -> TripRows \cup {Home}]
    BY <2>1 DEF WebTypeOK
  <2>3. trip[t].sets \in Answers
    BY <2>1 DEF TripRows
  <2>4. CASE Receive(t)
    <3>1. cookie' = (IF trip[t].sets = Keep THEN cookie ELSE trip[t].sets) /\ mishap' = mishap
      BY <2>4 DEF Receive
    <3>2. cookie \in Tokens \cup {Clear} /\ mishap \in BOOLEAN /\ Keep \notin Tokens \cup {Clear}
      BY DEF WebTypeOK, Tokens
    <3> QED
      BY <2>1, <2>2, <2>3, <3>1, <3>2 DEF Answers
  <2>5. CASE LoseAnswer(t)
    <3>1. cookie' = cookie /\ mishap' = (mishap \/ trip[t].sets # Keep)
      BY <2>5 DEF LoseAnswer
    <3>2. cookie \in Tokens \cup {Clear} /\ mishap \in BOOLEAN /\ Keep \notin Tokens \cup {Clear}
      BY DEF WebTypeOK, Tokens
    <3> QED
      BY <2>1, <2>2, <3>1, <3>2
  <2> QED
    BY <2>4, <2>5
<1>1. WebTypeOK'
  BY <1>0 DEF WebTypeOK
<1>2. OnTime'
  BY <1>0 DEF OnTime, Home
<1>3. Awaited' /\ RefreshedOnce'
  <2>1. \A s \in Servers, g \in Tokens : Waiting(s, g) \subseteq Waiting(s, g)'
    BY <1>0 DEF Waiting, Home
  <2> QED
    BY <1>0, <2>1 DEF Awaited, RefreshedOnce
<1>4. ASSUME ~mishap', ~over', NEW s \in Servers PROVE MemoFits(s)' /\ Unseen(s)'
  <2>1. MemoFits(s) /\ Unseen(s)
    BY <1>4, <1>0 DEF Fits
  <2>2. MemoFits(s)'
    BY <1>0, <2>1 DEF MemoFits
  <2>3. Unseen(s)'
    BY <1>0, <1>4, <2>1 DEF Unseen, Home, WebTypeOK, TripRows
  <2> QED
    BY <2>2, <2>3
<1>5. ASSUME ~mishap', ~over', NEW s \in Servers PROVE CookieFits(s)'
  <2>1. CookieFits(s) /\ TripFits(s, t)
    BY <1>5, <1>0 DEF Fits
  <2> QED
    BY <1>0, <1>5, <2>1 DEF CookieFits, TripFits, Recalled, Home, WebTypeOK, TripRows, Answers
<1>6. ASSUME ~mishap', ~over', NEW s \in Servers, NEW u \in Trips PROVE TripFits(s, u)'
  <2>1. TripFits(s, u)
    BY <1>6, <1>0 DEF Fits
  <2> QED
    BY <1>0, <1>6, <2>1 DEF TripFits, Recalled, Home
<1> QED
  BY <1>1, <1>2, <1>3, <1>4, <1>5, <1>6 DEF Fits

\* The variables range over numbers, tokens and rows.
LEMMA WebNumbers ==
    ASSUME WebTypeOK
    PROVE  /\ moment \in Nat /\ latest \in Nat /\ latest > 0 /\ latest \in Tokens
           /\ Tokens \subseteq Nat /\ Keep \notin Tokens /\ Clear \notin Tokens
           /\ \A g \in Tokens : received[g] \in Nat
           /\ {Travel, WayBack, Memo, CallTime, Blink, TokenLife} \subseteq Nat
           /\ \A t \in Trips : trip[t].pc # "home" => trip[t] \in TripRows
           /\ \A t \in TripRows : /\ t.carries \in Tokens /\ t.since \in Nat /\ t # Home
                                  /\ t.at \in Servers /\ t.sets \in Answers
           /\ \A s \in Servers, g \in Tokens : memo[s][g] \in Memos /\ memo[s][g].until \in Nat
<1>1. /\ moment \in Nat /\ latest \in Nat /\ latest > 0 /\ latest \in Tokens
      /\ Tokens \subseteq Nat /\ Keep \notin Tokens /\ Clear \notin Tokens
      /\ \A g \in Tokens : received[g] \in Nat
  BY WebAssumption DEF WebTypeOK, Tokens, Moments
<1>2. {Travel, WayBack, Memo, CallTime, Blink, TokenLife} \subseteq Nat
  BY WebAssumption
<1>3. \A t \in Trips : trip[t].pc # "home" => trip[t] \in TripRows
  BY DEF WebTypeOK, Home
<1>4. \A t \in TripRows : /\ t.carries \in Tokens /\ t.since \in Nat /\ t # Home
                          /\ t.at \in Servers /\ t.sets \in Answers
  BY DEF TripRows, Moments, Home
<1>5. \A s \in Servers, g \in Tokens : memo[s][g] \in Memos /\ memo[s][g].until \in Nat
  BY DEF WebTypeOK, Memos
<1> QED
  BY <1>1, <1>2, <1>3, <1>4, <1>5

\* A token is the newest, the one before it, or neither.
LEMMA WebOrder ==
    ASSUME WebTypeOK, NEW g \in Tokens
    PROVE  /\ g > latest \/ g = latest \/ g + 1 = latest \/ g + 1 < latest
           /\ ~(g = latest /\ g + 1 = latest) /\ (g + 1 > latest <=> g >= latest)
           /\ latest + 1 \in Nat /\ latest + 1 # latest
           /\ g > latest + 1 => g > latest
           /\ g + 1 = latest + 1 <=> g = latest
           /\ g + 1 < latest + 1 <=> g + 1 = latest \/ g + 1 < latest
BY WebNumbers

\* An answer without a new token leaves everything in its place.
LEMMA AnswerKeeps ==
    ASSUME WebInv, NEW t \in Trips, SignOut(t) \/ \E lead \in Leads : UseSession(t, lead)
    PROVE  WebInv'
<1> USE DEF WebInv
<1>1. PICK sets \in {Keep, Clear} : Return({t}, sets)
  BY DEF SignOut, UseSession
<1>2. /\ trip[t].pc = "out" /\ trip[t] \in TripRows
      /\ UNCHANGED <<moment, latest, cookie, received, memo, replayed, mishap>>
      /\ over' \in BOOLEAN /\ (over => over')
  BY WebNumbers DEF SignOut, UseSession, WebTypeOK
<1>3. /\ trip' \in [Trips -> TripRows \cup {Home}]
      /\ trip'[t] \in TripRows
      /\ trip'[t].pc = "back" /\ trip'[t].since = moment /\ trip'[t].sets = sets
      /\ trip'[t].carries = trip[t].carries
      /\ \A u \in Trips : u # t => trip'[u] = trip[u]
  BY <1>1, <1>2, ReturnsFit DEF Answers
<1>4. WebTypeOK'
  BY <1>2, <1>3 DEF WebTypeOK
<1>5. OnTime'
  BY <1>2, <1>3, WebNumbers DEF OnTime
<1>6. Awaited' /\ RefreshedOnce'
  <2>1. \A s \in Servers, g \in Tokens : Waiting(s, g) \subseteq Waiting(s, g)'
    BY <1>2, <1>3 DEF Waiting
  <2> QED
    BY <1>2, <2>1 DEF Awaited, RefreshedOnce
<1>7. ASSUME ~mishap', ~over', NEW s \in Servers
      PROVE  MemoFits(s)' /\ Unseen(s)' /\ CookieFits(s)' /\ \A u \in Trips : TripFits(s, u)'
  <2>1. MemoFits(s) /\ Unseen(s) /\ CookieFits(s) /\ \A u \in Trips : TripFits(s, u)
    BY <1>2, <1>7 DEF Fits
  <2>2. MemoFits(s)'
    BY <1>2, <2>1 DEF MemoFits
  <2>3. Unseen(s)'
    BY <1>2, <1>3, <2>1, WebNumbers DEF Unseen
  <2>4. CookieFits(s)'
    BY <1>2, <1>3, <2>1 DEF CookieFits, Recalled
  <2>5. \A u \in Trips : TripFits(s, u)'
    BY <1>2, <1>3, <2>1, WebNumbers DEF TripFits, Recalled
  <2> QED
    BY <2>2, <2>3, <2>4, <2>5
<1> QED
  BY <1>4, <1>5, <1>6, <1>7 DEF Fits

\* A refusal of the service clears the cookie as the new token would have replaced it.
LEMMA RefusalKeeps ==
    ASSUME WebInv, NEW t \in Trips, ServiceRefuses(t)
    PROVE  WebInv'
<1> USE DEF WebInv
<1>1. /\ trip[t].pc = "back" /\ trip[t] \in TripRows
      /\ trip' = [trip EXCEPT ![t].sets = Clear]
      /\ UNCHANGED <<moment, latest, over, cookie, received, memo, replayed, mishap>>
  BY WebNumbers DEF ServiceRefuses
<1>2. /\ trip' \in [Trips -> TripRows \cup {Home}]
      /\ trip'[t] \in TripRows
      /\ trip'[t].pc = "back" /\ trip'[t].since = trip[t].since /\ trip'[t].sets = Clear
      /\ \A u \in Trips : u # t => trip'[u] = trip[u]
  <2> DEFINE row == [trip[t] EXCEPT !.sets = Clear]
  <2>1. row \in TripRows /\ row.pc = "back" /\ row.since = trip[t].since /\ row.sets = Clear
    BY <1>1 DEF TripRows, Answers
  <2>2. trip' = [trip EXCEPT ![t] = row]
    BY <1>1 DEF WebTypeOK
  <2> HIDE DEF row
  <2> QED
    BY <2>1, <2>2 DEF WebTypeOK
<1>3. WebTypeOK'
  BY <1>1, <1>2 DEF WebTypeOK
<1>4. OnTime'
  BY <1>1, <1>2, WebNumbers DEF OnTime
<1>5. Awaited' /\ RefreshedOnce'
  <2>1. \A s \in Servers, g \in Tokens : Waiting(s, g) \subseteq Waiting(s, g)'
    BY <1>1, <1>2 DEF Waiting
  <2> QED
    BY <1>1, <2>1 DEF Awaited, RefreshedOnce
<1>6. ASSUME ~mishap', ~over', NEW s \in Servers
      PROVE  MemoFits(s)' /\ Unseen(s)' /\ CookieFits(s)' /\ \A u \in Trips : TripFits(s, u)'
  <2>1. MemoFits(s) /\ Unseen(s) /\ CookieFits(s) /\ \A u \in Trips : TripFits(s, u)
    BY <1>1, <1>6 DEF Fits
  <2>2. MemoFits(s)'
    BY <1>1, <2>1 DEF MemoFits
  <2>3. Unseen(s)'
    BY <1>1, <1>2, <2>1, WebNumbers DEF Unseen
  <2>4. CookieFits(s)'
    <3>1. \A u \in Trips : trip[u].pc = "back" /\ trip[u].sets # Keep =>
             trip'[u].pc = "back" /\ trip'[u].sets # Keep /\ trip'[u].since = trip[u].since
      BY <1>1, <1>2
    <3> QED
      BY <1>1, <2>1, <3>1 DEF CookieFits, Recalled
  <2>5. \A u \in Trips : TripFits(s, u)'
    BY <1>1, <1>2, <2>1, WebNumbers DEF TripFits, Recalled
  <2> QED
    BY <2>2, <2>3, <2>4, <2>5
<1> QED
  BY <1>3, <1>4, <1>5, <1>6 DEF Fits

\* A restart is a mishap, which ends what is claimed.
LEMMA RestartKeeps ==
    ASSUME WebInv, NEW s \in Servers, RestartServer(s)
    PROVE  WebInv'
<1> USE DEF WebInv
<1>1. /\ NoMemo \in Memos
      /\ mishap' = TRUE
      /\ memo' = [memo EXCEPT ![s] = [g \in Tokens |-> NoMemo]]
      /\ trip' = [t \in Trips |->
                     IF trip[t].pc = "waiting" /\ trip[t].at = s THEN Home ELSE trip[t]]
      /\ UNCHANGED <<moment, latest, over, cookie, received, replayed>>
  BY DEF RestartServer, Memos, NoMemo, Answers
<1>2. WebTypeOK'
  BY <1>1 DEF WebTypeOK
<1>3. \A r \in Servers, g \in Tokens : memo'[r][g] = NoMemo
  BY <1>1, WebAssumption DEF WebTypeOK
<1>4. OnTime' /\ Awaited' /\ RefreshedOnce'
  BY <1>1, <1>3 DEF OnTime, Awaited, RefreshedOnce, NoMemo, Home
<1> QED
  BY <1>1, <1>2, <1>4

\* Time passes no request, answer or call by.
LEMMA MomentKeeps ==
    ASSUME WebInv, NextMoment
    PROVE  WebInv'
<1> USE DEF WebInv
<1>1. /\ moment' = moment + 1 /\ moment < MaxMoment
      /\ UNCHANGED <<latest, over, cookie, received, memo, trip, replayed, mishap>>
      /\ \A t \in Trips : /\ trip[t].pc = "out" => moment < trip[t].since + Travel
                          /\ trip[t].pc = "back" => moment < trip[t].since + WayBack
      /\ \A s \in Servers, g \in Tokens : memo[s][g].pc \in {"calling", "presented"} =>
            moment + 2 * Memo < memo[s][g].until + CallTime
  BY DEF NextMoment
<1>2. WebTypeOK'
  <2>1. moment' \in Moments
    BY <1>1, WebAssumption DEF WebTypeOK, Moments
  <2> QED
    BY <1>1, <2>1 DEF WebTypeOK
<1>3. OnTime'
  <2>1. \A s \in Servers, g \in Tokens : memo[s][g].pc \in {"calling", "presented"} =>
            moment + 1 <= memo[s][g].until
    BY <1>1, WebNumbers, WebAssumption
  <2>2. \A t \in Trips : trip[t] # Home =>
            /\ trip[t].since <= moment + 1
            /\ trip[t].pc = "out" => moment + 1 <= trip[t].since + Travel
            /\ trip[t].pc = "back" => moment + 1 <= trip[t].since + WayBack
    <3>1. \A t \in Trips : trip[t] # Home => trip[t].since \in Nat
      BY WebNumbers DEF WebTypeOK
    <3> QED
      BY <1>1, <3>1, WebNumbers DEF OnTime
  <2>3. \A g \in Tokens : received[g] <= moment + 1
    BY WebNumbers DEF OnTime
  <2> QED
    BY <1>1, <2>1, <2>2, <2>3 DEF OnTime
<1>4. Awaited' /\ RefreshedOnce'
  BY <1>1 DEF Awaited, Waiting, RefreshedOnce
<1>5. ASSUME ~mishap', ~over', NEW s \in Servers
      PROVE  MemoFits(s)' /\ Unseen(s)' /\ CookieFits(s)' /\ \A u \in Trips : TripFits(s, u)'
  <2>1. MemoFits(s) /\ Unseen(s) /\ CookieFits(s) /\ \A u \in Trips : TripFits(s, u)
    BY <1>1, <1>5 DEF Fits
  <2>2. MemoFits(s)'
    <3>1. \A g \in Tokens : moment > received[g] + 2 * WayBack + Travel => moment + 1 > received[g] + 2 * WayBack + Travel
      BY WebNumbers
    <3> QED
      BY <1>1, <2>1, <3>1 DEF MemoFits
  <2> QED
    BY <1>1, <2>1, <2>2 DEF Unseen, CookieFits, TripFits, Recalled
<1> QED
  BY <1>2, <1>3, <1>4, <1>5 DEF Fits

\* A token is presented so long after it was received that nobody carries the one before.
LEMMA PresentKeeps ==
    ASSUME WebInv, NEW s \in Servers, NEW g \in Tokens, PresentToken(s, g)
    PROVE  WebInv'
<1> USE DEF WebInv
<1>1. /\ memo[s][g].pc = "calling"
      /\ \E answer \in Answers :
            memo' = [memo EXCEPT ![s][g].pc = "presented", ![s][g].answer = answer]
      /\ latest' \in Tokens /\ over' \in BOOLEAN /\ replayed' \in BOOLEAN
      /\ UNCHANGED <<moment, cookie, received, trip, mishap>>
  <2>1. latest \in Tokens /\ over \in BOOLEAN /\ replayed \in BOOLEAN /\ Clear \in Answers
    BY DEF WebTypeOK, Answers
  <2>2. latest < MaxToken => latest + 1 \in Tokens /\ latest + 1 \in Answers
    BY <2>1, WebAssumption DEF Tokens, Answers
  <2> QED
    BY <2>1, <2>2 DEF PresentToken
<1>2. /\ \A r \in Servers, h \in Tokens : r # s \/ h # g => memo'[r][h] = memo[r][h]
      /\ memo'[s][g].pc = "presented" /\ memo'[s][g].until = memo[s][g].until
      /\ memo' \in [Servers -> [Tokens -> Memos]]
  <2>1. PICK answer \in Answers :
           memo' = [memo EXCEPT ![s][g].pc = "presented", ![s][g].answer = answer]
    BY <1>1
  <2>2. memo \in [Servers -> [Tokens -> Memos]] /\ memo[s] \in [Tokens -> Memos] /\ memo[s][g] \in Memos
    BY DEF WebTypeOK
  <2> DEFINE m == [memo[s][g] EXCEPT !.pc = "presented", !.answer = answer]
  <2>3. m \in Memos /\ m.pc = "presented" /\ m.until = memo[s][g].until
    BY <2>2 DEF Memos
  <2>4. memo' = [memo EXCEPT ![s] = [memo[s] EXCEPT ![g] = m]]
    BY <2>1, <2>2
  <2> QED
    BY <2>2, <2>3, <2>4
<1>3. WebTypeOK'
  BY <1>1, <1>2 DEF WebTypeOK
<1>4. OnTime' /\ Awaited'
  BY <1>1, <1>2 DEF OnTime, Awaited, Waiting
<1>5. ASSUME ~mishap', ~over'
      PROVE  /\ ~mishap /\ ~over /\ latest = g /\ latest' = g + 1 /\ latest' \in Tokens
             /\ memo'[s][g].answer = latest' /\ replayed' = replayed
             /\ MemoFits(s) /\ Unseen(s) /\ CookieFits(s) /\ \A t \in Trips : TripFits(s, t)
  <2>1. /\ ~over /\ g = latest /\ latest' = latest + 1 /\ UNCHANGED replayed
        /\ memo' = [memo EXCEPT ![s][g].pc = "presented", ![s][g].answer = latest + 1]
    BY <1>5 DEF PresentToken
  <2>2. memo'[s][g].answer = latest + 1
    BY <2>1, WebNumbers DEF WebTypeOK, Memos
  <2> QED
    BY <1>1, <1>5, <2>1, <2>2 DEF Fits
<1>6. RefreshedOnce'
  <2>1. CASE mishap'
    BY <2>1 DEF RefreshedOnce
  <2>2. CASE ~mishap' /\ ~over'
    BY <1>1, <1>5, <2>2 DEF RefreshedOnce
  <2>3. CASE ~mishap' /\ over'
    <3>1. CASE over \/ replayed' = replayed
      <4>1. replayed' = replayed
        BY <3>1 DEF PresentToken, WebTypeOK
      <4> QED
        BY <1>1, <4>1 DEF RefreshedOnce
    <3>2. CASE ~over
      <4>1. MemoFits(s)
        BY <1>1, <2>3, <3>2 DEF Fits
      <4>2. g = latest
        <5>1. memo[s][g].pc \notin {"none", "presented", "done"} /\ memo[s][g] # NoMemo
          BY <1>1 DEF NoMemo
        <5> QED
          BY <4>1, <5>1, WebOrder DEF MemoFits
      <4> QED
        BY <2>3, <3>2, <4>2 DEF PresentToken
    <3> QED
      BY <3>1, <3>2
  <2> QED
    BY <2>1, <2>2, <2>3, <1>1 DEF WebTypeOK
<1>7. ASSUME ~mishap', ~over', NEW r \in Servers
      PROVE  MemoFits(r)' /\ Unseen(r)' /\ CookieFits(r)' /\ \A t \in Trips : TripFits(r, t)'
  <2>1. r = s
    BY WebAssumption
  <2>2. /\ moment > received[g] + 2 * WayBack + Travel
        /\ \A h \in Tokens : h + 1 = g => memo[s][h].pc \in {"none", "done"}
    BY <1>1, <1>5, <1>7, WebNumbers DEF MemoFits, Unseen, NoMemo
  <2>3. \A t \in Trips : trip[t].pc = "back" => trip[t].sets \notin Tokens
    BY <1>1, <1>5, <1>7, <2>2, WebNumbers DEF TripFits, OnTime
  <2>4. \A t \in Trips : trip[t].pc = "out" => trip[t].carries = g
    BY <1>1, <1>5, <1>7, <2>2, WebNumbers DEF TripFits, OnTime
  <2>5. cookie \in {Clear, g}
    <3>1. \A t \in Trips : trip[t].pc = "back" => trip[t].since # received[g]
      BY <2>2, WebNumbers DEF OnTime
    <3> QED
      BY <1>5, <1>7, <2>2, <3>1 DEF CookieFits, WebTypeOK
  <2>6. \A t \in Trips : trip[t].pc = "waiting" => trip[t].carries = g
    <3>1. ASSUME NEW h \in Tokens, memo[s][h].pc \in {"calling", "presented"} PROVE h = g
      <4>1. memo[s][h] # NoMemo /\ memo[s][h].pc \notin {"none", "done"}
        BY <3>1 DEF NoMemo
      <4> QED
        BY <1>5, <1>7, <2>2, <4>1, WebOrder DEF MemoFits
    <3> QED
      BY <1>5, <1>7, <3>1, WebNumbers DEF TripFits
  <2>7. MemoFits(s)'
    <3>1. ASSUME NEW h \in Tokens, h # g
          PROVE  /\ h > latest' => memo'[s][h] = NoMemo
                 /\ h = latest' => memo'[s][h] = NoMemo
                 /\ h + 1 # latest'
                 /\ h + 1 < latest' => memo'[s][h].pc \in {"none", "done"}
      BY <1>2, <1>5, <1>7, <2>2, <3>1, WebOrder, WebNumbers DEF MemoFits
    <3>2. ~(g > latest') /\ g # latest' /\ g + 1 = latest' /\ ~(g + 1 < latest')
      BY <1>5, <1>7, WebNumbers
    <3> QED
      BY <1>1, <1>2, <1>5, <1>7, <3>1, <3>2 DEF MemoFits, NoMemo
  <2>8. Unseen(s)'
    <3>1. memo'[s][latest'] = NoMemo
      BY <1>2, <1>5, <1>7, WebNumbers DEF MemoFits
    <3>2. cookie # latest'
      BY <1>5, <1>7, <2>5, WebNumbers
    <3>3. \A t \in Trips :
             /\ trip[t].pc \in {"out", "waiting"} => trip[t].carries # latest'
             /\ trip[t].pc = "back" => trip[t].sets # latest'
      BY <1>5, <1>7, <2>3, <2>4, <2>6, WebOrder
    <3> QED
      BY <1>1, <3>1, <3>2, <3>3 DEF Unseen
  <2>9. CookieFits(s)'
    BY <1>1, <1>2, <1>5, <1>7, <2>5 DEF CookieFits
  <2>10. \A t \in Trips : TripFits(s, t)'
    BY <1>1, <1>2, <1>5, <1>7, <2>3, <2>4, <2>6 DEF TripFits
  <2> QED
    BY <2>1, <2>7, <2>8, <2>9, <2>10
<1> QED
  BY <1>3, <1>4, <1>6, <1>7 DEF Fits

\* A new token sets out for everyone who waits for it.
LEMMA SettleKeeps ==
    ASSUME WebInv, NEW s \in Servers, NEW g \in Tokens, Settle(s, g)
    PROVE  WebInv'
<1> DEFINE answer == memo[s][g].answer
           W == Waiting(s, g)
<1> USE DEF WebInv
<1>1. /\ memo[s][g].pc = "presented"
      /\ Return(W, answer)
      /\ memo' = [memo EXCEPT ![s][g] = [pc |-> "done", answer |-> answer,
                     until |-> moment + IF answer \in Tokens THEN Memo ELSE Blink]]
      /\ received' = [h \in Tokens |-> IF h = answer THEN moment ELSE received[h]]
      /\ UNCHANGED <<moment, latest, over, cookie, replayed, mishap>>
  BY DEF Settle, Conclude
<1>2. answer \in Answers
  BY WebNumbers DEF Memos
<1>3. /\ trip' \in [Trips -> TripRows \cup {Home}]
      /\ \A t \in Trips :
            /\ t \in W => /\ trip'[t] \in TripRows
                          /\ trip'[t].pc = "back" /\ trip'[t].since = moment
                          /\ trip'[t].sets = answer /\ trip'[t].carries = trip[t].carries
            /\ t \notin W => trip'[t] = trip[t]
  <2>1. \A t \in W \cap Trips : trip[t] \in TripRows
    BY WebNumbers DEF Waiting
  <2> QED
    BY ReturnsFit, <1>1, <1>2, <2>1
<1> HIDE DEF answer, W
<1>4. /\ \A r \in Servers, h \in Tokens : r # s \/ h # g => memo'[r][h] = memo[r][h]
      /\ memo'[s][g].pc = "done" /\ memo'[s][g].answer = answer
      /\ answer \in Tokens => memo'[s][g].until = moment + Memo
      /\ memo' \in [Servers -> [Tokens -> Memos]]
  <2>1. [pc |-> "done", answer |-> answer,
         until |-> moment + IF answer \in Tokens THEN Memo ELSE Blink] \in Memos
    BY <1>2, WebNumbers DEF Memos
  <2> QED
    BY <1>1, <2>1 DEF WebTypeOK
<1>5. WebTypeOK'
  BY <1>1, <1>3, <1>4 DEF WebTypeOK
<1>6. OnTime'
  <2>1. \A h \in Tokens : received'[h] <= moment
    BY <1>1, WebNumbers DEF OnTime
  <2>2. \A t \in Trips : trip'[t] # Home =>
           /\ trip'[t].since <= moment
           /\ trip'[t].pc = "out" => moment <= trip'[t].since + Travel
           /\ trip'[t].pc = "back" => moment <= trip'[t].since + WayBack
    BY <1>3, WebNumbers DEF OnTime
  <2> QED
    BY <1>1, <1>4, <2>1, <2>2 DEF OnTime
<1>7. Awaited' /\ RefreshedOnce'
  <2>1. \A r \in Servers, h \in Tokens : r # s \/ h # g => Waiting(r, h) \subseteq Waiting(r, h)'
    BY <1>3 DEF Waiting, W
  <2> QED
    BY <1>1, <1>4, <2>1 DEF Awaited, RefreshedOnce
<1>8. ASSUME ~mishap', ~over', NEW r \in Servers
      PROVE  MemoFits(r)' /\ Unseen(r)' /\ CookieFits(r)' /\ \A t \in Trips : TripFits(r, t)'
  <2>1. /\ r = s
        /\ MemoFits(s) /\ Unseen(s) /\ CookieFits(s) /\ \A t \in Trips : TripFits(s, t)
    BY <1>1, <1>8, WebAssumption DEF Fits
  <2>2. g + 1 = latest /\ answer = latest
    <3>1. memo[s][g].pc \notin {"none", "calling", "done"} /\ memo[s][g] # NoMemo
      BY <1>1 DEF NoMemo
    <3>2. g + 1 = latest
      BY <2>1, <3>1, WebOrder DEF MemoFits
    <3> QED
      BY <2>1, <3>1, <3>2 DEF MemoFits, answer
  <2>3. /\ memo[s][latest] = NoMemo /\ cookie # latest
        /\ \A t \in Trips : trip[t].pc \in {"out", "waiting"} => trip[t].carries # latest
        /\ \A t \in Trips : trip[t].pc = "back" => trip[t].sets # latest
    BY <1>1, <2>1, <2>2 DEF Unseen
  <2>4. /\ latest \in Tokens /\ received'[latest] = moment
    BY <1>1, <2>2, WebNumbers
  <2>5. MemoFits(s)'
    <3>1. ASSUME NEW h \in Tokens, h # g
          PROVE  /\ h > latest => memo'[s][h] = NoMemo
                 /\ h = latest => memo'[s][h] = NoMemo
                 /\ h + 1 # latest
                 /\ h + 1 < latest => memo'[s][h].pc \in {"none", "done"}
      BY <1>4, <2>1, <2>2, <2>3, <3>1, WebNumbers DEF MemoFits
    <3>2. ~(g > latest) /\ g # latest /\ g + 1 = latest /\ ~(g + 1 < latest)
      BY <2>2, WebNumbers
    <3>3. memo'[s][g].until = received'[latest] + Memo
      BY <1>4, <2>2, <2>4
    <3> QED
      BY <1>1, <1>4, <2>2, <3>1, <3>2, <3>3 DEF MemoFits, NoMemo
  <2>6. Unseen(s)'
    <3>1. \A h \in Tokens : h + 1 = latest => h = g
      BY <2>2, WebNumbers
    <3> QED
      BY <1>1, <1>4, <3>1 DEF Unseen
  <2>7. CookieFits(s)'
    <3>1. W # {} /\ W \subseteq Trips
      BY <1>1 DEF Awaited, Waiting, W
    <3>2. PICK t \in Trips : t \in W
      BY <3>1
    <3>3. trip'[t].pc = "back" /\ trip'[t].sets # Keep /\ trip'[t].since = received'[latest']
      BY <1>1, <1>3, <2>2, <2>4, <3>2, WebNumbers
    <3>4. cookie = Clear \/ cookie = g
      <4>1. cookie = Clear \/ cookie \in Tokens
        BY DEF WebTypeOK
      <4>2. \A h \in Tokens : h + 1 = latest => h = g
        BY <2>2, WebNumbers
      <4> QED
        BY <2>1, <2>3, <4>1, <4>2 DEF CookieFits
    <3> QED
      BY <1>1, <1>4, <2>2, <3>3, <3>4 DEF CookieFits, Recalled
  <2>8. ASSUME NEW t \in Trips PROVE TripFits(s, t)'
    <3>1. CASE t \in W
      BY <1>1, <1>3, <2>2, <2>4, <3>1, WebNumbers DEF TripFits
    <3>2. CASE t \notin W
      <4>1. trip'[t] = trip[t] /\ TripFits(s, t)
        BY <1>3, <2>1, <3>2
      <4>2. CASE trip[t].pc = "out"
        <5>1. trip[t].carries = g /\ trip[t].since <= moment
          <6>1. trip[t] \in TripRows /\ trip[t] # Home /\ trip[t].carries \in Tokens
            BY <4>2, WebNumbers
          <6>2. \A h \in Tokens : h + 1 = latest => h = g
            BY <2>2, WebNumbers
          <6> QED
            BY <2>3, <4>1, <4>2, <6>1, <6>2 DEF TripFits, OnTime
        <5>2. trip[t].since <= received'[latest'] + WayBack
          BY <1>1, <2>4, <4>2, <5>1, WebNumbers
        <5> QED
          BY <1>1, <1>4, <2>2, <4>1, <4>2, <5>1, <5>2 DEF TripFits, Recalled
      <4>3. CASE trip[t].pc = "waiting"
        <5>1. trip[t].carries \in Tokens \ {g}
          BY <2>1, <3>2, <4>3, WebNumbers, WebAssumption DEF Waiting, W
        <5> QED
          BY <1>4, <4>1, <4>3, <5>1 DEF TripFits
      <4>4. CASE trip[t].pc = "back"
        BY <2>3, <4>1, <4>4 DEF TripFits
      <4> QED
        BY <4>1, <4>2, <4>3, <4>4 DEF TripFits
    <3> QED
      BY <3>1, <3>2
  <2> QED
    BY <2>1, <2>5, <2>6, <2>7, <2>8
<1> QED
  BY <1>5, <1>6, <1>7, <1>8 DEF Fits

\* A call that fails leaves its token the newest, or was a mishap.
LEMMA FailureKeeps ==
    ASSUME WebInv, NEW s \in Servers, NEW g \in Tokens, CallFails(s, g)
    PROVE  WebInv'
<1> DEFINE W == Waiting(s, g)
<1> USE DEF WebInv
<1>1. /\ memo[s][g].pc \in {"calling", "presented"}
      /\ Return(W, Keep)
      /\ memo' = [memo EXCEPT ![s][g] = [pc |-> "done", answer |-> Keep,
                     until |-> moment + IF Keep \in Tokens THEN Memo ELSE Blink]]
      /\ mishap' = (mishap \/ memo[s][g].answer \in Tokens)
      /\ UNCHANGED <<moment, latest, over, cookie, received, replayed>>
  BY DEF CallFails, Conclude
<1>2. Keep \in Answers
  BY DEF Answers
<1>3. /\ trip' \in [Trips -> TripRows \cup {Home}]
      /\ \A t \in Trips :
            /\ t \in W => /\ trip'[t] \in TripRows
                          /\ trip'[t].pc = "back" /\ trip'[t].since = moment
                          /\ trip'[t].sets = Keep /\ trip'[t].carries = trip[t].carries
            /\ t \notin W => trip'[t] = trip[t]
  <2>1. \A t \in W \cap Trips : trip[t] \in TripRows
    BY WebNumbers DEF Waiting
  <2> QED
    BY ReturnsFit, <1>1, <1>2, <2>1
<1> HIDE DEF W
<1>4. /\ \A r \in Servers, h \in Tokens : r # s \/ h # g => memo'[r][h] = memo[r][h]
      /\ memo'[s][g].pc = "done" /\ memo'[s][g].answer = Keep
      /\ memo' \in [Servers -> [Tokens -> Memos]]
  <2>1. [pc |-> "done", answer |-> Keep,
         until |-> moment + IF Keep \in Tokens THEN Memo ELSE Blink] \in Memos
    BY <1>2, WebNumbers DEF Memos
  <2> QED
    BY <1>1, <2>1 DEF WebTypeOK
<1>5. WebTypeOK'
  BY <1>1, <1>3, <1>4 DEF WebTypeOK
<1>6. OnTime'
  <2>1. \A h \in Tokens : received'[h] <= moment
    BY <1>1, WebNumbers DEF OnTime
  <2>2. \A t \in Trips : trip'[t] # Home =>
           /\ trip'[t].since <= moment
           /\ trip'[t].pc = "out" => moment <= trip'[t].since + Travel
           /\ trip'[t].pc = "back" => moment <= trip'[t].since + WayBack
    BY <1>3, WebNumbers DEF OnTime
  <2> QED
    BY <1>1, <1>4, <2>1, <2>2 DEF OnTime
<1>7. Awaited' /\ RefreshedOnce'
  <2>1. \A r \in Servers, h \in Tokens : r # s \/ h # g => Waiting(r, h) \subseteq Waiting(r, h)'
    BY <1>3 DEF Waiting, W
  <2>2. mishap => mishap'
    BY <1>1 DEF WebTypeOK
  <2> QED
    BY <1>1, <1>4, <2>1, <2>2 DEF Awaited, RefreshedOnce
<1>8. ASSUME ~mishap', ~over', NEW r \in Servers
      PROVE  MemoFits(r)' /\ Unseen(r)' /\ CookieFits(r)' /\ \A t \in Trips : TripFits(r, t)'
  <2>1. /\ r = s /\ memo[s][g].answer \notin Tokens
        /\ MemoFits(s) /\ Unseen(s) /\ CookieFits(s) /\ \A t \in Trips : TripFits(s, t)
    BY <1>1, <1>8, WebAssumption DEF Fits
  <2>2. g = latest
    <3>1. memo[s][g].pc \notin {"none", "done"} /\ memo[s][g] # NoMemo
      BY <1>1 DEF NoMemo
    <3> QED
      BY <2>1, <3>1, WebOrder, WebNumbers DEF MemoFits
  <2>3. MemoFits(s)'
    <3>1. \A h \in Tokens : h # g => memo'[s][h] = memo[s][h]
      BY <1>4
    <3>2. ~(g > latest) /\ g + 1 # latest /\ ~(g + 1 < latest)
      BY <2>2, WebNumbers
    <3> QED
      BY <1>1, <1>4, <2>1, <3>1, <3>2 DEF MemoFits
  <2>4. Unseen(s)'
    <3>1. ASSUME NEW h \in Tokens, h + 1 = latest PROVE h # g /\ memo[s][h].pc # "presented"
      <4>1. h # g
        BY <2>2, <3>1, WebNumbers
      <4>2. memo[s][latest] # NoMemo
        BY <1>1, <2>2 DEF NoMemo
      <4> QED
        BY <2>1, <3>1, <4>1, <4>2 DEF Unseen
    <3> QED
      BY <1>1, <1>4, <3>1 DEF Unseen
  <2>5. CookieFits(s)'
    <3>1. CASE cookie \in {Clear, latest}
      BY <1>1, <3>1 DEF CookieFits
    <3>2. CASE cookie \notin {Clear, latest}
      <4>1. cookie \in Tokens /\ cookie + 1 = latest /\ cookie # g
        BY <2>1, <2>2, <3>2 DEF CookieFits, WebTypeOK
      <4>2. memo'[s][cookie] = memo[s][cookie]
        BY <1>4, <4>1
      <4>3. \A t \in Trips : trip[t].pc = "back" => trip'[t] = trip[t]
        BY <1>3 DEF W, Waiting
      <4> QED
        BY <1>1, <2>1, <3>2, <4>1, <4>2, <4>3 DEF CookieFits, Recalled
    <3> QED
      BY <3>1, <3>2
  <2>6. ASSUME NEW t \in Trips PROVE TripFits(s, t)'
    <3>1. CASE t \in W
      BY <1>3, <3>1, WebNumbers DEF TripFits
    <3>2. CASE t \notin W
      <4>1. trip'[t] = trip[t] /\ TripFits(s, t)
        BY <1>3, <2>1, <3>2
      <4>2. CASE trip[t].pc = "out"
        <5>1. trip[t].carries = latest \/ trip[t].carries \in Tokens \ {g}
          BY <2>2, <4>2, WebNumbers
        <5> QED
          BY <1>1, <1>4, <4>1, <4>2, <5>1 DEF TripFits, Recalled
      <4>3. CASE trip[t].pc = "waiting"
        <5>1. trip[t].carries \in Tokens \ {g}
          BY <2>1, <3>2, <4>3, WebNumbers, WebAssumption DEF Waiting, W
        <5> QED
          BY <1>4, <4>1, <4>3, <5>1 DEF TripFits
      <4>4. CASE trip[t].pc = "back"
        BY <1>1, <4>1, <4>4 DEF TripFits
      <4> QED
        BY <4>1, <4>2, <4>3, <4>4 DEF TripFits
    <3> QED
      BY <3>1, <3>2
  <2> QED
    BY <2>1, <2>3, <2>4, <2>5, <2>6
<1> QED
  BY <1>5, <1>6, <1>7, <1>8 DEF Fits

\* A request whose token is not the newest finds the refresh of its token.
LEMMA RefreshSessionKeeps ==
    ASSUME WebInv, NEW t \in Trips, NEW s \in Servers, NEW lead \in Leads,
           RefreshSession(t, s, lead)
    PROVE  WebInv'
<1> USE DEF WebInv
<1>0. PICK g \in Tokens : g = trip[t].carries
  BY WebNumbers DEF RefreshSession
<1> DEFINE m == Remembered(s)[g]
           call == [pc |-> "calling", answer |-> Keep, until |-> moment + 2 * Memo]
<1>1. /\ trip[t].pc = "out" /\ received[g] + TokenLife - moment <= lead
      /\ m.pc = "done" => Return({t}, m.answer)
      /\ m.pc # "done" => trip' = [trip EXCEPT ![t].pc = "waiting", ![t].at = s]
      /\ m.pc # "none" => memo' = [memo EXCEPT ![s] = Remembered(s)]
      /\ m.pc = "none" => memo' = [memo EXCEPT ![s] = [Remembered(s) EXCEPT ![g] = call]]
      /\ UNCHANGED <<moment, latest, over, cookie, received, replayed, mishap>>
  BY <1>0 DEF RefreshSession, NearEnd
<1>2. /\ trip[t] \in TripRows
      /\ call \in Memos /\ NoMemo \in Memos
  BY <1>1, WebNumbers DEF Memos, NoMemo, Answers
<1>3. /\ Remembered(s) \in [Tokens -> Memos] /\ m \in Memos
      /\ \A h \in Tokens : Remembered(s)[h] \in {memo[s][h], NoMemo}
      /\ \A h \in Tokens : memo[s][h].pc # "none" /\ memo[s][h].until >= moment =>
             Remembered(s)[h] = memo[s][h]
  BY <1>2 DEF Remembered, Remembers, WebTypeOK
<1>4. /\ memo' \in [Servers -> [Tokens -> Memos]]
      /\ \A h \in Tokens : \/ memo'[s][h] = Remembered(s)[h]
                           \/ h = g /\ m.pc = "none" /\ memo'[s][g] = call
      /\ m.pc # "none" => memo'[s][g] = m
      /\ m.pc = "none" => memo'[s][g] = call
  <2> HIDE DEF call, m
  <2>0. memo \in [Servers -> [Tokens -> Memos]]
    BY DEF WebTypeOK
  <2>1. CASE m.pc = "none"
    <3> DEFINE row == [Remembered(s) EXCEPT ![g] = call]
    <3>1. /\ row \in [Tokens -> Memos] /\ row[g] = call
          /\ \A h \in Tokens : h # g => row[h] = Remembered(s)[h]
      BY <1>2, <1>3
    <3>2. memo' = [memo EXCEPT ![s] = row]
      BY <1>1, <2>1
    <3> HIDE DEF row
    <3>3. memo' \in [Servers -> [Tokens -> Memos]] /\ memo'[s] = row
      BY <2>0, <3>1, <3>2
    <3> QED
      BY <2>1, <3>1, <3>3
  <2>2. CASE m.pc # "none"
    BY <1>1, <1>3, <2>0, <2>2 DEF m
  <2> QED
    BY <2>1, <2>2
<1>5. /\ trip' \in [Trips -> TripRows \cup {Home}]
      /\ trip'[t] \in TripRows /\ trip'[t].carries = g
      /\ m.pc = "done" => trip'[t].pc = "back" /\ trip'[t].since = moment /\ trip'[t].sets = m.answer
      /\ m.pc # "done" => trip'[t].pc = "waiting" /\ trip'[t].at = s /\ trip'[t].since = trip[t].since
      /\ \A u \in Trips : u # t => trip'[u] = trip[u]
  <2>1. CASE m.pc = "done"
    <3>1. m.answer \in Answers
      BY <1>3 DEF Memos
    <3>2. Return({t}, m.answer)
      BY <1>1, <2>1
    <3> HIDE DEF m
    <3> QED
      BY <1>0, <1>2, <2>1, <3>1, <3>2, ReturnsFit
  <2>2. CASE m.pc # "done"
    <3> DEFINE row == [trip[t] EXCEPT !.pc = "waiting", !.at = s]
    <3>1. /\ row \in TripRows /\ row.pc = "waiting" /\ row.at = s
          /\ row.carries = g /\ row.since = trip[t].since
      BY <1>0, <1>2 DEF TripRows
    <3>2. trip' = [trip EXCEPT ![t] = row]
      BY <1>1, <2>2 DEF WebTypeOK
    <3> HIDE DEF row
    <3> QED
      BY <2>2, <3>1, <3>2 DEF WebTypeOK
  <2> QED
    BY <2>1, <2>2
<1> HIDE DEF m
<1>6. WebTypeOK'
  BY <1>1, <1>4, <1>5 DEF WebTypeOK
<1>7. ASSUME NEW r \in Servers PROVE r = s
  BY WebAssumption
<1>8. OnTime'
  <2>1. \A u \in Trips : trip'[u] # Home =>
           /\ trip'[u].since <= moment
           /\ trip'[u].pc = "out" => moment <= trip'[u].since + Travel
           /\ trip'[u].pc = "back" => moment <= trip'[u].since + WayBack
    <3>1. trip[t].since <= moment
      BY <1>2, WebNumbers DEF OnTime
    <3> QED
      BY <1>5, <3>1, WebNumbers DEF OnTime
  <2>2. \A h \in Tokens : memo'[s][h].pc \in {"calling", "presented"} => moment <= memo'[s][h].until
    <3>1. moment <= call.until /\ NoMemo.pc = "none"
      BY WebNumbers DEF NoMemo
    <3> QED
      BY <1>3, <1>4, <3>1 DEF OnTime
  <2> QED
    BY <1>1, <1>7, <2>1, <2>2 DEF OnTime
<1>9. Awaited' /\ RefreshedOnce'
  <2>1. \A h \in Tokens : Waiting(s, h) \subseteq Waiting(s, h)'
    BY <1>1, <1>5 DEF Waiting
  <2>2. memo'[s][g].pc \in {"calling", "presented"} => t \in Waiting(s, g)'
    <3>1. memo'[s][g].pc \in {"calling", "presented"} => m.pc # "done"
      BY <1>4
    <3> QED
      BY <1>1, <1>5, <3>1 DEF Waiting
  <2>3. \A h \in Tokens : h # g /\ memo'[s][h].pc \in {"calling", "presented"} =>
           memo[s][h].pc \in {"calling", "presented"}
    BY <1>3, <1>4 DEF NoMemo
  <2>4. \A h \in Tokens : memo'[s][h].pc \in {"calling", "presented"} => Waiting(s, h)' # {}
    BY <2>1, <2>2, <2>3 DEF Awaited
  <2>5. \A r \in Servers, h \in Tokens : memo'[r][h].pc \in {"calling", "presented"} => Waiting(r, h)' # {}
    BY <1>7, <2>4
  <2> QED
    BY <1>1, <2>5 DEF Awaited, RefreshedOnce
<1>10. ASSUME ~mishap', ~over', NEW r \in Servers
       PROVE  MemoFits(r)' /\ Unseen(r)' /\ CookieFits(r)' /\ \A u \in Trips : TripFits(r, u)'
  <2>1. /\ r = s
        /\ MemoFits(s) /\ Unseen(s) /\ CookieFits(s) /\ \A u \in Trips : TripFits(s, u)
    BY <1>1, <1>7, <1>10 DEF Fits
  <2>2. \A h \in Tokens : memo[s][h].pc \in {"calling", "presented"} =>
           Remembered(s)[h] = memo[s][h] /\ memo'[s][h] = memo[s][h]
    <3>1. \A h \in Tokens : memo[s][h].pc \in {"calling", "presented"} =>
             Remembered(s)[h] = memo[s][h]
      BY <1>3, WebNumbers DEF OnTime
    <3> QED
      BY <1>4, <3>1 DEF m
  \* Whoever still carries the token before the newest finds its refresh.
  <2>3. \A h \in Tokens, u \in Trips :
           /\ h + 1 = latest /\ memo[s][h].pc = "done"
           /\ \/ trip[u].pc = "out" /\ trip[u].since <= received[latest] + WayBack
              \/ trip[u].pc = "back" /\ trip[u].since = received[latest]
           => /\ Remembered(s)[h] = memo[s][h] /\ memo'[s][h] = memo[s][h]
              /\ moment <= received[latest] + WayBack + Travel
    <3>1. ASSUME NEW h \in Tokens, NEW u \in Trips,
                 h + 1 = latest, memo[s][h].pc = "done",
                 \/ trip[u].pc = "out" /\ trip[u].since <= received[latest] + WayBack
                 \/ trip[u].pc = "back" /\ trip[u].since = received[latest]
          PROVE  moment <= received[latest] + WayBack + Travel /\ memo[s][h].until >= moment
      <4>1. memo[s][h].until = received[latest] + Memo
        BY <2>1, <3>1 DEF MemoFits
      <4>2. trip[u].since \in Nat /\ trip[u] # Home
        BY <3>1, WebNumbers
      <4>3. CASE trip[u].pc = "out" /\ trip[u].since <= received[latest] + WayBack
        <5>1. moment <= trip[u].since + Travel
          BY <4>2, <4>3 DEF OnTime
        <5> QED
          BY <4>1, <4>2, <4>3, <5>1, WebNumbers, WebAssumption
      <4>4. CASE trip[u].pc = "back" /\ trip[u].since = received[latest]
        <5>1. moment <= trip[u].since + WayBack
          BY <4>2, <4>4 DEF OnTime
        <5> QED
          BY <4>1, <4>2, <4>4, <5>1, WebNumbers, WebAssumption
      <4> QED
        BY <3>1, <4>3, <4>4
    <3>2. \A h \in Tokens : memo[s][h].pc = "done" /\ memo[s][h].until >= moment =>
             Remembered(s)[h] = memo[s][h] /\ memo'[s][h] = memo[s][h]
      BY <1>3, <1>4 DEF m
    <3> QED
      BY <3>1, <3>2
  <2>4. \/ g = latest
        \/ /\ g + 1 = latest /\ m = memo[s][g]
           /\ \/ m.pc = "presented"
              \/ m.pc = "done" /\ m.answer = latest /\ moment <= received[latest] + WayBack + Travel
    <3>1. CASE g + 1 = latest /\ g # latest
      <4>1. \/ memo[s][g].pc = "presented"
            \/ Recalled(s, g) /\ trip[t].since <= received[latest] + WayBack
        BY <1>0, <1>1, <2>1, <3>1 DEF TripFits
      <4>2. memo[s][g].pc = "done" => memo[s][g].answer = latest
        BY <1>2, <2>1, <3>1 DEF MemoFits
      <4> QED
        BY <1>1, <1>2, <2>2, <2>3, <3>1, <4>1, <4>2 DEF m, Recalled
    <3> QED
      BY <1>0, <1>1, <2>1, <3>1 DEF TripFits
  <2>5. m.pc = "none" => g = latest
    BY <2>4
  <2>6. MemoFits(s)'
    <3>1. ASSUME NEW h \in Tokens, memo'[s][h] \in {memo[s][h], NoMemo}
          PROVE  /\ h > latest => memo'[s][h] = NoMemo
                 /\ h = latest =>
                       /\ memo'[s][h].pc \in {"none", "calling", "done"} /\ memo'[s][h].answer = Keep
                       /\ memo'[s][h].pc = "calling" => moment > received[h] + 2 * WayBack + Travel
                 /\ h + 1 = latest /\ memo'[s][h].pc # "none" =>
                       /\ memo'[s][h].pc \in {"presented", "done"} /\ memo'[s][h].answer = latest
                       /\ memo'[s][h].pc = "done" => memo'[s][h].until = received[latest] + Memo
                 /\ h + 1 < latest => memo'[s][h].pc \in {"none", "done"}
      BY <2>1, <3>1 DEF MemoFits, NoMemo
    <3>2. CASE m.pc = "none"
      <4>1. moment > received[latest] + 2 * WayBack + Travel
        BY <1>1, <2>5, <3>2, WebNumbers, WebAssumption
      <4>2. ~(latest > latest) /\ latest + 1 # latest /\ ~(latest + 1 < latest)
        BY WebNumbers
      <4>3. \A h \in Tokens : memo'[s][h] \in {memo[s][h], NoMemo} \/ (h = latest /\ memo'[s][h] = call)
        BY <1>3, <1>4, <2>5, <3>2
      <4> QED
        BY <1>1, <3>1, <4>1, <4>2, <4>3 DEF MemoFits
    <3>3. CASE m.pc # "none"
      <4>1. \A h \in Tokens : memo'[s][h] \in {memo[s][h], NoMemo}
        BY <1>3, <1>4, <3>3
      <4> QED
        BY <1>1, <3>1, <4>1 DEF MemoFits
    <3> QED
      BY <3>2, <3>3
  <2>7. Unseen(s)'
    <3>1. ASSUME NEW h \in Tokens, h + 1 = latest, memo'[s][h].pc = "presented"
          PROVE  /\ memo'[s][latest] = NoMemo
                 /\ cookie # latest
                 /\ \A u \in Trips : trip'[u].pc \in {"out", "waiting"} => trip'[u].carries # latest
                 /\ \A u \in Trips : trip'[u].pc = "back" => trip'[u].sets # latest
      <4>1. memo[s][h].pc = "presented"
        BY <1>3, <1>4, <3>1 DEF NoMemo
      <4>2. /\ memo[s][latest] = NoMemo
            /\ cookie # latest
            /\ \A u \in Trips : trip[u].pc \in {"out", "waiting"} => trip[u].carries # latest
            /\ \A u \in Trips : trip[u].pc = "back" => trip[u].sets # latest
        BY <2>1, <3>1, <4>1 DEF Unseen
      <4>3. g # latest /\ g + 1 = latest
        BY <1>0, <1>1, <2>4, <4>2
      <4>4. g = h
        <5>1. g \in Nat /\ h \in Nat /\ latest \in Nat
          BY <1>2, WebNumbers
        <5> QED
          BY <3>1, <4>3, <5>1
      <4>5. m.pc # "done" /\ m.pc # "none"
        BY <2>2, <3>1, <4>1, <4>4 DEF m
      <4>6. memo'[s][latest] = NoMemo
        BY <1>3, <1>4, <4>2, <4>3, WebNumbers
      <4> QED
        BY <1>5, <4>2, <4>3, <4>5, <4>6
    <3> QED
      BY <1>1, <3>1 DEF Unseen
  <2>8. CookieFits(s)'
    <3>1. CASE cookie \in {Clear, latest}
      BY <1>1, <3>1 DEF CookieFits
    <3>2. CASE cookie \notin {Clear, latest} /\ memo[s][cookie].pc = "presented"
      BY <1>1, <2>1, <2>2, <3>2 DEF CookieFits, WebTypeOK
    <3>3. CASE cookie \notin {Clear, latest} /\ memo[s][cookie].pc # "presented"
      <4>1. /\ cookie \in Tokens /\ cookie + 1 = latest /\ memo[s][cookie].pc = "done"
            /\ \E u \in Trips : trip[u].pc = "back" /\ trip[u].sets # Keep
                                /\ trip[u].since = received[latest]
        BY <2>1, <3>3 DEF CookieFits, Recalled, WebTypeOK
      <4>2. PICK u \in Trips : trip[u].pc = "back" /\ trip[u].sets # Keep
                                /\ trip[u].since = received[latest]
        BY <4>1
      <4>3. memo'[s][cookie] = memo[s][cookie] /\ trip'[u] = trip[u]
        BY <1>1, <1>5, <2>3, <4>1, <4>2, WebNumbers
      <4> QED
        BY <1>1, <4>1, <4>2, <4>3 DEF CookieFits, Recalled
    <3> QED
      BY <3>1, <3>2, <3>3
  <2>9. ASSUME NEW u \in Trips PROVE TripFits(s, u)'
    <3>1. CASE u = t
      <4>1. CASE m.pc = "done"
        <5>1. m.answer \in Tokens => m.answer = latest /\ moment <= received[latest] + WayBack + Travel
          <6>1. g = latest => m.answer \notin Tokens
            BY <1>2, <1>3, <2>1, WebNumbers DEF MemoFits, NoMemo, m
          <6> QED
            BY <2>4, <4>1, <6>1
        <5> QED
          BY <1>1, <1>5, <3>1, <4>1, <5>1 DEF TripFits
      <4>2. CASE m.pc # "done"
        <5>1. m.pc \in {"none", "calling", "presented"}
          BY <1>3, <4>2 DEF Memos
        <5>2. memo'[s][g].pc \in {"calling", "presented"}
          BY <1>4, <5>1
        <5> QED
          BY <1>5, <3>1, <4>2, <5>2 DEF TripFits
      <4> QED
        BY <4>1, <4>2
    <3>2. CASE u # t
      <4>1. trip'[u] = trip[u] /\ TripFits(s, u)
        BY <1>5, <2>1, <3>2
      <4>2. CASE trip[u].pc = "out"
        <5>1. trip[u].carries \in Tokens
          BY <4>2, WebNumbers
        <5> QED
          BY <1>1, <2>2, <2>3, <4>1, <4>2, <5>1 DEF TripFits, Recalled
      <4>3. CASE trip[u].pc = "waiting"
        <5>1. trip[u].carries \in Tokens
          BY <4>3, WebNumbers
        <5> QED
          BY <2>2, <4>1, <4>3, <5>1 DEF TripFits
      <4>4. CASE trip[u].pc = "back"
        BY <1>1, <4>1, <4>4 DEF TripFits
      <4> QED
        BY <4>1, <4>2, <4>3, <4>4 DEF TripFits
    <3> QED
      BY <3>1, <3>2
  <2> QED
    BY <2>1, <2>6, <2>7, <2>8, <2>9
<1> QED
  BY <1>6, <1>8, <1>9, <1>10 DEF Fits

\* The server never presents a refresh token of a browser twice, whatever requests carry an
\* old cookie, unless a new cookie was lost on its way or the server restarted.
THEOREM TokensRefreshedOnce == WebSpec => []RefreshedOnce
<1>1. ASSUME WebInv, [WebNext]_webVars PROVE WebInv'
  <2>1. CASE UNCHANGED webVars
    BY <1>1, <2>1 DEF webVars, WebInv, WebTypeOK, OnTime, Awaited, Waiting, RefreshedOnce, Fits,
                      MemoFits, Unseen, CookieFits, TripFits, Recalled
  <2>2. CASE WebNext
    BY <1>1, <2>2, VisitKeeps, ReceiveKeeps, AnswerKeeps, RefusalKeeps, RefreshSessionKeeps, RestartKeeps,
       PresentKeeps, SettleKeeps, FailureKeeps, MomentKeeps DEF WebNext
  <2> QED
    BY <1>1, <2>1, <2>2
<1>2. WebInv => RefreshedOnce
  BY DEF WebInv
<1> QED
  BY <1>1, <1>2, WebInitially, PTL DEF WebSpec

----------------------------------------------------------------------------
(* All parts *)

\* The command line and the web frontend side by side keep what each keeps alone, and
\* Remind's copy of Silicon Accounts next to them is a behaviour of Accounts.
THEOREM PartsAreKept ==
    SpecOfAll =>
        /\ [](SessionTypeOK /\ NoReuse /\ NoOrphans /\ RefreshedOnce) /\ WorkingSignInsStay
        /\ AccountsSpec
<1>1. InitOfAll => Init /\ WebInit /\ AccountsInit
  BY DEF InitOfAll
<1>2. [NextOfAll]_<<part, accountsVars, vars, webVars>> =>
          [Next]_vars /\ [WebNext]_webVars /\ [AccountsNext]_accountsVars
  <2>1. RemoteNext \/ ProcessNext \/ SharedOnce => AccountsNext
    BY DEF SharedOnce, AccountsNext, RemoteNext
  <2> QED
    BY <2>1 DEF NextOfAll
<1>3. SpecOfAll => Spec /\ WebSpec /\ AccountsSpec
  BY <1>1, <1>2, PTL DEF SpecOfAll, Spec, WebSpec, AccountsSpec
<1> QED
  BY <1>3, SessionTypes, TokensPresentedOnce, NobodyLeftBehind, WorkingOnesStay, TokensRefreshedOnce, PTL
=============================================================================
