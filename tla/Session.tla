------------------------------ MODULE Session ------------------------------
(***************************************************************************)
(* Sign-ins of the command line, saved in one state file that several      *)
(* processes of `remind` share.                                            *)
(*                                                                         *)
(* Silicon Accounts rotates a refresh token every time it is used and ends *)
(* the whole sign-in when a used one is presented again.  A sign-in is a    *)
(* family of generations here: a generation is the pair of an access and a *)
(* refresh token, and only the newest one may be presented.                *)
(*                                                                         *)
(* The file is read without the lock when a command starts, and read again *)
(* and written under it.  A change that needs no network is one step; a     *)
(* refresh keeps the lock while it waits for Silicon Accounts.  The        *)
(* operating system releases the lock of a process that dies, and the file *)
(* is replaced by a rename, so a write happens or does not.                 *)
(*                                                                         *)
(* Left out: origins, profiles, test environment keys, and what a person   *)
(* reads.  A command of several calls behaves as several commands.         *)
(***************************************************************************)
EXTENDS Naturals

CONSTANTS
    Processes,   \* running commands
    Families,    \* sign-ins that Silicon Accounts may make
    Accounts,
    AccountOf,   \* the account of each sign-in
    Slots,       \* slots of the file: production and test environments
    Production,  \* the slot a test environment without one of its own falls back to
    MaxGen,      \* bound: generations of a sign-in
    MaxFaults    \* bound: crashes, failed writes and requests that are given up

NoProcess == "nobody"
NoFamily == "none"

ASSUME SessionAssumption ==
    /\ NoProcess \notin Processes /\ NoFamily \notin Families
    /\ AccountOf \in [Families -> Accounts]
    /\ Production \in Slots
    /\ MaxGen \in Nat \ {0} /\ MaxFaults \in Nat

VARIABLES
    remote,   \* Silicon Accounts: the state of each sign-in and its newest generation
    stale,    \* generations up to this one have less than a minute left
    file,     \* state.json: the sign-in of each slot
    lock,     \* who holds state.lock
    task,     \* what each process is doing
    late,     \* refreshes given up by their process and still on their way
    reused,   \* history: sign-ins that ended because a used token was presented
    faulted,  \* history: sign-ins in the hands of a process when something failed
    faults

vars == <<remote, stale, file, lock, task, late, reused, faulted, faults>>
remoteVars == <<remote, stale, reused>>
faultVars == <<late, faulted, faults>>
----------------------------------------------------------------------------
SignIns == [family : Families, gen : 1 .. MaxGen]
NoSignIn == [family |-> NoFamily, gen |-> 0]

\* The steps of a command: a call with its refresh, a sign-in, a removal.
Steps == {"idle", "call", "lock", "refresh", "save",
          "exchange", "confirm", "store", "remove", "revoke"}

Tasks == [pc : Steps, slot : Slots, force : BOOLEAN, hand : SignIns \cup {NoSignIn}]
NoTask == [pc |-> "idle", slot |-> Production, force |-> FALSE, hand |-> NoSignIn]

\* The variables have their types; the lock is held exactly during a refresh.
SessionTypeOK ==
    /\ remote \in [Families -> [status : {"unused", "live", "ended"}, gen : 0 .. MaxGen]]
    /\ stale \in [Families -> 0 .. MaxGen]
    /\ file \in [Slots -> SignIns \cup {NoSignIn}]
    /\ lock \in Processes \cup {NoProcess}
    /\ task \in [Processes -> Tasks]
    /\ late \subseteq SignIns
    /\ reused \subseteq Families /\ faulted \subseteq Families
    /\ faults \in 0 .. MaxFaults
    /\ \A p \in Processes : (lock = p) = (task[p].pc \in {"refresh", "save"})

Init ==
    /\ remote = [f \in Families |-> [status |-> "unused", gen |-> 0]]
    /\ stale = [f \in Families |-> 0]
    /\ file = [s \in Slots |-> NoSignIn]
    /\ lock = NoProcess
    /\ task = [p \in Processes |-> NoTask]
    /\ late = {} /\ reused = {} /\ faulted = {}
    /\ faults = 0
----------------------------------------------------------------------------
(* Silicon Accounts *)

Live(f) == remote[f].status = "live"
Newest(x) == Live(x.family) /\ x.gen = remote[x.family].gen

Ended(f) == [remote EXCEPT ![f] = [status |-> "ended", gen |-> 0]]

\* The bound on generations is the age at which a sign-in ends.
Rotates(x) == Newest(x) /\ x.gen < MaxGen

\* A refresh token is presented: rotated, or its sign-in ends or has ended before.
Present(x) ==
    IF Rotates(x) THEN remote' = [remote EXCEPT ![x.family].gen = @ + 1] /\ UNCHANGED reused
    ELSE /\ remote' = Ended(x.family)
         /\ reused' = IF Live(x.family) /\ ~Newest(x) THEN reused \cup {x.family} ELSE reused

\* An access token has less than a minute left.
Expire(f) ==
    /\ Live(f)
    /\ stale' = [stale EXCEPT ![f] = remote[f].gen]
    /\ UNCHANGED <<remote, file, lock, task, reused, faultVars>>

\* The sign-in ends at Silicon Accounts: by its account, its age or a deletion.
EndRemotely(f) ==
    /\ Live(f)
    /\ remote' = Ended(f)
    /\ UNCHANGED <<stale, file, lock, task, reused, faultVars>>

Arrive(x) ==
    /\ x \in late
    /\ late' = late \ {x}
    /\ Present(x)
    /\ UNCHANGED <<stale, file, lock, task, faulted, faults>>
----------------------------------------------------------------------------
(* Processes *)

Become(p, t) == task' = [task EXCEPT ![p] = t]
End(p) == Become(p, NoTask)

Unlock(p) == lock' = IF lock = p THEN NoProcess ELSE lock

\* Something fails that the sign-in f may not survive.
Fault(f) ==
    /\ faults < MaxFaults
    /\ faults' = faults + 1
    /\ faulted' = faulted \cup {f}

Fresh(x) == x.gen > stale[x.family]

\* The sign-in a command uses: of its own slot, else the production one.
Effective(s) == IF file[s] # NoSignIn THEN s ELSE Production

\* A command starts with what the file says.
Begin(p, s) ==
    LET own == Effective(s)
    IN  /\ task[p].pc = "idle"
        /\ file[own] # NoSignIn
        /\ Become(p, [NoTask EXCEPT !.pc = IF Fresh(file[own]) THEN "call" ELSE "lock",
                                    !.slot = own, !.hand = file[own]])
        /\ UNCHANGED <<remoteVars, file, lock, faultVars>>

\* Remind accepts the token, or refuses it: then it is refreshed and the call repeated once.
Call(p) ==
    /\ task[p].pc = "call"
    /\ End(p) \/ Become(p, [task[p] EXCEPT !.pc = "lock", !.force = TRUE])
    /\ UNCHANGED <<remoteVars, file, lock, faultVars>>

\* p has a token x from under the lock; the repeated call is the last thing it does.
Proceed(p, x) ==
    IF task[p].force THEN End(p) ELSE Become(p, [task[p] EXCEPT !.pc = "call", !.hand = x])

\* Mutant of MayLock: refreshes of one sign-in are not kept apart.
MayLockAlways(p) == task[p].pc = "lock"

MayLock(p) == task[p].pc = "lock" /\ lock = NoProcess

\* Mutant of Refreshed: the token the command started with is refreshed.
RefreshedStale(p) == task[p].hand

\* What is refreshed is what the file holds once the lock is taken.
Refreshed(p) == file[task[p].slot]

\* Another process may have signed out, signed in or refreshed while p waited.
Refused(p) ==
    \A f \in Families :
        file[task[p].slot].family = f => AccountOf[f] # AccountOf[task[p].hand.family]

Enough(p) == (Refreshed(p) # task[p].hand \/ ~task[p].force) /\ Fresh(Refreshed(p))

Lock(p) ==
    /\ MayLock(p)
    /\ \/ Refused(p) /\ End(p) /\ UNCHANGED lock
       \/ /\ ~Refused(p) /\ Enough(p)
          /\ Proceed(p, Refreshed(p))
          /\ UNCHANGED lock
       \/ /\ ~Refused(p) /\ ~Enough(p)
          /\ Become(p, [task[p] EXCEPT !.pc = "refresh", !.hand = Refreshed(p)])
          /\ lock' = p
    /\ UNCHANGED <<remoteVars, file, faultVars>>

\* Mutant of Write: the file is replaced by the state the command started with.
WriteAlone(s, x) == file' = [r \in Slots |-> IF r = s THEN x ELSE NoSignIn]

\* The whole state is written: what was read under the lock, with one slot changed.
Write(s, x) == file' = [file EXCEPT ![s] = x]

\* The answer comes: new tokens, or that the sign-in has ended; then it is removed,
\* unless that write fails.
Refresh(p) ==
    LET x == task[p].hand
    IN  /\ task[p].pc = "refresh"
        /\ Present(x)
        /\ \/ /\ Rotates(x)
              /\ Become(p, [task[p] EXCEPT !.pc = "save", !.hand = [x EXCEPT !.gen = @ + 1]])
              /\ UNCHANGED <<file, lock>>
           \/ /\ ~Rotates(x)
              /\ Write(task[p].slot, NoSignIn) \/ UNCHANGED file
              /\ End(p) /\ Unlock(p)
        /\ UNCHANGED <<stale, faultVars>>

\* Mutant of GivenUp: any failure of a refresh removes the sign-in.
GivenUpDrops(p) == End(p) /\ Unlock(p) /\ file' = [file EXCEPT ![task[p].slot] = NoSignIn]

\* The command fails and the file stays as it is.
GivenUp(p) == End(p) /\ Unlock(p) /\ UNCHANGED file

\* No answer: the request may have been lost, or may still arrive.
GiveUp(p) ==
    LET x == task[p].hand
    IN  /\ task[p].pc = "refresh"
        /\ Fault(x.family)
        /\ GivenUp(p)
        /\ late' \in {late, late \cup {x}}
        /\ UNCHANGED remoteVars

Save(p) ==
    /\ task[p].pc = "save"
    /\ Write(task[p].slot, task[p].hand)
    /\ Proceed(p, task[p].hand)
    /\ Unlock(p)
    /\ UNCHANGED <<remoteVars, faultVars>>
----------------------------------------------------------------------------
(* Signing in and out *)

\* Mutant of CheckLock: the guard of the check lives until the command ends.
CheckLockKept(p) == lock = NoProcess /\ lock' = p

\* The lock is taken and dropped, to see that the state can be saved.
CheckLock(p) == lock = NoProcess /\ UNCHANGED lock

BeginLogin(p, s) ==
    /\ task[p].pc = "idle"
    /\ CheckLock(p)
    /\ Become(p, [NoTask EXCEPT !.pc = "exchange", !.slot = s])
    /\ UNCHANGED <<remoteVars, file, faultVars>>

\* A short-lived token is exchanged or a device is approved, without the lock; or it is
\* refused, denied or expires; or the answer is lost, and the sign-in with it.  Remind
\* accepts the new token or cannot tell, and one that it refuses is ended.
Exchange(p) ==
    /\ task[p].pc = "exchange"
    /\ \/ \E f \in Families :
             /\ remote[f].status = "unused"
             /\ remote' = [remote EXCEPT ![f] = [status |-> "live", gen |-> 1]]
             /\ \/ /\ \E pc \in {"store", "revoke"} :
                         Become(p, [task[p] EXCEPT !.pc = pc,
                                                   !.hand = [family |-> f, gen |-> 1]])
                   /\ UNCHANGED <<faulted, faults>>
                \/ End(p) /\ Fault(f)
       \/ End(p) /\ UNCHANGED <<remote, faulted, faults>>
    /\ UNCHANGED <<stale, reused, file, lock, late>>

\* Mutant of Replaced: the sign-in that was there is forgotten.
ReplacedForgotten(p, x) == End(p)

\* What was in the slot is no longer anyone's: it is ended at Silicon Accounts.
Replaced(p, x) ==
    IF x = NoSignIn THEN End(p) ELSE Become(p, [task[p] EXCEPT !.pc = "revoke", !.hand = x])

Store(p) ==
    /\ task[p].pc = "store"
    /\ lock = NoProcess
    /\ Write(task[p].slot, task[p].hand)
    /\ Replaced(p, file[task[p].slot])
    /\ UNCHANGED <<remoteVars, lock, faultVars>>

\* remind logout, and forgetting a test environment.
BeginRemove(p, s) ==
    /\ task[p].pc = "idle"
    /\ file[s] # NoSignIn
    /\ Become(p, [NoTask EXCEPT !.pc = "remove", !.slot = s])
    /\ UNCHANGED <<remoteVars, file, lock, faultVars>>

Remove(p) ==
    /\ task[p].pc = "remove"
    /\ lock = NoProcess
    /\ Write(task[p].slot, NoSignIn)
    /\ Replaced(p, file[task[p].slot])
    /\ UNCHANGED <<remoteVars, lock, faultVars>>

\* A used token may or may not end its sign-in.
Revoke(p) ==
    LET x == task[p].hand
    IN  /\ task[p].pc = "revoke"
        /\ remote' \in IF Newest(x) \/ ~Live(x.family) THEN {Ended(x.family)}
                                                 ELSE {Ended(x.family), remote}
        /\ End(p)
        /\ UNCHANGED <<stale, reused, file, lock, faultVars>>

\* p dies or its write fails: tokens that are not saved yet, or that were to be ended,
\* are lost.  A command that dies elsewhere leaves nothing behind.
Fail(p) ==
    /\ task[p].pc \in {"save", "store", "revoke"}
    /\ Fault(task[p].hand.family)
    /\ End(p)
    /\ Unlock(p)
    /\ UNCHANGED <<remoteVars, file, late>>
----------------------------------------------------------------------------
Step(p) ==
    \/ Call(p) \/ Lock(p) \/ Refresh(p) \/ GiveUp(p) \/ Save(p)
    \/ Exchange(p) \/ Store(p) \/ Remove(p) \/ Revoke(p) \/ Fail(p)

Command(p, s) == Begin(p, s) \/ BeginLogin(p, s) \/ BeginRemove(p, s)

Next ==
    \/ \E f \in Families : Expire(f) \/ EndRemotely(f)
    \/ \E x \in late : Arrive(x)
    \/ \E p \in Processes : Step(p) \/ \E s \in Slots : Command(p, s)

Spec == Init /\ [][Next]_vars
----------------------------------------------------------------------------
(* Properties *)

\* "Two processes must never present the same refresh token": a sign-in ends by
\* reuse only if a fault hit one of its own refreshes or writes.
NoReuse == reused \subseteq faulted

\* What p will save or end, and has not yet.
Holds(p, f) == task[p].pc \in {"store", "revoke"} /\ task[p].hand.family = f

\* A live sign-in is in the file, or some process is about to save or end it: logins,
\* logouts and refreshes that run at once never leave one behind that nobody can end.
NoOrphans ==
    \A f \in Families : Live(f) =>
        \/ \E s \in Slots : file[s].family = f
        \/ \E p \in Processes : Holds(p, f)
        \/ f \in faulted

\* A saved sign-in that still works leaves its slot only for a command that says so;
\* refreshes that fail, or that find it changed, keep it.
WorkingSignInsStay ==
    [][\A s \in Slots :
         (\E f \in Families : /\ file[s].family = f /\ file'[s].family # f
                              /\ remote'[f].status = "live") =>
             \E p \in Processes : task[p].slot = s /\ task[p].pc \in {"store", "remove"}]_vars
=============================================================================
