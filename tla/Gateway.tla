------------------------------ MODULE Gateway ------------------------------
(***************************************************************************)
(* How the API decides that an access token is good: its signature by a key *)
(* that Silicon Accounts publishes, and, on the routes where a revoked      *)
(* sign-in must be refused at once, by asking Silicon Accounts.             *)
(*                                                                         *)
(* The published keys are cached for an hour; a token that names an unknown *)
(* key fetches them again, but not more often than every Interval.  One     *)
(* fetch runs at a time: it holds a mutex while it waits for the answer.    *)
(* An answer about a token is cached for Reuse seconds from when it comes,  *)
(* and requests that ask at the same time do not wait for each other.      *)
(*                                                                         *)
(* One process, one token, several requests.  Keys have numbers: a set of  *)
(* published keys is known by its newest, and 0 is a key that nobody ever  *)
(* published.  Left out: proofs, expiry and audience of tokens, and the    *)
(* bound of the cache, beyond which it is emptied.                         *)
(***************************************************************************)
EXTENDS Integers

CONSTANTS
    Checks,     \* requests being authenticated
    KeyNumbers, \* keys that may be published
    MaxAge,     \* the age at which cached keys are fetched again
    Interval,   \* the least time between two fetches for unknown keys
    Reuse,      \* how long an answer about a token is reused
    Trip,       \* how long a request to Silicon Accounts may take
    MaxSecond   \* bound: the clock stops here

NoCheck == "nobody"
Never == -1

ASSUME GatewayAssumption ==
    /\ NoCheck \notin Checks
    /\ KeyNumbers \subseteq Nat \ {0} /\ 1 \in KeyNumbers
    /\ MaxAge \in Nat /\ Interval \in Nat /\ Reuse \in Nat \ {0} /\ Trip \in Nat /\ MaxSecond \in Nat

VARIABLES
    second,
    published,     \* Silicon Accounts: the newest key
    revoked,       \* Silicon Accounts: when the token was revoked
    keys,          \* the cached keys and when they came
    forced,        \* when keys were fetched for unknown ones; the program keeps the last
    fetching,      \* who holds the mutex of fetches
    introspected,  \* the cached answer about the token and when it came
    check          \* what each request is doing

gatewayVars == <<second, published, revoked, keys, forced, fetching, introspected, check>>
accountsSide == <<published, revoked>>
----------------------------------------------------------------------------
Seconds == 0 .. MaxSecond
Stages == {"idle", "wait", "fetch", "verify", "ask", "asked", "accepted"}

\* at: when the request asked, or was accepted; active: what it was told.
ChecksDone == [pc : Stages, key : KeyNumbers \cup {0}, unknown : BOOLEAN, at : Seconds,
               active : BOOLEAN]
NewCheck == [pc |-> "idle", key |-> 0, unknown |-> FALSE, at |-> 0, active |-> FALSE]

\* The variables have their types; the mutex is held exactly during a fetch.
GatewayTypeOK ==
    /\ second \in Seconds
    /\ published \in KeyNumbers
    /\ revoked \in Seconds \cup {Never}
    /\ keys \in [newest : KeyNumbers \cup {0}, at : Seconds]
    /\ forced \subseteq Seconds
    /\ fetching \in Checks \cup {NoCheck}
    /\ introspected \in [active : BOOLEAN, at : Seconds \cup {Never}]
    /\ check \in [Checks -> ChecksDone]
    /\ \A c \in Checks : (fetching = c) = (check[c].pc = "fetch")

GatewayInit ==
    /\ second = 0
    /\ published = 1
    /\ revoked = Never
    /\ keys = [newest |-> 0, at |-> 0]
    /\ forced = {}
    /\ fetching = NoCheck
    /\ introspected = [active |-> FALSE, at |-> Never]
    /\ check = [c \in Checks |-> NewCheck]
----------------------------------------------------------------------------
(* The published keys *)

Cached == keys.newest # 0
FreshKeys == Cached /\ second - keys.at < MaxAge
ForcedRecently == \E t \in forced : second - t < Interval

Step(c, pc) == check' = [check EXCEPT ![c].pc = pc]
Reject(c) == check' = [check EXCEPT ![c] = NewCheck]

\* Cached keys serve a request that has not met an unknown one.
Present(c, key) ==
    /\ check[c].pc \in {"idle", "accepted"}
    /\ check' = [check EXCEPT ![c] = [NewCheck EXCEPT
          !.pc = IF FreshKeys THEN "verify" ELSE "wait", !.key = key]]
    /\ UNCHANGED <<second, accountsSide, keys, forced, fetching, introspected>>

\* Mutant of Enough: what changed while the request waited is not looked at again.
EnoughNever(c) == FALSE

\* Another request may have fetched while this one waited for the mutex.
Enough(c) == Cached /\ IF check[c].unknown THEN ForcedRecently ELSE FreshKeys

TakeMutex(c) ==
    /\ check[c].pc = "wait"
    /\ fetching = NoCheck
    /\ \/ Enough(c) /\ Step(c, "verify") /\ UNCHANGED <<forced, fetching>>
       \/ /\ ~Enough(c)
          /\ fetching' = c
          /\ forced' = IF check[c].unknown THEN forced \cup {second} ELSE forced
          /\ Step(c, "fetch")
    /\ UNCHANGED <<second, accountsSide, keys, introspected>>

\* The keys come; or they do not, and those already fetched are kept.
Fetched(c) ==
    /\ check[c].pc = "fetch"
    /\ \/ keys' = [newest |-> published, at |-> second] /\ Step(c, "verify")
       \/ Cached /\ Step(c, "verify") /\ UNCHANGED keys
       \/ ~Cached /\ Reject(c) /\ UNCHANGED keys
    /\ fetching' = NoCheck
    /\ UNCHANGED <<second, accountsSide, forced, introspected>>

Verify(c) ==
    LET known == check[c].key \in 1 .. keys.newest
    IN  /\ check[c].pc = "verify"
        /\ \/ known /\ Step(c, "ask")
           \/ /\ ~known /\ ~check[c].unknown
              /\ check' = [check EXCEPT ![c].pc = "wait", ![c].unknown = TRUE]
           \/ ~known /\ check[c].unknown /\ Reject(c)
        /\ UNCHANGED <<second, accountsSide, keys, forced, fetching, introspected>>
----------------------------------------------------------------------------
(* Asking about the token *)

\* Mutant of Reusable: an answer is reused as long as there is one.
ReusableAlways == introspected.at # Never

Reusable == introspected.at # Never /\ second - introspected.at < Reuse

Decide(c, active) ==
    check' = [check EXCEPT ![c] =
        IF active THEN [NewCheck EXCEPT !.pc = "accepted", !.at = second] ELSE NewCheck]

Introspect(c) ==
    /\ check[c].pc = "ask"
    /\ \/ Reusable /\ Decide(c, introspected.active)
       \/ /\ ~Reusable
          /\ check' = [check EXCEPT
                ![c].pc = "asked", ![c].at = second, ![c].active = revoked = Never]
    /\ UNCHANGED <<second, accountsSide, keys, forced, fetching, introspected>>

\* The answer was given at any moment of the request, at the earliest when it was made;
\* it is cached from when it comes, also over a later answer that came before.
Answered(c) ==
    /\ check[c].pc = "asked"
    /\ second - check[c].at <= Trip
    /\ introspected' = [active |-> check[c].active, at |-> second]
    /\ Decide(c, check[c].active)
    /\ UNCHANGED <<second, accountsSide, keys, forced, fetching>>

\* Silicon Accounts does not answer in time: the request is refused.
Unanswered(c) ==
    /\ check[c].pc = "asked"
    /\ Reject(c)
    /\ UNCHANGED <<second, accountsSide, keys, forced, fetching, introspected>>
----------------------------------------------------------------------------
(* Silicon Accounts and the clock *)

Publish ==
    /\ published + 1 \in KeyNumbers
    /\ published' = published + 1
    /\ UNCHANGED <<second, revoked, keys, forced, fetching, introspected, check>>

Revoke ==
    /\ revoked = Never
    /\ revoked' = second
    /\ UNCHANGED <<second, published, keys, forced, fetching, introspected, check>>

NextSecond ==
    /\ second < MaxSecond
    /\ second' = second + 1
    /\ UNCHANGED <<accountsSide, keys, forced, fetching, introspected, check>>

GatewayNext ==
    \/ \E c \in Checks :
          \/ \E key \in KeyNumbers \cup {0} : Present(c, key)
          \/ TakeMutex(c) \/ Fetched(c) \/ Verify(c)
          \/ Introspect(c) \/ Answered(c) \/ Unanswered(c)
    \/ Publish \/ Revoke \/ NextSecond

GatewaySpec == GatewayInit /\ [][GatewayNext]_gatewayVars
----------------------------------------------------------------------------
(* Properties *)

\* A revoked token is accepted no longer than one cached answer and one request to
\* Silicon Accounts, whatever answers overtake each other.
RevokedTokensEnd ==
    \A c \in Checks : check[c].pc = "accepted" /\ revoked # Never =>
        check[c].at < revoked + Reuse + Trip

\* Tokens with made-up keys, many at once, make the API fetch the keys no more often than
\* every Interval.
FetchesAreRare == \A s, t \in forced : s < t => t - s >= Interval
=============================================================================
