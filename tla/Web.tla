-------------------------------- MODULE Web --------------------------------
(***************************************************************************)
(* The web frontend's session: one sign-in of a browser, kept in a sealed   *)
(* cookie that the server renews.                                          *)
(*                                                                         *)
(* A refresh token may be presented once, as in Session, but the browser    *)
(* sends many requests with one cookie, and the new one comes back with     *)
(* their answers.  So a server refreshes each token once, however many      *)
(* requests carry it, and remembers the answer for a while.  Servers share  *)
(* nothing, which is why only one may run.                                  *)
(*                                                                         *)
(* What the server hands to a browser is -1 (keep the cookie), 0 (clear it) *)
(* or a token.  Left out: the end of the sign-in after 900 days, new        *)
(* sign-ins, refusals of the frontend itself by Silicon Accounts, and the   *)
(* browser's own care to refresh in one tab only, which browsers without    *)
(* locks do not take.                                                      *)
(***************************************************************************)
EXTENDS Integers, FiniteSets

CONSTANTS
    Trips,     \* requests of the browser that are under way at once
    Servers,   \* processes of the frontend
    Leads,     \* how long before its end a token is refreshed, one for each kind of route
    TokenLife, \* how long an access token is valid
    Memo,      \* REFRESH_MEMO_MS
    Blink,     \* how long a failed refresh is remembered
    CallTime,  \* after which a call to Silicon Accounts is given up
    Travel,    \* how long a request is on its way, at most
    WayBack,   \* how long an answer is, with the time the service takes before it
    MaxToken,  \* bound: tokens issued
    MaxMoment  \* bound: the clock stops here

Keep == -1
Clear == 0

ASSUME WebAssumption ==
    /\ Servers # {} /\ \A s, r \in Servers : s = r
    /\ {TokenLife, CallTime, Travel, WayBack, MaxMoment} \subseteq Nat /\ Leads \subseteq Nat
    /\ Memo \in Nat /\ Blink \in Nat /\ MaxToken \in Nat \ {0}
    /\ WayBack + Travel <= Memo /\ CallTime <= 2 * Memo
    /\ \A lead \in Leads : lead + 2 * WayBack + Travel < TokenLife

VARIABLES
    moment,
    latest,    \* Silicon Accounts: the newest token of the sign-in
    over,      \* Silicon Accounts: the sign-in has ended
    cookie,    \* the browser's
    received,  \* when the server received each token
    memo,      \* the refreshes that each server remembers
    trip,      \* the requests under way
    replayed,  \* history: a used token was presented
    mishap     \* history: a new cookie was lost on its way, or a server forgot its refreshes

webVars == <<moment, latest, over, cookie, received, memo, trip, replayed, mishap>>
----------------------------------------------------------------------------
Tokens == 1 .. MaxToken
Answers == Tokens \cup {Keep, Clear}
Moments == 0 .. MaxMoment

Memos == [pc : {"none", "calling", "presented", "done"}, answer : Answers, until : Nat]
NoMemo == [pc |-> "none", answer |-> Keep, until |-> 0]

Home == [pc |-> "home"]
TripRows == [pc : {"out", "waiting", "back"}, carries : Tokens, at : Servers, sets : Answers,
             since : Moments]

\* The variables have their types.
WebTypeOK ==
    /\ moment \in Moments
    /\ latest \in Tokens /\ over \in BOOLEAN
    /\ cookie \in Tokens \cup {Clear}
    /\ received \in [Tokens -> Moments]
    /\ memo \in [Servers -> [Tokens -> Memos]]
    /\ trip \in [Trips -> TripRows \cup {Home}]
    /\ replayed \in BOOLEAN /\ mishap \in BOOLEAN

\* The browser has signed in and been away for some of its first token's life.
WebInit ==
    /\ moment \in 0 .. (IF TokenLife < MaxMoment THEN TokenLife ELSE MaxMoment)
    /\ latest = 1 /\ over = FALSE
    /\ cookie = 1
    /\ received = [g \in Tokens |-> 0]
    /\ memo = [s \in Servers |-> [g \in Tokens |-> NoMemo]]
    /\ trip = [t \in Trips |-> Home]
    /\ replayed = FALSE /\ mishap = FALSE
----------------------------------------------------------------------------
(* The server *)

NearEnd(g, lead) == received[g] + TokenLife - moment <= lead

\* Mutant of Remembers: a refresh is only shared while it is under way.
RemembersCalls(m) == m.pc \in {"calling", "presented"}

\* Refreshes are forgotten when a request comes after their time.
Remembers(m) == m.pc # "none" /\ m.until >= moment

Remembered(s) == [g \in Tokens |-> IF Remembers(memo[s][g]) THEN memo[s][g] ELSE NoMemo]

\* The answers to the requests in T set out for the browser.
Return(T, sets) ==
    trip' = [t \in Trips |->
                IF t \in T THEN [trip[t] EXCEPT !.pc = "back", !.sets = sets, !.since = moment]
                ELSE trip[t]]

\* A request whose token is good for longer than its route asks for changes nothing.
UseSession(t, lead) ==
    /\ trip[t].pc = "out" /\ ~NearEnd(trip[t].carries, lead)
    /\ Return({t}, Keep)
    /\ UNCHANGED <<moment, latest, over, cookie, received, memo, replayed, mishap>>

\* Any other shares the refresh of its token that the server remembers, or begins one.
RefreshSession(t, s, lead) ==
    LET g == trip[t].carries
        m == Remembered(s)[g]
    IN  /\ trip[t].pc = "out" /\ NearEnd(g, lead)
        /\ IF m.pc = "done" THEN Return({t}, m.answer)
           ELSE trip' = [trip EXCEPT ![t].pc = "waiting", ![t].at = s]
        /\ memo' = [memo EXCEPT ![s] =
                        IF m.pc # "none" THEN Remembered(s)
                        ELSE [Remembered(s) EXCEPT ![g] =
                                 [pc |-> "calling", answer |-> Keep, until |-> moment + 2 * Memo]]]
        /\ UNCHANGED <<moment, latest, over, cookie, received, replayed, mishap>>

\* Silicon Accounts gets the refresh token: it rotates the newest, and ends the sign-in
\* when a used one is presented.
PresentToken(s, g) ==
    /\ memo[s][g].pc = "calling"
    /\ \/ /\ ~over /\ g = latest /\ latest < MaxToken
          /\ latest' = latest + 1
          /\ memo' = [memo EXCEPT ![s][g].pc = "presented", ![s][g].answer = latest + 1]
          /\ UNCHANGED <<over, replayed>>
       \/ /\ over \/ g # latest
          /\ over' = TRUE
          /\ replayed' = (replayed \/ ~over)
          /\ memo' = [memo EXCEPT ![s][g].pc = "presented", ![s][g].answer = Clear]
          /\ UNCHANGED latest
    /\ UNCHANGED <<moment, cookie, received, trip, mishap>>

Waiting(s, g) == {t \in Trips : trip[t].pc = "waiting" /\ trip[t].at = s /\ trip[t].carries = g}

\* The refresh ends with an answer, for everyone who waits for it.
Conclude(s, g, answer) ==
    /\ memo' = [memo EXCEPT ![s][g] =
                   [pc |-> "done", answer |-> answer,
                    until |-> moment + IF answer \in Tokens THEN Memo ELSE Blink]]
    /\ Return(Waiting(s, g), answer)
    /\ UNCHANGED <<moment, latest, over, cookie, replayed>>

Settle(s, g) ==
    /\ memo[s][g].pc = "presented"
    /\ Conclude(s, g, memo[s][g].answer)
    /\ received' = [h \in Tokens |-> IF h = memo[s][g].answer THEN moment ELSE received[h]]
    /\ UNCHANGED mishap

\* No answer from Silicon Accounts, or none that says the sign-in is over: the session
\* stays, though the token may have been used.  A call that is given up and arrives later
\* counts as one that was used here.
CallFails(s, g) ==
    /\ memo[s][g].pc \in {"calling", "presented"}
    /\ Conclude(s, g, Keep)
    /\ mishap' = (mishap \/ memo[s][g].answer \in Tokens)
    /\ UNCHANGED received

\* The service does not accept the token of a request that was sent on to it.
ServiceRefuses(t) ==
    /\ trip[t].pc = "back" /\ trip[t].sets # Clear
    /\ trip' = [trip EXCEPT ![t].sets = Clear]
    /\ UNCHANGED <<moment, latest, over, cookie, received, memo, replayed, mishap>>

\* The sign-in is ended as well as possible, and the cookie in any case.
SignOut(t) ==
    /\ trip[t].pc = "out"
    /\ over' \in {over, TRUE}
    /\ Return({t}, Clear)
    /\ UNCHANGED <<moment, latest, cookie, received, memo, replayed, mishap>>

\* The process restarts, with what it remembers and whoever it was answering.
RestartServer(s) ==
    /\ \E g \in Tokens : memo[s][g].pc # "none"
    /\ memo' = [memo EXCEPT ![s] = [g \in Tokens |-> NoMemo]]
    /\ trip' = [t \in Trips |-> IF trip[t].pc = "waiting" /\ trip[t].at = s THEN Home ELSE trip[t]]
    /\ mishap' = TRUE
    /\ UNCHANGED <<moment, latest, over, cookie, received, replayed>>
----------------------------------------------------------------------------
(* The browser *)

Visit(t) ==
    /\ trip[t] = Home /\ cookie # Clear
    /\ \E s \in Servers :
          trip' = [trip EXCEPT ![t] = [pc |-> "out", carries |-> cookie, at |-> s, sets |-> Keep,
                                       since |-> moment]]
    /\ UNCHANGED <<moment, latest, over, cookie, received, memo, replayed, mishap>>

Receive(t) ==
    /\ trip[t].pc = "back"
    /\ cookie' = IF trip[t].sets = Keep THEN cookie ELSE trip[t].sets
    /\ trip' = [trip EXCEPT ![t] = Home]
    /\ UNCHANGED <<moment, latest, over, received, memo, replayed, mishap>>

\* The reader leaves the page, or the network fails.
LoseAnswer(t) ==
    /\ trip[t].pc = "back"
    /\ trip' = [trip EXCEPT ![t] = Home]
    /\ mishap' = (mishap \/ trip[t].sets # Keep)
    /\ UNCHANGED <<moment, latest, over, cookie, received, memo, replayed>>

NextMoment ==
    /\ moment < MaxMoment
    /\ \A t \in Trips :
          /\ trip[t].pc = "out" => moment < trip[t].since + Travel
          /\ trip[t].pc = "back" => moment < trip[t].since + WayBack
    /\ \A s \in Servers, g \in Tokens :
          memo[s][g].pc \in {"calling", "presented"} => moment + 2 * Memo < memo[s][g].until + CallTime
    /\ moment' = moment + 1
    /\ UNCHANGED <<latest, over, cookie, received, memo, trip, replayed, mishap>>

WebNext ==
    \/ \E t \in Trips :
          \/ Visit(t) \/ SignOut(t) \/ ServiceRefuses(t) \/ Receive(t) \/ LoseAnswer(t)
          \/ \E lead \in Leads : UseSession(t, lead) \/ \E s \in Servers : RefreshSession(t, s, lead)
    \/ \E s \in Servers :
          RestartServer(s) \/ \E g \in Tokens : PresentToken(s, g) \/ Settle(s, g) \/ CallFails(s, g)
    \/ NextMoment

WebSpec == WebInit /\ [][WebNext]_webVars
----------------------------------------------------------------------------
(* Properties *)

\* "Presenting a used one revokes the whole sign-in", so no token is presented twice,
\* whatever requests carry an old cookie and whatever answers overtake each other, unless
\* a new cookie was lost on its way or the server restarted.
RefreshedOnce == replayed => mishap
=============================================================================
