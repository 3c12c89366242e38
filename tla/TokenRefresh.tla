------------------------------ MODULE TokenRefresh ------------------------------
(***************************************************************************)
(* Requests of the agent when the access token expires: the retries of     *)
(* fetchCore.ts, the response interceptor that refreshes the token under a *)
(* lock, the loop of CodeStreamApiProvider.fetch() that refreshes it once  *)
(* more, the one refresh they all share (refreshNewRelicToken), and what   *)
(* the client is told of the session.                                      *)
(*                                                                         *)
(* An access token and the refresh token that came with it are one number, *)
(* in the order they were issued.  A refresh is itself a call, Put, with   *)
(* the same retries and the same loop, but no interceptor.                 *)
(***************************************************************************)
EXTENDS Integers, Sequences, SequencesExt

CONSTANTS
    Intercepted,   \* requests of fetch() with a token: interceptor, then loop
    Plain,         \* requests of fetch() without one (skipInterceptors): loop only
    Graphql,       \* requests of customFetch(): interceptor only
    Put,           \* the call of a refresh
    None,
    MaxRetries,    \* of fetchCore(): 3 in the code
    MaxTroubles,   \* bound: times the tokens expire, and faults, together
    MaxFaults      \* bound: faults

Requests == Intercepted \cup Plain \cup Graphql
Calls == Requests \cup {Put}

ASSUME TokenRefreshAssumption ==
    /\ Put \notin Requests /\ None \notin Calls
    /\ Intercepted \cap Plain = {} /\ Graphql \cap (Intercepted \cup Plain) = {}
    /\ MaxRetries \in Nat \ {0} /\ MaxTroubles \in Nat /\ MaxFaults \in Nat

VARIABLES
    issued,        \* EXTERNAL: the last token issued
    expired,       \* EXTERNAL: tokens up to this one are refused as expired
    revoked,       \* EXTERNAL: no refresh is granted any more
    rotated,       \* EXTERNAL: a refresh token was refused for being replaced
    broadcast,     \* EXTERNAL: tokens on their way in a message about the user
    holder,        \* tokenHolder: the token requests start with
    call,          \* by call, its progress
    lock,          \* refreshLock: the request that holds it, or None
    refreshFailed, \* _refreshTokenFailed
    logout,        \* the rate limiter's logout: "no", "due" or "told"
    told,          \* the status the client was told last
    timers,        \* the statuses being debounced, by their last call, and if repeated
    outrun,        \* history: a status was told while a repetition of the other waited
    together,      \* history: two requests were under way at once
    expiries,      \* bound: times the tokens issued so far have expired
    faults         \* bound: what else has gone wrong

server == <<issued, expired, revoked, rotated, broadcast>>
status == <<refreshFailed, logout, told, timers, outrun>>
vars == <<server, holder, call, lock, status, together, expiries, faults>>

NoCall == [pc |-> "idle", token |-> 0, refresh |-> 0, using |-> 0, count |-> 0,
           tried |-> FALSE, looped |-> FALSE, resp |-> "none"]

\* MUTANT: the client for GraphQL has no interceptor.
InterceptsApiOnly(c) == c \in Intercepted

Intercepts(c) == c \in Intercepted \cup Graphql
Loops(c) == c \in Intercepted \cup Plain \cup {Put}
Refreshing == call[Put].pc # "idle"            \* _refreshNRTokenPromise is set

MayFail == expiries + faults < MaxTroubles
Fault == MayFail /\ faults < MaxFaults /\ faults' = faults + 1

--------------------------------------------------------------------------------
(* What the server and other editors do. *)

Expire ==
    /\ MayFail /\ expired < issued
    /\ expired' = issued
    /\ expiries' = expiries + 1
    /\ UNCHANGED <<issued, revoked, rotated, broadcast, holder, call, lock, status, together, faults>>

Revoke ==
    /\ ~revoked /\ Fault
    /\ revoked' = TRUE
    /\ UNCHANGED <<issued, expired, rotated, broadcast, holder, call, lock, status, together, expiries>>

OtherEditorRefreshes ==
    /\ ~revoked /\ Fault
    /\ issued' = issued + 1
    /\ broadcast' = broadcast \cup {issued'}
    /\ UNCHANGED <<expired, revoked, rotated, holder, call, lock, status, together, expiries>>

\* updateTokenHolder(): whatever token the user's object has replaces the one held.
UserMessage ==
    /\ \E n \in broadcast :
        /\ \A k \in broadcast : n <= k
        /\ holder' = n
        /\ broadcast' = broadcast \ {n}
    /\ UNCHANGED <<issued, expired, revoked, rotated, call, lock, status, together, expiries, faults>>

--------------------------------------------------------------------------------
(* Telling the client: onSessionTokenStatusChanged(), debounced by status.  The first *)
(* call is told at once, one that is repeated within five seconds after the last.     *)

Others(s) == RemoveFirstMatch(timers, LAMBDA t : t.status = s)
Waiting(s) == \E i \in DOMAIN timers : timers[i].status = s

Tell(s) ==
    /\ timers' = Append(Others(s), [status |-> s, again |-> Waiting(s)])
    /\ told' = IF Waiting(s) THEN told ELSE s
    /\ outrun' = (~Waiting(s) /\ \E i \in DOMAIN timers : timers[i].again)

TellNothing == UNCHANGED <<told, timers, outrun>>

DebounceEnds ==
    /\ timers # <<>>
    /\ timers' = Tail(timers)
    /\ told' = IF Head(timers).again THEN Head(timers).status ELSE told
    /\ UNCHANGED <<server, holder, call, lock, refreshFailed, logout, outrun, together, expiries, faults>>

\* Fifteen seconds after the rate limiter found the requests too many.
LogoutTold ==
    /\ logout = "due"
    /\ logout' = "told"
    /\ Tell("expired")
    /\ UNCHANGED <<server, holder, call, lock, refreshFailed, together, expiries, faults>>

--------------------------------------------------------------------------------
(* fetchCore(). *)

\* MUTANT: the retry sends the header it had.
HeaderKept(c, n) == call[c].token

Header(c, n) == n

\* MUTANT: one retry too many.
MayRetryOnceMore(c) == call[c].count <= MaxRetries

MayRetry(c) == call[c].count < MaxRetries

Attempt(rec) == [rec EXCEPT !.pc = "sending", !.resp = "none"]
Again(rec, tried) == [Attempt(rec) EXCEPT !.count = @ + 1, !.tried = tried]
Ended(rec) == [NoCall EXCEPT !.pc = "ended", !.resp = rec.resp, !.token = rec.token]

Start(r) ==
    /\ call[r].pc = "idle"
    /\ call' = [call EXCEPT ![r] = Attempt([NoCall EXCEPT !.token = holder, !.refresh = IF Loops(r) THEN holder ELSE 0])]
    /\ together' = (together \/ \E q \in Requests : call[q].pc \notin {"idle", "ended"})
    /\ UNCHANGED <<server, holder, lock, status, expiries, faults>>

\* refreshNewRelicToken(): the refresh under way, or a new one with this refresh token.
Refresh(c, rec, n) ==
    call' = [d \in Calls |-> CASE d = c -> rec
                              [] d = Put /\ d # c /\ ~Refreshing -> Attempt([NoCall EXCEPT !.using = n])
                              [] OTHER -> call[d]]

\* fetchCore() has returned: fetch() reads the body, in the same step here, and refreshes once
\* if the token has expired, with the refresh token there was when it started.
Return(c) ==
    IF Loops(c) /\ call[c].resp = "expired" /\ ~call[c].looped
    THEN Refresh(c, [call[c] EXCEPT !.pc = "loopWait"], call[c].refresh)
    ELSE call' = [call EXCEPT ![c] = Ended(@)]

\* What the server does with an attempt it receives, and answers.  A refresh token that has
\* been replaced may be refused, and the refusal may say "token expired", too.
Grants(resp) ==
    \/ /\ resp = "ok" /\ ~revoked
       /\ issued' = issued + 1
       /\ broadcast' = broadcast \cup {issued'}
       /\ UNCHANGED rotated
    \/ /\ resp \in {"refused", "expired"} /\ (revoked \/ call[Put].using # issued)
       /\ rotated' = (rotated \/ ~revoked)
       /\ UNCHANGED <<issued, broadcast>>

Serves(c, resp) ==
    \/ c = Put /\ Grants(resp)
    \/ /\ c # Put
       /\ resp = IF call[c].token > expired THEN "ok" ELSE "expired"
       /\ UNCHANGED <<issued, broadcast, rotated>>

Answer(c, resp) ==
    call' = [call EXCEPT ![c].pc = "answered", ![c].resp = resp,
                         ![c].token = IF c = Put /\ resp = "ok" THEN issued' ELSE @]

ServerAnswers(c) ==
    /\ call[c].pc = "sending"
    /\ \E resp \in {"ok", "expired", "refused"} : Serves(c, resp) /\ Answer(c, resp)
    /\ UNCHANGED <<expired, revoked, holder, lock, status, together, expiries, faults>>

\* The answer is lost, or the attempt is, or the server has a failure of its own.
AttemptFails(c) ==
    /\ call[c].pc = "sending"
    /\ Fault
    /\ \/ (\E resp \in {"ok", "expired", "refused"} : Serves(c, resp)) /\ Answer(c, "lost")
       \/ UNCHANGED <<issued, broadcast, rotated>> /\ \E resp \in {"lost", "error"} : Answer(c, resp)
    /\ UNCHANGED <<expired, revoked, holder, lock, status, together, expiries>>

\* The rate limiter lets an attempt not be made; for the API server it also logs out.
RateLimited(c) ==
    /\ call[c].pc = "sending"
    /\ Fault
    /\ call' = [call EXCEPT ![c] = [Ended(@) EXCEPT !.resp = "lost"]]
    /\ logout' = IF Loops(c) THEN "due" ELSE logout
    /\ UNCHANGED <<server, holder, lock, refreshFailed, told, timers, outrun, together, expiries>>

\* An exception: the memory of a refresh is dropped.
HandleException(c) ==
    /\ call[c].pc = "answered" /\ call[c].resp = "lost"
    /\ call' = [call EXCEPT ![c] =
                    IF MayRetry(c)
                    THEN Again(@, FALSE)
                    ELSE Ended(@)]
    /\ UNCHANGED <<server, holder, lock, status, together, expiries, faults>>

Intercepting(c) == Intercepts(c) /\ call[c].resp = "expired" /\ ~call[c].tried

\* The interceptor notes the refresh token and reads the body.
StartIntercept(c) ==
    /\ call[c].pc = "answered" /\ Intercepting(c)
    /\ call' = [call EXCEPT ![c].pc = "reading", ![c].using = holder]
    /\ UNCHANGED <<server, holder, lock, status, together, expiries, faults>>

HandleResponse(c) ==
    /\ call[c].pc = "answered" /\ call[c].resp # "lost" /\ ~Intercepting(c)
    /\ IF call[c].resp = "error" /\ MayRetry(c)
       THEN call' = [call EXCEPT ![c] = Again(@, TRUE)]
       ELSE Return(c)
    /\ UNCHANGED <<server, holder, lock, status, together, expiries, faults>>

\* The body says that the token has expired: wait for a refresh, or take the lock for one.
ReadBody(c) ==
    /\ call[c].pc = "reading"
    /\ IF lock # None
       THEN call' = [call EXCEPT ![c].pc = "lockWait"] /\ UNCHANGED lock
       ELSE /\ lock' = c
            /\ Refresh(c, [call[c] EXCEPT !.pc = "refreshWait"], call[c].using)
    /\ UNCHANGED <<server, holder, status, together, expiries, faults>>

Retry(c) ==
    /\ call[c].pc = "retry"
    /\ IF MayRetry(c)
       THEN call' = [call EXCEPT ![c] = Again(@, TRUE)]
       ELSE Return(c)
    /\ UNCHANGED <<server, holder, lock, status, together, expiries, faults>>

Abort(c) ==
    /\ call[c].pc = "aborted"
    /\ Return(c)
    /\ UNCHANGED <<server, holder, lock, status, together, expiries, faults>>

--------------------------------------------------------------------------------
(* The refresh is over: the promise is settled and deleted, the lock is released, and *)
(* everyone that waited for either goes on.                                           *)

\* MUTANT: the lock is not released.
LockKept == lock

Released == None

\* MUTANT: the new token is not kept.
TokenNotKept(n) == holder

Kept(n) == n

\* MUTANT: the client is not told of the recovery.
RecoveryUnnoticed == FALSE

Recovering == refreshFailed

Resumed(c, ok) ==
    LET rec == call[c]
        new == [rec EXCEPT !.token = Header(c, IF ok THEN call[Put].token ELSE holder), !.using = 0]
    IN  IF c = Put THEN NoCall ELSE
        CASE rec.pc = "refreshWait" /\ ok -> [new EXCEPT !.pc = "retry"]
          [] rec.pc = "refreshWait" /\ ~ok -> [rec EXCEPT !.pc = "aborted"]
          [] rec.pc = "lockWait" -> [new EXCEPT !.pc = "retry"]
          [] rec.pc = "loopWait" /\ ok ->
                [Attempt(new) EXCEPT !.looped = TRUE, !.count = 0, !.tried = FALSE]
          [] rec.pc = "loopWait" /\ ~ok -> Ended(rec)
          [] OTHER -> rec

RefreshSucceeds ==
    /\ call[Put].pc = "ended" /\ call[Put].resp = "ok"
    /\ holder' = Kept(call[Put].token)
    /\ refreshFailed' = FALSE
    /\ IF Recovering THEN Tell("active") ELSE TellNothing
    /\ call' = [c \in Calls |-> Resumed(c, TRUE)]
    /\ lock' = Released
    /\ UNCHANGED <<server, logout, together, expiries, faults>>

RefreshFails ==
    /\ call[Put].pc = "ended" /\ call[Put].resp # "ok"
    /\ holder' = holder
    /\ IF call[Put].resp = "refused"
       THEN refreshFailed' = TRUE /\ Tell("expired")
       ELSE UNCHANGED refreshFailed /\ TellNothing
    /\ call' = [c \in Calls |-> Resumed(c, FALSE)]
    /\ lock' = Released
    /\ UNCHANGED <<server, logout, together, expiries, faults>>

--------------------------------------------------------------------------------
Init ==
    /\ issued = 1 /\ expired = 0 /\ revoked = FALSE /\ broadcast = {}
    /\ rotated = FALSE
    /\ holder = 1
    /\ call = [c \in Calls |-> NoCall]
    /\ lock = None
    /\ refreshFailed = FALSE /\ logout = "no"
    /\ told = "active" /\ timers = <<>> /\ outrun = FALSE
    /\ together = FALSE /\ expiries = 0 /\ faults = 0

\* Continuations that wait for nothing more: they run before the next event.
Continue ==
    \/ RefreshSucceeds \/ RefreshFails
    \/ \E r \in Requests : Retry(r) \/ Abort(r)

Idle == call[Put].pc # "ended" /\ \A r \in Requests : call[r].pc \notin {"retry", "aborted"}

Attempts ==
    \E c \in Calls : \/ ServerAnswers(c) \/ AttemptFails(c) \/ RateLimited(c)
                     \/ HandleException(c) \/ StartIntercept(c) \/ HandleResponse(c) \/ ReadBody(c)

Progress == Continue \/ (Idle /\ Attempts)

Surroundings ==
    \/ Expire \/ Revoke \/ OtherEditorRefreshes \/ UserMessage
    \/ DebounceEnds \/ LogoutTold
    \/ \E r \in Requests : Start(r)

Next == Progress \/ (Idle /\ Surroundings)

Spec == Init /\ [][Next]_vars

\* Answers come, or the time for them is over, and the event loop goes on.
FairSpec == Spec /\ WF_vars(Progress)

--------------------------------------------------------------------------------
(* Properties. *)

\* The values the variables can have: no call is tried more often than fetchCore() allows,
\* whatever mixture of failures and refreshes makes it try again (fetchCore.ts).
TypeOK ==
    /\ {issued, holder} \subseteq Nat \ {0} /\ expired \in 0..issued
    /\ {revoked, rotated, refreshFailed, outrun, together} \subseteq BOOLEAN
    /\ broadcast \subseteq 1..issued
    /\ call \in [Calls -> [pc : {"idle", "sending", "answered", "reading", "lockWait", "refreshWait",
                                "loopWait", "retry", "aborted", "ended"},
                          token : 0..issued, refresh : 0..issued, using : 0..issued,
                          count : 0..MaxRetries, tried : BOOLEAN, looped : BOOLEAN,
                          resp : {"none", "ok", "expired", "refused", "error", "lost"}]]
    /\ lock \in Requests \cup {None}
    /\ logout \in {"no", "due", "told"} /\ told \in {"active", "expired"}
    /\ Len(timers) <= 2
    /\ expiries \in 0..MaxTroubles /\ faults \in 0..MaxFaults

\* Whoever waits for the lock or for a refresh waits for one that is under way, and the lock
\* is held only by a request that waits for a refresh.  This does not say that the refresh
\* comes to an end: see EveryRequestEnds (newRelicResponseInterceptor.ts, codestreamApi.ts).
WaitersAreServed ==
    /\ \A r \in Requests : call[r].pc \in {"lockWait", "refreshWait", "loopWait"} => Refreshing
    /\ \A r \in Requests : call[r].pc = "lockWait" => lock # None
    /\ lock # None => call[lock].pc = "refreshWait"

\* The refresh waits for itself, and with it all who wait for a refresh, then and later.
AwaitsItself == call[Put].pc = "loopWait"

\* A request that is made ends, whatever fails: those that wait for the lock or for a refresh
\* go on, and none is tried again without end.  But a server that refuses a refresh token,
\* revoked or replaced, as an expired one makes the refresh wait for itself for ever, and
\* then they do not end (codestreamApi.ts:2927, newRelicResponseInterceptor.ts, fetchCore.ts).
EveryRequestEnds ==
    <>[](\/ AwaitsItself /\ (revoked \/ rotated)
         \/ \A r \in Requests : call[r].pc \in {"idle", "ended"})

\* A request does not fail because a token has expired, however the requests share, queue
\* for and repeat the refresh: unless something else goes wrong, it takes two expiries (three
\* for a request that is refreshed by the interceptor and by the loop), or a server that does
\* not accept a replaced refresh token (newRelicResponseInterceptor.ts, codestreamApi.ts).
ExpiryIsHidden ==
    ~rotated /\ faults = 0 =>
        \A r \in Requests : call[r].pc = "ended" /\ call[r].resp # "ok"
                              => expiries > (IF r \in Intercepted THEN 2 ELSE 1)

\* When nothing is being debounced the client has been told the status the session has:
\* unless a recovery was told while a repeated "expired" still waited to be told, which it
\* then is, last; or the rate limiter logs out, which tells "expired" of a session that has
\* not (codestreamApi.ts, session.ts).
ClientKnows ==
    timers = <<>> /\ ~outrun /\ logout = "no" => (told = "expired") = refreshFailed

\* The request goes on after it waited for a refresh.
GoesOn(r) == /\ call[r].pc \in {"lockWait", "refreshWait", "loopWait"}
             /\ call'[r].pc \in {"retry", "sending"}

\* Whoever waited for a refresh that succeeds, in either of the three ways, goes on with a
\* newer token than the one that was refused.  If tokens expire again before the answer to
\* the refresh is there, a request may join it that was refused with the very token it
\* brings (newRelicResponseInterceptor.ts, codestreamApi.ts).
RetriedWithNewerToken ==
    [][call[Put].resp = "ok" /\ expiries <= 1
        => \A r \in Requests : GoesOn(r) => call'[r].token > call[r].token]_vars

\* Requests that are made one at a time never have the session declared expired by a single
\* expiry, though refresh tokens are kept in three places: it takes a second request, which
\* comes with the refresh token the first has replaced (codestreamApi.ts, TokenHolder.ts).
ExpiredOnlyByOverlap ==
    ~together /\ faults = 0 /\ expiries <= 1 => ~refreshFailed

================================================================================
