------------------------------ MODULE Broadcaster ------------------------------
(***************************************************************************)
(* The control state machine of the agent's real-time client, class        *)
(* Broadcaster of src/shared/agent/src/broadcaster/broadcaster.ts, over    *)
(* the PubNub transport (pubnubConnection.ts), whose callbacks all arrive  *)
(* asynchronously.                                                         *)
(*                                                                         *)
(* The class is a set of handlers run to completion by the JavaScript      *)
(* event loop.  What makes it hard is everything that outlives a handler:  *)
(* the 5 s status timer, the resubscribe timers, and the handlers          *)
(* suspended on confirmSubscriptions() or fetchHistory().  Several of each *)
(* can be outstanding at once, and every other handler may run before they *)
(* resume.                                                                 *)
(*                                                                         *)
(* A private method is an operator from the fields (a record `s') to the   *)
(* fields; an action is one callback: a guard and Become(method(State)).   *)
(* Message contents, dedup and partial messages are left to a module of    *)
(* their own; the test hooks (simulate..., testMode) are left out.         *)
(***************************************************************************)
EXTENDS Naturals, FiniteSets

CONSTANTS
    Channels,       \* the channels a client may ask for
    RetryLimit,     \* resubscribes without any success before giving up (10 in the code)
    HistoryLimit,   \* MAX_HISTORY_FETCHES_PER_MINUTE (10 in the code)
    MaxCallbacks    \* bound of the model: timers and awaits outstanding at once

ASSUME ConstantsAssumption ==
    /\ IsFiniteSet(Channels)
    /\ RetryLimit \in Nat
    /\ HistoryLimit \in Nat
    /\ MaxCallbacks \in Nat

VARIABLES
    subs,           \* _subscriptions: absent, or present with its `subscribed' flag
    queued,         \* _queuedChannels
    pending,        \* _subscriptionsPending
    statusTimer,    \* _statusTimeout: no handle, a running timer, or a handle whose timer was cleared
    failures,       \* _activeFailures
    needConnected,  \* _needConnectedMessage
    hadTrouble,     \* _hadTrouble
    numResub,       \* _numResubscribes, saturating at RetryLimit
    everSubscribed, \* _lastSuccessfulSubscription > 0
    aborted,        \* _aborted
    connLost,       \* _connectionLostAt: unset, less than 60 s ago, or longer ago
    recentFetches,  \* _historyFetches of the last minute
    callbacks,      \* how many of each timer or await are outstanding, with the channels it holds
    asked,          \* the channels the transport has been told to subscribe to
    emitted,        \* the statuses emitted to the client by the last step
    wasReset,       \* history: Reset was emitted
    careless,       \* history: the client unsubscribed, or disposed, while work was outstanding
    disposed        \* the Disposable returned by initialize() has been disposed

vars == <<subs, queued, pending, statusTimer, failures, needConnected, hadTrouble,
          numResub, everSubscribed, aborted, connLost, recentFetches, callbacks,
          asked, emitted, wasReset, careless, disposed>>

SubStates == {"absent", "unsubscribed", "subscribed"}
TimerStates == {"none", "armed", "stale"}
CallbackKinds == {"resubscribe", "confirm", "fetch"}
Statuses == {"Connected", "Reconnected", "Trouble", "Reset", "Aborted", "NonCriticalFailure"}

\* What an outstanding callback holds on to: its kind and its snapshot of channels.
Callbacks == CallbackKinds \X (SUBSET Channels)

Fields ==
    [subs : [Channels -> SubStates], queued : SUBSET Channels, pending : BOOLEAN,
     statusTimer : TimerStates, failures : SUBSET Channels, needConnected : BOOLEAN,
     hadTrouble : BOOLEAN, numResub : 0..RetryLimit, everSubscribed : BOOLEAN,
     aborted : BOOLEAN, connLost : {"none", "fresh", "stale"},
     recentFetches : 0..(HistoryLimit + 1), callbacks : [Callbacks -> Nat],
     asked : SUBSET Channels, emitted : SUBSET Statuses, wasReset : BOOLEAN,
     careless : BOOLEAN, disposed : BOOLEAN]

\* The fields at the start of a callback: nothing has been emitted yet.
State ==
    [subs |-> subs, queued |-> queued, pending |-> pending, statusTimer |-> statusTimer,
     failures |-> failures, needConnected |-> needConnected, hadTrouble |-> hadTrouble,
     numResub |-> numResub, everSubscribed |-> everSubscribed, aborted |-> aborted,
     connLost |-> connLost, recentFetches |-> recentFetches, callbacks |-> callbacks,
     asked |-> asked, emitted |-> {}, wasReset |-> wasReset, careless |-> careless,
     disposed |-> disposed]

--------------------------------------------------------------------------------
(* Reading the fields. *)

Known(s)        == {c \in Channels : s.subs[c] # "absent"}
Subscribed(s)   == {c \in Channels : s.subs[c] = "subscribed"}
Unsubscribed(s) == {c \in Channels : s.subs[c] = "unsubscribed"}

Outstanding(s) == {cb \in Callbacks : s.callbacks[cb] > 0}

\* Something is going to run that moves the state machine on.
Busy(s) == s.statusTimer = "armed" \/ Outstanding(s) # {}

--------------------------------------------------------------------------------
(* The private methods, callees first. *)

Mark(s, C, v) == [s EXCEPT !.subs = [c \in Channels |-> IF c \in C THEN v ELSE @[c]]]

Emit(s, status) == [s EXCEPT !.emitted = @ \cup {status}]

\* Start a timer or suspend on an await that holds the channels C.
Launch(s, kind, C) == [s EXCEPT !.callbacks[<<kind, C>>] = @ + 1]

Resumed(s, kind, C) == [s EXCEPT !.callbacks[<<kind, C>>] = @ - 1]

EmitConnected(s) ==
    [Emit(s, IF s.hadTrouble THEN "Reconnected" ELSE "Connected")
        EXCEPT !.needConnected = FALSE, !.hadTrouble = FALSE]

EmitTrouble(s) ==
    [Emit(s, "Trouble") EXCEPT !.needConnected = TRUE, !.hadTrouble = TRUE]

\* subscribed() when no channel is queued: the end of the cycle.
Settle(s) ==
    LET t == [s EXCEPT !.failures = {},
                       !.pending = FALSE,
                       !.everSubscribed = @ \/ Subscribed(s) # {},
                       !.numResub = IF Subscribed(s) # {} THEN 0 ELSE @]
    IN  IF t.needConnected THEN EmitConnected(t) ELSE t

\* MUTANT: the channels tried again stay in the list of active failures.
SubscribeAllKeepingFailures(s) ==
    IF Unsubscribed(s) = {}
    THEN Settle(s)
    ELSE [s EXCEPT !.asked = @ \cup Unsubscribed(s),
                   !.statusTimer = IF @ = "none" THEN "armed" ELSE @]

\* The branch without unsubscribed channels calls subscribed(), always with an
\* empty queue: drainQueue has just emptied it, and subscribe() only gets here
\* when nothing is pending (QueuedOnlyWhilePending).
SubscribeAll(s) ==
    IF Unsubscribed(s) = {}
    THEN Settle(s)
    ELSE [s EXCEPT !.failures = @ \ Unsubscribed(s),
                   !.asked = @ \cup Unsubscribed(s),
                   !.statusTimer = IF @ = "none" THEN "armed" ELSE @]

SubscribeToChannels(s, C) ==
    LET added == C \ Known(s)
        t == [Mark(s, added, "unsubscribed")
                EXCEPT !.needConnected = @ \/ added # {}, !.pending = TRUE]
    IN  SubscribeAll(t)

DrainQueue(s) == SubscribeToChannels([s EXCEPT !.queued = {}], s.queued)

\* MUTANT: the queue is left alone at the end of the cycle.
FullySubscribedUndrained(s) == Settle(s)

\* subscribed(): "we're finally subscribed to all channels requested".
FullySubscribed(s) == IF s.queued # {} THEN DrainQueue(s) ELSE Settle(s)

\* The handle is kept when its timer is cleared, so the timer is never armed again.
UnsubscribeAll(s) ==
    [Mark(s, Channels, "absent")
        EXCEPT !.asked = @ \ Subscribed(s),
               !.statusTimer = IF @ = "armed" THEN "stale" ELSE @]

Reset(s) == [Emit(UnsubscribeAll(s), "Reset") EXCEPT !.wasReset = TRUE]

\* resubscribe(): throws, after some of its effects, when a channel of C is no
\* longer known; `before' are the channels it had already gone through.
CanResubscribe(s, C) == C \subseteq Known(s)

\* MUTANT: the retries are not counted.
CountResubscribeNever(s) == s

CountResubscribe(s) == [s EXCEPT !.numResub = IF @ < RetryLimit THEN @ + 1 ELSE @]

Resubscribe(s, C) ==
    DrainQueue([Mark(CountResubscribe(s), C, "unsubscribed") EXCEPT !.pending = TRUE])

ResubscribeThrows(s, before) == Mark(CountResubscribe(s), before, "unsubscribed")

\* MUTANT: one fetch too many.
RateLimitedLate(s) == s.recentFetches > HistoryLimit + 1
RateLimited(s) == s.recentFetches > HistoryLimit

\* The rest of catchUp(), up to its await; tooLong: the messages of more than
\* 23 h 50 min are missing.
FetchHistory(s, tooLong) ==
    LET fetched == [s EXCEPT !.recentFetches = @ + 1]
    IN  IF RateLimited(s) THEN Reset(s)
        ELSE IF tooLong THEN Reset(fetched)
        ELSE Launch(fetched, "fetch", Subscribed(s))

CatchUp(s, tooLong) ==
    IF Subscribed(s) = {} THEN FullySubscribed(s)
    ELSE IF s.connLost = "fresh" THEN FullySubscribed([s EXCEPT !.connLost = "none"])
    ELSE FetchHistory(s, tooLong)

SetConnected(s, C, tooLong) ==
    LET t == Mark(s, C, "subscribed")
    IN  IF Unsubscribed(t) = {} THEN CatchUp([t EXCEPT !.statusTimer = "none"], tooLong)
        ELSE t

\* MUTANT: a return without subscribed().
ConfirmSubscriptionsReturning(s) ==
    IF Subscribed(s) = {} THEN s ELSE Launch(s, "confirm", Subscribed(s))

\* confirmSubscriptions() up to its await.
ConfirmSubscriptions(s) ==
    IF Subscribed(s) = {} THEN FullySubscribed(s) ELSE Launch(s, "confirm", Subscribed(s))

NetHiccup(s) ==
    IF s.failures # {} THEN [s EXCEPT !.pending = TRUE]
    ELSE ConfirmSubscriptions([s EXCEPT !.pending = TRUE])

Abort(s) == Emit(UnsubscribeAll([s EXCEPT !.aborted = TRUE]), "Aborted")

GivesUp(s) == Subscribed(s) = {} /\ ~s.everSubscribed /\ s.numResub >= RetryLimit

SubscriptionFailure(s, failed) ==
    LET C == failed \ s.failures
        t == EmitTrouble([s EXCEPT !.failures = @ \cup C])
    IN  IF C = {} THEN s
        ELSE IF GivesUp(t) THEN Abort(t)
        ELSE Launch(t, "resubscribe", C)

\* MUTANT: the handle of the timer that fired is kept, as unsubscribeAll() does.
SubscriptionTimeoutKeepingHandle(s) ==
    LET t == [s EXCEPT !.statusTimer = "stale"]
    IN  IF Unsubscribed(t) = {} THEN t ELSE SubscriptionFailure(t, Unsubscribed(t))

SubscriptionTimeout(s) ==
    LET t == [s EXCEPT !.statusTimer = "none"]
    IN  IF Unsubscribed(t) = {} THEN t ELSE SubscriptionFailure(t, Unsubscribed(t))

\* MUTANT: the transport is not told.
RemoveChannelsLocally(s, C) ==
    [Mark(s, C, "absent") EXCEPT !.careless = @ \/ s.pending \/ Busy(s)]

RemoveChannels(s, C) ==
    [Mark(s, C, "absent") EXCEPT !.asked = @ \ C,
                                 !.careless = @ \/ s.pending \/ Busy(s)]

--------------------------------------------------------------------------------
(* The callbacks. *)

\* The bound of the model, as a guard of every step.
WithinBound(s) ==
    \A cb \in Outstanding(s) :
        s.callbacks[cb] + Cardinality(Outstanding(s) \ {cb}) <= MaxCallbacks

Become(s) ==
    /\ WithinBound(s)
    /\ subs' = s.subs
    /\ queued' = s.queued
    /\ pending' = s.pending
    /\ statusTimer' = s.statusTimer
    /\ failures' = s.failures
    /\ needConnected' = s.needConnected
    /\ hadTrouble' = s.hadTrouble
    /\ numResub' = s.numResub
    /\ everSubscribed' = s.everSubscribed
    /\ aborted' = s.aborted
    /\ connLost' = s.connLost
    /\ recentFetches' = s.recentFetches
    /\ callbacks' = s.callbacks
    /\ asked' = s.asked
    /\ emitted' = s.emitted
    /\ wasReset' = s.wasReset
    /\ careless' = s.careless
    /\ disposed' = s.disposed

\* After initialize() and before the first subscribe().
Init ==
    /\ subs = [c \in Channels |-> "absent"]
    /\ queued = {}
    /\ pending = FALSE
    /\ statusTimer = "none"
    /\ failures = {}
    /\ needConnected = FALSE
    /\ hadTrouble = FALSE
    /\ numResub = 0
    /\ everSubscribed = FALSE
    /\ aborted = FALSE
    /\ connLost = "none"
    /\ recentFetches = 0
    /\ callbacks = [cb \in Callbacks |-> 0]
    /\ asked = {}
    /\ emitted = {}
    /\ wasReset = FALSE
    /\ careless = FALSE
    /\ disposed = FALSE

(* The client: BroadcasterEvents of api/codestream/events.ts, or a test. *)

ClientSubscribe(C) ==
    /\ ~disposed
    /\ \/ aborted /\ Become(Emit(State, "Aborted"))
       \/ ~aborted /\ pending /\ Become([State EXCEPT !.queued = @ \cup C])
       \/ ~aborted /\ ~pending /\ Become(SubscribeToChannels(State, C))

ClientUnsubscribe(C) ==
    /\ ~disposed
    /\ Become(RemoveChannels(State, C))

\* unsubscribeAll() and disconnect(), which removes the transport's listener.
ClientDispose ==
    /\ ~disposed
    /\ Become([UnsubscribeAll(State) EXCEPT !.disposed = TRUE])

(* The transport's status events.  Connected and access-denied events name  *)
(* channels the SDK is trying to serve, in any grouping.                    *)

OnConnected(C) ==
    /\ ~disposed
    /\ C \subseteq asked
    /\ \E tooLong \in BOOLEAN : Become(SetConnected(State, C, tooLong))

OnFailed(C) ==
    /\ ~disposed
    /\ C \subseteq asked
    /\ Become(SubscriptionFailure(State, C))

\* Access denied to "object-" channels: the transport drops them, and the client
\* answers the status, within the same callback, by unsubscribing from them.
OnNonCriticalFailure(C) ==
    /\ ~disposed
    /\ C \subseteq asked
    /\ Become(Emit(RemoveChannels(State, C), "NonCriticalFailure"))

\* A long tick, a NetworkProblem of the SDK, or a failed ping.  The ping interval
\* is never cleared, so this one still happens after dispose().
OnNetHiccup ==
    /\ ~pending
    /\ Become(NetHiccup(State))

(* Timers and resumed awaits. *)

StatusTimerFires ==
    /\ statusTimer = "armed"
    /\ Become(SubscriptionTimeout(State))

ResubscribeTimerFires(C) ==
    /\ callbacks[<<"resubscribe", C>>] > 0
    /\ LET s == Resumed(State, "resubscribe", C) IN
       \/ CanResubscribe(s, C) /\ Become(Resubscribe(s, C))
       \/ /\ ~CanResubscribe(s, C)
          /\ \E before \in SUBSET (C \cap Known(s)) : Become(ResubscribeThrows(s, before))

\* confirmSubscriptions() resumes: PubNub doubts every channel, SocketCluster some.
ConfirmAnswers(C, trouble) ==
    /\ callbacks[<<"confirm", C>>] > 0
    /\ LET s == Resumed(State, "confirm", C)
           lost == [s EXCEPT !.connLost = "fresh"]
       IN
       \/ /\ trouble = {}
          /\ \E tooLong \in BOOLEAN : Become(CatchUp(s, tooLong))
       \/ trouble # {} /\ CanResubscribe(s, trouble) /\ Become(Resubscribe(lost, trouble))
       \/ /\ trouble # {} /\ ~CanResubscribe(s, trouble)
          /\ \E before \in SUBSET (trouble \cap Known(s)) :
                Become(ResubscribeThrows(lost, before))

\* catchUp() resumes with the messages of the history, if any.
FetchSucceeds(C) ==
    /\ callbacks[<<"fetch", C>>] > 0
    /\ Become(FullySubscribed(Resumed(State, "fetch", C)))

\* ... with too much of it.
FetchOverflows(C) ==
    /\ callbacks[<<"fetch", C>>] > 0
    /\ Become(Reset(Resumed(State, "fetch", C)))

\* ... or with an error: start over with all the channels of the snapshot.
FetchFails(C) ==
    /\ callbacks[<<"fetch", C>>] > 0
    /\ LET s == EmitTrouble(Resumed(State, "fetch", C)) IN
       \/ CanResubscribe(s, C) /\ Become(Resubscribe(s, C))
       \/ /\ ~CanResubscribe(s, C)
          /\ \E before \in SUBSET (C \cap Known(s)) : Become(ResubscribeThrows(s, before))

(* Time. *)

LostConnectionAges ==
    /\ connLost = "fresh"
    /\ Become([State EXCEPT !.connLost = "stale"])

HistoryWindowSlides ==
    /\ recentFetches > 0
    /\ Become([State EXCEPT !.recentFetches = @ - 1])

SomeResubscribe == \E C \in SUBSET Channels : ResubscribeTimerFires(C)

SomeConfirm == \E C \in SUBSET Channels : \E trouble \in SUBSET C : ConfirmAnswers(C, trouble)

SomeFetch == \E C \in SUBSET Channels : FetchSucceeds(C) \/ FetchOverflows(C) \/ FetchFails(C)

Next ==
    \/ \E C \in (SUBSET Channels) \ {{}} :
        \/ ClientSubscribe(C)
        \/ ClientUnsubscribe(C)
        \/ OnConnected(C)
        \/ OnFailed(C)
        \/ OnNonCriticalFailure(C)
    \/ ClientDispose
    \/ OnNetHiccup
    \/ StatusTimerFires
    \/ SomeResubscribe
    \/ SomeConfirm
    \/ SomeFetch
    \/ LostConnectionAges
    \/ HistoryWindowSlides

Spec == Init /\ [][Next]_vars

--------------------------------------------------------------------------------
(* Properties. *)

\* Every variable has its type; the counters stay within their saturation points.
TypeOK ==
    /\ State \in Fields
    /\ emitted \subseteq Statuses

\* None of the things after which the code is known to lose its way has happened:
\* a Reset, giving up, dispose(), or an unsubscribe() in the middle of work.
Undisturbed == ~wasReset /\ ~aborted /\ ~disposed /\ ~careless

Retried(c) == \E C \in SUBSET Channels : c \in C /\ callbacks[<<"resubscribe", C>>] > 0

\* Channels wait in the queue only while a subscription cycle is under way: the
\* cycle that ends always takes them along (subscribed(), drainQueue()).
QueuedOnlyWhilePending == queued # {} => pending

\* A channel the client asked for and that is not subscribed is never forgotten:
\* the status timer is running, or a resubscribe timer holds that channel.  The
\* timer is disarmed only on seeing every channel subscribed, and active failures
\* are skipped only because their own retry is on its way.
NoForgottenChannel ==
    Undisturbed =>
        \A c \in Channels : subs[c] = "unsubscribed" => statusTimer = "armed" \/ Retried(c)

\* While subscriptions are pending (new ones are only queued) or a Connected
\* status is owed to the client, a timer or an await is outstanding that carries
\* on: nobody waits for an event that nothing will cause.
PendingIsDriven == Undisturbed /\ (pending \/ needConnected) => Busy(State)

\* Every channel in _activeFailures, whose further failures are ignored, is held
\* by a resubscribe timer.
FailuresAreRetried == Undisturbed => \A c \in failures : Retried(c)

\* A timer or an await holds a snapshot of channels, and resubscribe() reads the
\* map at each of them: they are all still there when it resumes.
SnapshotsAreKnown ==
    Undisturbed => \A cb \in Outstanding(State) : cb[2] # {} /\ cb[2] \subseteq Known(State)

\* The enum: Connected "indicates all channels have been successfully subscribed
\* to as requested" (broadcaster.ts:93).
ConnectedMeansSubscribed ==
    emitted \cap {"Connected", "Reconnected"} # {} => Unsubscribed(State) = {}

\* subscribe(): "in the meantime, queue them up ... we'll drain the queue when
\* we've successfully subscribed to the current channels" (broadcaster.ts:227).
QueueIsServed == queued # {} /\ ~wasReset /\ ~aborted /\ ~disposed => Busy(State)

--------------------------------------------------------------------------------
(* Liveness, up to the first disturbance. *)

\* The fairness of the event loop: when timers are due one of them fires, and the
\* promises the transport has returned are settled, one way or another.
FairSpec ==
    /\ Init /\ [][Undisturbed /\ Next]_vars
    /\ WF_vars(Undisturbed /\ StatusTimerFires)
    /\ WF_vars(Undisturbed /\ SomeResubscribe)
    /\ WF_vars(Undisturbed /\ SomeConfirm)
    /\ WF_vars(Undisturbed /\ SomeFetch)

\* All that is missing gets connected at once.
AllConnected ==
    /\ Undisturbed
    /\ Unsubscribed(State) # {}
    /\ OnConnected(Unsubscribed(State))

\* Requests and failures stop, and the transport connects what is missing if it is given the
\* chance again and again: an assumption about the world, not about the code.
NetworkRecovers ==
    /\ <>[][~ \E C \in SUBSET Channels :
                ClientSubscribe(C) \/ OnFailed(C) \/ FetchFails(C)]_vars
    /\ SF_vars(AllConnected)

\* Once the network has recovered, every cycle of subscriptions comes to an end,
\* with nothing pending and the client told Connected if that was owed.
EveryCycleSettles ==
    NetworkRecovers =>
        (pending \/ needConnected)
            ~> (~pending /\ ~needConnected) \/ ~Undisturbed

\* "the only way to abort an infinite loop if the broadcaster token was just plain
\* wrong" (broadcaster.ts:736): if no channel is ever subscribed, a client that
\* waits for its channels is told Aborted.
BadTokenAborts ==
    [](Subscribed(State) = {}) =>
        (Unsubscribed(State) # {} ~> aborted \/ disposed \/ careless \/ wasReset)

================================================================================
