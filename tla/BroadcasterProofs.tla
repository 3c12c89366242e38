--------------------------- MODULE BroadcasterProofs ---------------------------
(***************************************************************************)
(* Proofs about Broadcaster, for every set of channels and every limit.    *)
(*                                                                         *)
(* The properties are about the state between two handlers, but a handler  *)
(* is a chain of calls: subscribed() calls drainQueue() calls              *)
(* subscribeToChannels() calls subscribeAll() ...  So the inductive        *)
(* invariant Good is a predicate on the fields, with two weaker forms, Mid *)
(* and Core, for the points inside a handler where a call is made, and     *)
(* each method has a lemma: from its precondition to Good.                 *)
(***************************************************************************)
EXTENDS Broadcaster, TLAPS

Peaceful(s) == ~s.wasReset /\ ~s.aborted /\ ~s.disposed /\ ~s.careless

\* Some resubscribe timer holds c.
Held(s, c) == \E C \in SUBSET Channels : c \in C /\ s.callbacks[<<"resubscribe", C>>] > 0

\* What every call inside a handler keeps.
Tidy(s) ==
    /\ \A kind \in CallbackKinds, C \in SUBSET Channels :
        s.callbacks[<<kind, C>>] > 0 => C # {} /\ C \subseteq Known(s)
    /\ s.asked \subseteq Known(s)
    /\ s.statusTimer # "stale"
    /\ s.statusTimer = "armed" => Unsubscribed(s) # {}

\* The fields are the same as far as the subscriptions are concerned.
Agree(t, s) ==
    /\ t.subs = s.subs /\ t.asked = s.asked /\ t.failures = s.failures
    /\ t.statusTimer = s.statusTimer /\ t.callbacks = s.callbacks
    /\ t.wasReset = s.wasReset /\ t.aborted = s.aborted
    /\ t.disposed = s.disposed /\ t.careless = s.careless

USE DEF Agree

\* Enough to subscribe again: a failing channel is about to be tried.
Mid(s) ==
    /\ s \in Fields
    /\ Peaceful(s) =>
        /\ Tidy(s)
        /\ \A c \in s.failures : s.subs[c] = "unsubscribed" \/ Held(s, c)

\* Enough to end the cycle: no channel is forgotten.
Core(s) ==
    /\ s \in Fields
    /\ s.queued # {} => s.pending
    /\ Peaceful(s) =>
        /\ Tidy(s)
        /\ \A c \in s.failures : Held(s, c)
        /\ \A c \in Unsubscribed(s) : s.statusTimer = "armed" \/ Held(s, c)

Driven(s) == Peaceful(s) /\ (s.pending \/ s.needConnected) => Busy(s)

\* Between two handlers.
Good(s) == Core(s) /\ Driven(s)

IInv == Good(State) /\ emitted \subseteq Statuses

--------------------------------------------------------------------------------
(* What the small methods do to the type. *)

\* Writing the `subscribed' flags of some channels keeps the type of the fields.
LEMMA MarkType ==
    ASSUME NEW s \in Fields, NEW C, NEW v \in SubStates
    PROVE  Mark(s, C, v) \in Fields
BY DEF Mark, Fields

\* Emitting a status keeps the type of the fields.
LEMMA EmitType ==
    ASSUME NEW s \in Fields, NEW status \in Statuses
    PROVE  Emit(s, status) \in Fields
BY DEF Emit, Fields

\* Starting a timer or an await keeps the type of the fields.
LEMMA LaunchType ==
    ASSUME NEW s \in Fields, NEW kind \in CallbackKinds, NEW C \in SUBSET Channels
    PROVE  Launch(s, kind, C) \in Fields
<1>1. <<kind, C>> \in Callbacks
  BY DEF Callbacks
<1> DEFINE f == [s.callbacks EXCEPT ![<<kind, C>>] = @ + 1]
<1>2. f \in [Callbacks -> Nat]
  BY <1>1 DEF Fields
<1>3. Launch(s, kind, C) = [s EXCEPT !.callbacks = f]
  BY DEF Launch
<1>4. [s EXCEPT !.callbacks = f] \in Fields
  <2> HIDE DEF f
  <2> QED BY <1>2 DEF Fields
<1> QED BY <1>3, <1>4

\* A timer or an await that was outstanding stops being so; the count stays natural.
LEMMA ResumedType ==
    ASSUME NEW s \in Fields, NEW kind \in CallbackKinds, NEW C \in SUBSET Channels,
           s.callbacks[<<kind, C>>] > 0
    PROVE  Resumed(s, kind, C) \in Fields
<1>1. <<kind, C>> \in Callbacks
  BY DEF Callbacks
<1> DEFINE f == [s.callbacks EXCEPT ![<<kind, C>>] = @ - 1]
<1>2. f \in [Callbacks -> Nat]
  BY <1>1 DEF Fields
<1>3. Resumed(s, kind, C) = [s EXCEPT !.callbacks = f]
  BY DEF Resumed
<1>4. [s EXCEPT !.callbacks = f] \in Fields
  <2> HIDE DEF f
  <2> QED BY <1>2 DEF Fields
<1> QED BY <1>3, <1>4

\* The count of resubscribes stays within its saturation point.
LEMMA CountResubscribeType ==
    ASSUME NEW s \in Fields
    PROVE  CountResubscribe(s) \in Fields
<1> DEFINE n == IF s.numResub < RetryLimit THEN s.numResub + 1 ELSE s.numResub
<1>1. n \in 0..RetryLimit
  BY ConstantsAssumption DEF Fields
<1>2. CountResubscribe(s) = [s EXCEPT !.numResub = n]
  BY DEF CountResubscribe
<1>3. [s EXCEPT !.numResub = n] \in Fields
  <2> HIDE DEF n
  <2> QED BY <1>1 DEF Fields
<1> QED BY <1>2, <1>3

\* emitTrouble() keeps the type of the fields.
LEMMA EmitTroubleType ==
    ASSUME NEW s \in Fields
    PROVE  EmitTrouble(s) \in Fields
BY DEF EmitTrouble, Emit, Fields, Statuses

\* unsubscribeAll() keeps the type of the fields.
LEMMA UnsubscribeAllType ==
    ASSUME NEW s \in Fields
    PROVE  UnsubscribeAll(s) \in Fields
<1> DEFINE timer == IF s.statusTimer = "armed" THEN "stale" ELSE s.statusTimer
           f == [c \in Channels |-> IF c \in Channels THEN "absent" ELSE s.subs[c]]
           a == s.asked \ Subscribed(s)
<1>1. timer \in TimerStates /\ f \in [Channels -> SubStates] /\ a \in SUBSET Channels
  BY DEF Fields, TimerStates, SubStates
<1>2. UnsubscribeAll(s) = [[s EXCEPT !.subs = f] EXCEPT !.asked = a, !.statusTimer = timer]
  BY DEF UnsubscribeAll, Mark, Fields
<1>3. [[s EXCEPT !.subs = f] EXCEPT !.asked = a, !.statusTimer = timer] \in Fields
  <2> HIDE DEF f, a, timer
  <2> QED BY <1>1 DEF Fields
<1> QED BY <1>2, <1>3

\* reset() keeps the type, leaves the queue and `pending' alone, and is remembered.
LEMMA ResetType ==
    ASSUME NEW s \in Fields
    PROVE  Reset(s) \in Fields /\ Reset(s).wasReset /\ Reset(s).queued = s.queued
                               /\ Reset(s).pending = s.pending
<1> DEFINE t == UnsubscribeAll(s)
<1>1. t \in Fields
  BY UnsubscribeAllType
<1>2. t.queued = s.queued /\ t.pending = s.pending
  BY DEF UnsubscribeAll, Mark, Fields
<1>3. Reset(s) = [Emit(t, "Reset") EXCEPT !.wasReset = TRUE]
  BY DEF Reset
<1>4. [Emit(t, "Reset") EXCEPT !.wasReset = TRUE] \in Fields
  <2> HIDE DEF t
  <2> QED BY <1>1 DEF Emit, Fields, Statuses
<1> HIDE DEF t
<1> QED BY <1>1, <1>2, <1>3, <1>4 DEF Emit, Fields

\* Giving up keeps the type, leaves the queue and `pending' alone, and is remembered.
LEMMA AbortType ==
    ASSUME NEW s \in Fields
    PROVE  Abort(s) \in Fields /\ Abort(s).aborted /\ Abort(s).queued = s.queued
                               /\ Abort(s).pending = s.pending
<1> DEFINE r == [s EXCEPT !.aborted = TRUE]
           t == UnsubscribeAll(r)
<1>1. r \in Fields /\ r.aborted /\ r.queued = s.queued /\ r.pending = s.pending
  BY DEF Fields
<1> HIDE DEF r
<1>2. t \in Fields
  BY <1>1, UnsubscribeAllType
<1>3. t.queued = r.queued /\ t.pending = r.pending /\ t.aborted = r.aborted
  BY <1>1 DEF UnsubscribeAll, Mark, Fields
<1>4. Abort(s) = Emit(t, "Aborted")
  BY DEF Abort, r
<1> HIDE DEF t
<1>5. Emit(t, "Aborted") \in Fields
  BY <1>2, EmitType DEF Statuses
<1> QED BY <1>1, <1>2, <1>3, <1>4, <1>5 DEF Emit, Fields

--------------------------------------------------------------------------------
(* The methods that end or restart a cycle. *)

\* After a Reset, giving up or dispose() the invariant asks for little.
LEMMA DisturbedIsGood ==
    ASSUME NEW s \in Fields, s.queued # {} => s.pending, ~Peaceful(s)
    PROVE  Good(s)
BY DEF Good, Core, Driven

\* subscribed() with an empty queue: nothing is pending, nothing is owed.
LEMMA SettleGood ==
    ASSUME NEW s, Mid(s), s.queued = {},
           Peaceful(s) => \A c \in Unsubscribed(s) : s.statusTimer = "armed" \/ Held(s, c)
    PROVE  Good(Settle(s))
<1> DEFINE e == s.everSubscribed \/ Subscribed(s) # {}
           n == IF Subscribed(s) # {} THEN 0 ELSE s.numResub
           t == [s EXCEPT !.failures = {}, !.pending = FALSE, !.everSubscribed = e, !.numResub = n]
<1>1. s \in Fields
  BY DEF Mid
<1>2. e \in BOOLEAN
  OBVIOUS
<1>3. n \in 0..RetryLimit
  BY <1>1, ConstantsAssumption DEF Fields
<1> HIDE DEF e, n
<1>4. t \in Fields
  BY <1>1, <1>2, <1>3 DEF Fields
<1>5. EmitConnected(t) \in Fields
  <2> HIDE DEF t
  <2> QED BY <1>4 DEF Fields, EmitConnected, Emit, Statuses
<1>6. Settle(s) = IF t.needConnected THEN EmitConnected(t) ELSE t
  BY DEF Settle, e, n
<1> DEFINE u == Settle(s)
<1>7. /\ u \in Fields
      /\ u.subs = s.subs /\ u.callbacks = s.callbacks /\ u.asked = s.asked
      /\ u.statusTimer = s.statusTimer /\ u.queued = s.queued
      /\ u.wasReset = s.wasReset /\ u.aborted = s.aborted
      /\ u.disposed = s.disposed /\ u.careless = s.careless
      /\ u.failures = {} /\ ~u.pending /\ ~u.needConnected
  BY <1>1, <1>4, <1>5, <1>6 DEF Fields, EmitConnected, Emit
<1> HIDE DEF u
<1>8. Peaceful(u) => Peaceful(s)
  BY <1>7 DEF Peaceful
<1>9. Peaceful(u) => Tidy(u) /\ \A c \in Unsubscribed(u) : u.statusTimer = "armed" \/ Held(u, c)
  BY <1>7, <1>8 DEF Mid, Tidy, Known, Unsubscribed, Held
<1> QED BY <1>7, <1>9 DEF Good, Core, Driven, u

\* subscribeAll() with unsubscribed channels leaves the status timer running.
LEMMA SubscribeAllGood ==
    ASSUME NEW s, Mid(s), s.queued = {}, s.pending
    PROVE  Good(SubscribeAll(s))
<1> DEFINE u == [s EXCEPT !.failures = @ \ Unsubscribed(s),
                          !.asked = @ \cup Unsubscribed(s),
                          !.statusTimer = IF @ = "none" THEN "armed" ELSE @]
<1>1. s \in Fields
  BY DEF Mid
<1>2. CASE Unsubscribed(s) = {}
  BY <1>2, SettleGood DEF SubscribeAll
<1>3. CASE Unsubscribed(s) # {}
  <2>1. u \in Fields
    BY <1>1 DEF Fields, Unsubscribed, TimerStates
  <2>2. /\ u.subs = s.subs /\ u.callbacks = s.callbacks /\ u.queued = s.queued
        /\ u.asked = s.asked \cup Unsubscribed(s)
        /\ u.failures = s.failures \ Unsubscribed(s)
        /\ u.statusTimer = IF s.statusTimer = "none" THEN "armed" ELSE s.statusTimer
        /\ u.wasReset = s.wasReset /\ u.aborted = s.aborted
        /\ u.disposed = s.disposed /\ u.careless = s.careless
        /\ u.pending = s.pending
    BY <1>1 DEF Fields
  <2>3. SubscribeAll(s) = u
    BY <1>3 DEF SubscribeAll
  <2> HIDE DEF u
  <2>4. SUFFICES ASSUME Peaceful(u)
                 PROVE  /\ Tidy(u) /\ u.statusTimer = "armed"
                        /\ \A c \in u.failures : Held(u, c)
    BY <2>1, <2>2, <2>3, <2>4 DEF Good, Core, Driven, Busy
  <2>5. Tidy(s) /\ \A c \in s.failures : s.subs[c] = "unsubscribed" \/ Held(s, c)
    BY <2>2, <2>4 DEF Mid, Peaceful
  <2>6. u.statusTimer = "armed"
    BY <2>2, <2>5, <1>1 DEF Tidy, Fields, TimerStates
  <2>7. Known(u) = Known(s) /\ Unsubscribed(u) = Unsubscribed(s) /\ Unsubscribed(s) \subseteq Known(s)
    BY <2>2 DEF Known, Unsubscribed
  <2>8. Tidy(u)
    BY <2>2, <2>5, <2>6, <2>7, <1>3 DEF Tidy
  <2>9. \A c \in u.failures : Held(u, c)
    BY <2>2, <2>5, <1>1 DEF Held, Unsubscribed, Fields
  <2> QED BY <2>6, <2>8, <2>9
<1> QED BY <1>2, <1>3

\* subscribeToChannels() ends in a good state: channels it adds are then tried, and
\* a Connected owed for them is paid by the timer or the answer.
LEMMA SubscribeToChannelsGood ==
    ASSUME NEW s, Mid(s), s.queued = {}, NEW C \in SUBSET Channels
    PROVE  Good(SubscribeToChannels(s, C))
<1> DEFINE added == C \ Known(s)
           m == Mark(s, added, "unsubscribed")
           t == [m EXCEPT !.needConnected = @ \/ added # {}, !.pending = TRUE]
<1>1. s \in Fields
  BY DEF Mid
<1>2. m \in Fields
  BY <1>1, MarkType DEF SubStates
<1>3. /\ m.callbacks = s.callbacks /\ m.queued = s.queued /\ m.asked = s.asked
      /\ m.failures = s.failures /\ m.statusTimer = s.statusTimer
      /\ m.wasReset = s.wasReset /\ m.aborted = s.aborted
      /\ m.disposed = s.disposed /\ m.careless = s.careless
      /\ m.subs = [c \in Channels |-> IF c \in added THEN "unsubscribed" ELSE s.subs[c]]
  BY <1>1 DEF Mark, Fields
<1> HIDE DEF m
<1> DEFINE need == m.needConnected \/ added # {}
<1>4. need \in BOOLEAN
  OBVIOUS
<1>5. t = [m EXCEPT !.needConnected = need, !.pending = TRUE]
  OBVIOUS
<1> HIDE DEF need, t
<1>6. Agree(t, m) /\ t \in Fields /\ t.pending /\ t.queued = m.queued
  BY <1>2, <1>4, <1>5 DEF Fields
<1>7. ASSUME Peaceful(t)
      PROVE  /\ Tidy(t)
             /\ \A c \in t.failures : t.subs[c] = "unsubscribed" \/ Held(t, c)
  <2>1. Tidy(s) /\ \A c \in s.failures : s.subs[c] = "unsubscribed" \/ Held(s, c)
    BY <1>3, <1>6, <1>7 DEF Mid, Peaceful
  <2>2. Known(s) \subseteq Known(t) /\ Unsubscribed(s) \subseteq Unsubscribed(t)
    BY <1>3, <1>6 DEF Known, Unsubscribed
  <2>3. Tidy(t)
    BY <1>3, <1>6, <2>1, <2>2 DEF Tidy
  <2>4. \A c \in t.failures : t.subs[c] = "unsubscribed" \/ Held(t, c)
    BY <1>1, <1>3, <1>6, <2>1 DEF Held, Fields
  <2> QED BY <2>3, <2>4
<1>8. Mid(t)
  BY <1>6, <1>7 DEF Mid
<1>9. SubscribeToChannels(s, C) = SubscribeAll(t)
  BY DEF SubscribeToChannels, t, m
<1> QED BY <1>3, <1>6, <1>8, <1>9, SubscribeAllGood

\* drainQueue() needs no more than Mid: what it takes off the queue it subscribes to.
LEMMA DrainQueueGood ==
    ASSUME NEW s, Mid(s)
    PROVE  Good(DrainQueue(s))
<1> DEFINE t == [s EXCEPT !.queued = {}]
<1>1. s \in Fields /\ s.queued \in SUBSET Channels
  BY DEF Mid, Fields
<1>2. Agree(t, s) /\ t \in Fields /\ t.queued = {}
  BY <1>1 DEF Fields
<1>3. DrainQueue(s) = SubscribeToChannels(t, s.queued)
  BY DEF DrainQueue
<1> HIDE DEF t
<1>4. Mid(t)
  BY <1>2 DEF Mid, Peaceful, Tidy, Known, Unsubscribed, Held
<1> QED BY <1>1, <1>2, <1>3, <1>4, SubscribeToChannelsGood

\* The contract for ending a cycle is stronger than the one for restarting it.
LEMMA CoreIsMid ==
    ASSUME NEW s, Core(s)
    PROVE  Mid(s)
BY DEF Core, Mid

\* subscribed() ends in a good state, whether or not channels were queued meanwhile.
LEMMA FullySubscribedGood ==
    ASSUME NEW s, Core(s)
    PROVE  Good(FullySubscribed(s))
<1>1. Mid(s)
  BY CoreIsMid
<1>2. CASE s.queued # {}
  BY <1>1, <1>2, DrainQueueGood DEF FullySubscribed
<1>3. CASE s.queued = {}
  BY <1>1, <1>3, SettleGood DEF FullySubscribed, Core
<1> QED BY <1>2, <1>3

--------------------------------------------------------------------------------
(* The methods that start a timer or an await, and their callers. *)

\* A timer or an await that holds channels still in the map carries the machine on.
LEMMA LaunchGood ==
    ASSUME NEW s, Core(s), NEW kind \in CallbackKinds, NEW C \in SUBSET Channels,
           Peaceful(s) => C # {} /\ C \subseteq Known(s)
    PROVE  Good(Launch(s, kind, C))
<1> DEFINE u == Launch(s, kind, C)
<1>1. s \in Fields /\ u \in Fields
  BY LaunchType DEF Core
<1>2. <<kind, C>> \in Callbacks
  BY DEF Callbacks
<1>3. /\ u.subs = s.subs /\ u.asked = s.asked /\ u.queued = s.queued
      /\ u.failures = s.failures /\ u.statusTimer = s.statusTimer
      /\ u.wasReset = s.wasReset /\ u.aborted = s.aborted
      /\ u.disposed = s.disposed /\ u.careless = s.careless /\ u.pending = s.pending
      /\ u.callbacks = [s.callbacks EXCEPT ![<<kind, C>>] = @ + 1]
  BY <1>1 DEF Launch, Fields
<1>4. s.callbacks \in [Callbacks -> Nat]
  BY <1>1 DEF Fields
<1> HIDE DEF u
<1>5. \A k \in CallbackKinds, D \in SUBSET Channels :
          /\ <<k, D>> \in Callbacks
          /\ u.callbacks[<<k, D>>] =
                IF <<k, D>> = <<kind, C>> THEN s.callbacks[<<kind, C>>] + 1
                ELSE s.callbacks[<<k, D>>]
  BY <1>2, <1>3, <1>4 DEF Callbacks
<1>6. \A c : Held(s, c) => Held(u, c)
  BY <1>4, <1>5 DEF Held, CallbackKinds
<1>7. Outstanding(u) # {}
  BY <1>2, <1>4, <1>5 DEF Outstanding
<1>8. ASSUME Peaceful(u) PROVE Tidy(u) /\ Peaceful(s)
  <2>1. Peaceful(s) /\ Tidy(s) /\ Known(u) = Known(s) /\ Unsubscribed(u) = Unsubscribed(s)
    BY <1>3, <1>8 DEF Peaceful, Core, Known, Unsubscribed
  <2>2. ASSUME NEW k \in CallbackKinds, NEW D \in SUBSET Channels,
               u.callbacks[<<k, D>>] > 0
        PROVE  D # {} /\ D \subseteq Known(u)
    <3>1. CASE <<k, D>> = <<kind, C>>
      BY <2>1, <3>1
    <3>2. CASE <<k, D>> # <<kind, C>>
      BY <1>5, <2>1, <2>2, <3>2 DEF Tidy
    <3> QED BY <3>1, <3>2
  <2> QED BY <1>3, <2>1, <2>2 DEF Tidy
<1> QED BY <1>1, <1>3, <1>6, <1>7, <1>8 DEF Good, Core, Driven, Busy, Unsubscribed, u

\* The rate limit, the age limit and the fetch itself all end in a good state.
LEMMA FetchHistoryGood ==
    ASSUME NEW s, Core(s), Subscribed(s) # {}, NEW tooLong \in BOOLEAN
    PROVE  Good(FetchHistory(s, tooLong))
<1> DEFINE f == [s EXCEPT !.recentFetches = @ + 1]
<1>1. s \in Fields /\ (s.queued # {} => s.pending)
  BY DEF Core
<1>2. CASE RateLimited(s)
  BY <1>1, <1>2, ResetType, DisturbedIsGood DEF FetchHistory, Peaceful
<1>3. CASE ~RateLimited(s)
  <2>1. s.recentFetches + 1 \in 0..(HistoryLimit + 1)
    BY <1>1, <1>3, ConstantsAssumption DEF RateLimited, Fields
  <2>2. f \in Fields
    BY <1>1, <2>1 DEF Fields
  <2>3. Agree(f, s) /\ f.queued = s.queued /\ f.pending = s.pending
    BY <1>1 DEF Fields
  <2>4. FetchHistory(s, tooLong) =
            IF tooLong THEN Reset(f) ELSE Launch(f, "fetch", Subscribed(s))
    BY <1>3 DEF FetchHistory
  <2> HIDE DEF f
  <2>5. Core(f)
    BY <1>1, <2>2, <2>3 DEF Core, Peaceful, Tidy, Known, Unsubscribed, Held
  <2>6. CASE tooLong
    BY <1>1, <2>2, <2>3, <2>4, <2>6, ResetType, DisturbedIsGood DEF Peaceful
  <2>7. CASE ~tooLong
    <3>1. Subscribed(s) \in SUBSET Channels /\ Subscribed(s) \subseteq Known(f)
      BY <2>3 DEF Subscribed, Known
    <3> QED BY <2>4, <2>5, <2>7, <3>1, LaunchGood DEF CallbackKinds
  <2> QED BY <2>6, <2>7
<1> QED BY <1>2, <1>3

\* catchUp(), up to its await, ends in a good state.
LEMMA CatchUpGood ==
    ASSUME NEW s, Core(s), NEW tooLong \in BOOLEAN
    PROVE  Good(CatchUp(s, tooLong))
<1>1. CASE Subscribed(s) = {}
  BY <1>1, FullySubscribedGood DEF CatchUp
<1>2. CASE Subscribed(s) # {} /\ s.connLost = "fresh"
  <2> DEFINE t == [s EXCEPT !.connLost = "none"]
  <2>1. t \in Fields
    BY DEF Core, Fields
  <2>2. Agree(t, s) /\ t.queued = s.queued /\ t.pending = s.pending
    BY DEF Core, Fields
  <2>3. CatchUp(s, tooLong) = FullySubscribed(t)
    BY <1>2 DEF CatchUp
  <2> HIDE DEF t
  <2>4. Core(t)
    BY <2>1, <2>2 DEF Core, Peaceful, Tidy, Known, Unsubscribed, Held
  <2> QED BY <2>3, <2>4, FullySubscribedGood
<1>3. CASE Subscribed(s) # {} /\ s.connLost # "fresh"
  BY <1>3, FetchHistoryGood DEF CatchUp
<1> QED BY <1>1, <1>2, <1>3

\* setConnected() ends in a good state, whichever channels the transport names: the
\* status timer is disarmed only when every channel is subscribed.
LEMMA SetConnectedGood ==
    ASSUME NEW s, Good(s), NEW C, C \subseteq s.asked, NEW tooLong \in BOOLEAN
    PROVE  Good(SetConnected(s, C, tooLong))
<1> DEFINE t == Mark(s, C, "subscribed")
           u == [t EXCEPT !.statusTimer = "none"]
<1>1. s \in Fields /\ t \in Fields
  BY MarkType DEF Good, Core, SubStates
<1>2. /\ t.callbacks = s.callbacks /\ t.queued = s.queued /\ t.asked = s.asked
      /\ t.failures = s.failures /\ t.statusTimer = s.statusTimer
      /\ t.wasReset = s.wasReset /\ t.aborted = s.aborted
      /\ t.disposed = s.disposed /\ t.careless = s.careless
      /\ t.pending = s.pending /\ t.needConnected = s.needConnected
      /\ t.subs = [c \in Channels |-> IF c \in C THEN "subscribed" ELSE s.subs[c]]
  BY <1>1 DEF Mark, Fields
<1>3. SetConnected(s, C, tooLong) = IF Unsubscribed(t) = {} THEN CatchUp(u, tooLong) ELSE t
  BY DEF SetConnected
<1> HIDE DEF t
<1>4. /\ u \in Fields /\ u.statusTimer = "none" /\ u.subs = t.subs
      /\ u.callbacks = t.callbacks /\ u.queued = t.queued /\ u.asked = t.asked
      /\ u.failures = t.failures /\ u.pending = t.pending
      /\ u.wasReset = t.wasReset /\ u.aborted = t.aborted
      /\ u.disposed = t.disposed /\ u.careless = t.careless
  BY <1>1 DEF Fields, TimerStates
<1> HIDE DEF u
<1>5. Peaceful(t) \/ Peaceful(u) => Peaceful(s)
  BY <1>2, <1>4 DEF Peaceful
<1>6. Known(s) \subseteq Known(t) /\ Unsubscribed(t) \subseteq Unsubscribed(s)
  BY <1>2 DEF Known, Unsubscribed
<1>7. Known(u) = Known(t) /\ Unsubscribed(u) = Unsubscribed(t)
  BY <1>4 DEF Known, Unsubscribed
<1>8. \A c : Held(s, c) => Held(t, c) /\ Held(u, c)
  BY <1>2, <1>4 DEF Held
<1>9. CASE Unsubscribed(t) = {}
  <2>1. Core(u)
    BY <1>2, <1>4, <1>5, <1>6, <1>7, <1>8, <1>9 DEF Good, Core, Tidy
  <2> QED BY <1>3, <1>9, <2>1, CatchUpGood
<1>10. CASE Unsubscribed(t) # {}
  <2>1. Core(t)
    BY <1>1, <1>2, <1>5, <1>6, <1>8, <1>10 DEF Good, Core, Tidy
  <2>2. Driven(t)
    BY <1>2, <1>5 DEF Good, Driven, Busy, Outstanding
  <2> QED BY <1>3, <1>10, <2>1, <2>2 DEF Good
<1> QED BY <1>9, <1>10

\* confirmSubscriptions(), up to its await, ends in a good state.
LEMMA ConfirmSubscriptionsGood ==
    ASSUME NEW s, Core(s)
    PROVE  Good(ConfirmSubscriptions(s))
<1>1. CASE Subscribed(s) = {}
  BY <1>1, FullySubscribedGood DEF ConfirmSubscriptions
<1>2. CASE Subscribed(s) # {}
  <2>1. Subscribed(s) \in SUBSET Channels /\ Subscribed(s) \subseteq Known(s)
    BY DEF Subscribed, Known
  <2> QED BY <1>2, <2>1, LaunchGood DEF ConfirmSubscriptions, CallbackKinds
<1> QED BY <1>1, <1>2

\* netHiccup() sets `pending' and always leaves something outstanding to clear it:
\* an active failure has a resubscribe timer.
LEMMA NetHiccupGood ==
    ASSUME NEW s, Good(s)
    PROVE  Good(NetHiccup(s))
<1> DEFINE t == [s EXCEPT !.pending = TRUE]
<1>1. s \in Fields /\ t \in Fields
  BY DEF Good, Core, Fields
<1>2. Agree(t, s) /\ t.queued = s.queued /\ t.pending
  BY <1>1 DEF Fields
<1>3. NetHiccup(s) = IF s.failures # {} THEN t ELSE ConfirmSubscriptions(t)
  BY DEF NetHiccup
<1> HIDE DEF t
<1>4. Core(t)
  BY <1>1, <1>2 DEF Good, Core, Peaceful, Tidy, Known, Unsubscribed, Held
<1>5. CASE s.failures # {}
  <2>1. Peaceful(t) => \E C \in SUBSET Channels : t.callbacks[<<"resubscribe", C>>] > 0
    BY <1>2, <1>4, <1>5 DEF Core, Held
  <2>2. Driven(t)
    BY <2>1 DEF Driven, Busy, Outstanding, Callbacks, CallbackKinds
  <2> QED BY <1>3, <1>4, <1>5, <2>2 DEF Good
<1>6. CASE s.failures = {}
  BY <1>3, <1>4, <1>6, ConfirmSubscriptionsGood
<1> QED BY <1>5, <1>6

\* What is left of the invariant once a timer or an await that held C has been
\* taken off: only the channels of C may have lost the timer that retries them.
LEMMA ResumedKeeps ==
    ASSUME NEW s, Good(s), NEW kind \in CallbackKinds, NEW C \in SUBSET Channels,
           s.callbacks[<<kind, C>>] > 0
    PROVE  LET r == Resumed(s, kind, C) IN
           /\ r \in Fields
           /\ r.queued = s.queued /\ r.pending = s.pending /\ r.subs = s.subs
           /\ Peaceful(r) <=> Peaceful(s)
           /\ Peaceful(r) =>
                /\ Tidy(r) /\ C # {} /\ C \subseteq Known(r)
                /\ \A c \in Channels : Held(s, c) => Held(r, c) \/ (kind = "resubscribe" /\ c \in C)
                /\ r.failures = s.failures /\ r.statusTimer = s.statusTimer
<1> DEFINE r == Resumed(s, kind, C)
<1>1. s \in Fields /\ r \in Fields
  BY ResumedType DEF Good, Core
<1>2. <<kind, C>> \in Callbacks
  BY DEF Callbacks
<1>3. /\ r.subs = s.subs /\ r.asked = s.asked /\ r.queued = s.queued
      /\ r.failures = s.failures /\ r.statusTimer = s.statusTimer
      /\ r.wasReset = s.wasReset /\ r.aborted = s.aborted
      /\ r.disposed = s.disposed /\ r.careless = s.careless /\ r.pending = s.pending
      /\ r.callbacks = [s.callbacks EXCEPT ![<<kind, C>>] = @ - 1]
  BY <1>1 DEF Resumed, Fields
<1>4. s.callbacks \in [Callbacks -> Nat]
  BY <1>1 DEF Fields
<1> HIDE DEF r
<1>5. \A k \in CallbackKinds, D \in SUBSET Channels :
          /\ <<k, D>> \in Callbacks
          /\ r.callbacks[<<k, D>>] =
                IF <<k, D>> = <<kind, C>> THEN s.callbacks[<<kind, C>>] - 1
                ELSE s.callbacks[<<k, D>>]
  BY <1>2, <1>3, <1>4 DEF Callbacks
<1>6. Known(r) = Known(s) /\ Unsubscribed(r) = Unsubscribed(s)
  BY <1>3 DEF Known, Unsubscribed
<1>7. Peaceful(r) <=> Peaceful(s)
  BY <1>3 DEF Peaceful
<1>8. \A c \in Channels : Held(s, c) => Held(r, c) \/ (kind = "resubscribe" /\ c \in C)
  <2> SUFFICES ASSUME NEW c \in Channels, NEW D \in SUBSET Channels,
                      c \in D, s.callbacks[<<"resubscribe", D>>] > 0,
                      ~(kind = "resubscribe" /\ c \in C)
               PROVE  r.callbacks[<<"resubscribe", D>>] > 0
    BY DEF Held
  <2> QED BY <1>5 DEF CallbackKinds
<1>9. Peaceful(r) => Tidy(r) /\ C # {} /\ C \subseteq Known(r)
  <2> SUFFICES ASSUME Peaceful(r)
               PROVE  Tidy(r) /\ C # {} /\ C \subseteq Known(r)
    OBVIOUS
  <2>1. Tidy(s)
    BY <1>7 DEF Good, Core
  <2>2. C # {} /\ C \subseteq Known(r)
    BY <1>6, <2>1 DEF Tidy
  <2>3. \A k \in CallbackKinds, D \in SUBSET Channels :
            r.callbacks[<<k, D>>] > 0 => s.callbacks[<<k, D>>] > 0
    BY <1>4, <1>5
  <2> QED BY <1>3, <1>6, <2>1, <2>2, <2>3 DEF Tidy
<1> QED BY <1>1, <1>3, <1>7, <1>8, <1>9 DEF r

\* A resumed await takes no retry away.
LEMMA ResumedAwaitCore ==
    ASSUME NEW s, Good(s), NEW kind \in {"confirm", "fetch"}, NEW C \in SUBSET Channels,
           s.callbacks[<<kind, C>>] > 0
    PROVE  LET r == Resumed(s, kind, C) IN
           Core(r) /\ (Peaceful(r) => C # {} /\ C \subseteq Known(r))
<1> DEFINE r == Resumed(s, kind, C)
<1>1. kind \in CallbackKinds /\ kind # "resubscribe"
  BY DEF CallbackKinds
<1>2. /\ r \in Fields
      /\ r.queued = s.queued /\ r.pending = s.pending /\ r.subs = s.subs
      /\ Peaceful(r) <=> Peaceful(s)
      /\ Peaceful(r) =>
            /\ Tidy(r) /\ C # {} /\ C \subseteq Known(r)
            /\ \A c \in Channels : Held(s, c) => Held(r, c)
            /\ r.failures = s.failures /\ r.statusTimer = s.statusTimer
  BY <1>1, ResumedKeeps
<1> HIDE DEF r
<1>3. r.failures \subseteq Channels /\ Unsubscribed(r) = Unsubscribed(s) /\ Unsubscribed(s) \subseteq Channels
  BY <1>2 DEF Fields, Unsubscribed
<1>4. Core(r)
  BY <1>2, <1>3 DEF Good, Core
<1> QED BY <1>2, <1>4 DEF r

\* Only Fields that the invariant does not read may have changed.
LEMMA CoreDepends ==
    ASSUME NEW s, Core(s), NEW t \in Fields,
           t.callbacks = s.callbacks, t.asked = s.asked, t.subs = s.subs,
           t.queued = s.queued, t.pending = s.pending,
           t.failures = s.failures, t.statusTimer = s.statusTimer,
           t.wasReset = s.wasReset, t.aborted = s.aborted,
           t.disposed = s.disposed, t.careless = s.careless
    PROVE  Core(t)
BY DEF Core, Peaceful, Tidy, Known, Unsubscribed, Held

\* resubscribe() of known channels; the channels of C need no timer any more.
LEMMA ResubscribeGood ==
    ASSUME NEW s \in Fields, NEW C \in SUBSET Channels,
           Peaceful(s) => Tidy(s) /\ \A c \in s.failures : c \in C \/ Held(s, c)
    PROVE  Good(Resubscribe(s, C))
<1> DEFINE n == CountResubscribe(s)
           m == Mark(n, C, "unsubscribed")
           t == [m EXCEPT !.pending = TRUE]
<1>1. n \in Fields
  BY CountResubscribeType
<1>2. Agree(n, s)
  BY DEF CountResubscribe, Fields
<1> HIDE DEF n
<1>3. m \in Fields
  BY <1>1, MarkType DEF SubStates
<1>4. /\ m.callbacks = n.callbacks /\ m.asked = n.asked
      /\ m.failures = n.failures /\ m.statusTimer = n.statusTimer
      /\ m.wasReset = n.wasReset /\ m.aborted = n.aborted
      /\ m.disposed = n.disposed /\ m.careless = n.careless
      /\ m.subs = [c \in Channels |-> IF c \in C THEN "unsubscribed" ELSE n.subs[c]]
  BY <1>1 DEF Mark, Fields
<1> HIDE DEF m
<1>5. Agree(t, m) /\ t \in Fields
  BY <1>3 DEF Fields
<1> HIDE DEF t
<1>6. Known(s) \subseteq Known(t) /\ Unsubscribed(s) \subseteq Unsubscribed(t)
  BY <1>2, <1>4, <1>5 DEF Known, Unsubscribed
<1>7. \A c : Held(s, c) => Held(t, c)
  BY <1>2, <1>4, <1>5 DEF Held
<1>8. \A c \in C : t.subs[c] = "unsubscribed"
  BY <1>4, <1>5
<1>9. Mid(t)
  BY <1>2, <1>4, <1>5, <1>6, <1>7, <1>8 DEF Mid, Peaceful, Tidy
<1>10. Resubscribe(s, C) = DrainQueue(t)
  BY DEF Resubscribe, t, m, n
<1> QED BY <1>9, <1>10, DrainQueueGood

\* When resubscribe() throws, something had been removed under it.
LEMMA ResubscribeThrowsGood ==
    ASSUME NEW s \in Fields, s.queued # {} => s.pending, ~Peaceful(s), NEW before
    PROVE  Good(ResubscribeThrows(s, before))
<1> DEFINE n == CountResubscribe(s)
           m == Mark(n, before, "unsubscribed")
<1>1. n \in Fields
  BY CountResubscribeType
<1>2. /\ n.wasReset = s.wasReset /\ n.aborted = s.aborted
      /\ n.disposed = s.disposed /\ n.careless = s.careless
      /\ n.queued = s.queued /\ n.pending = s.pending
  BY DEF CountResubscribe, Fields
<1> HIDE DEF n
<1>3. m \in Fields
  BY <1>1, MarkType DEF SubStates
<1>4. /\ m.wasReset = n.wasReset /\ m.aborted = n.aborted
      /\ m.disposed = n.disposed /\ m.careless = n.careless
      /\ m.queued = n.queued /\ m.pending = n.pending
  BY <1>1 DEF Mark, Fields
<1> HIDE DEF m
<1> QED BY <1>2, <1>3, <1>4, DisturbedIsGood DEF Peaceful, ResubscribeThrows, m, n

\* emitTrouble() only changes what is owed to the client.
LEMMA EmitTroubleKeeps ==
    ASSUME NEW s \in Fields
    PROVE  LET t == EmitTrouble(s) IN
           Agree(t, s) /\ t \in Fields /\ t.queued = s.queued /\ t.pending = s.pending
BY EmitTroubleType DEF EmitTrouble, Emit, Fields

\* subscriptionFailure(), also from the timer that has just been taken off: each
\* unsubscribed channel has a timer or is among the failed ones.
LEMMA SubscriptionFailureGood ==
    ASSUME NEW s \in Fields, NEW F \in SUBSET Channels,
           s.queued # {} => s.pending,
           Peaceful(s) =>
                /\ Tidy(s) /\ F \subseteq Known(s)
                /\ \A c \in s.failures : Held(s, c)
                /\ \A c \in Unsubscribed(s) : s.statusTimer = "armed" \/ Held(s, c) \/ c \in F
                /\ s.pending \/ s.needConnected => Busy(s) \/ F # {}
    PROVE  Good(SubscriptionFailure(s, F))
<1> DEFINE C == F \ s.failures
           f == [s EXCEPT !.failures = @ \cup C]
           t == EmitTrouble(f)
           u == Launch(t, "resubscribe", C)
<1>1. C \in SUBSET Channels
  OBVIOUS
<1>2. f \in Fields
  BY DEF Fields
<1>3. /\ f.callbacks = s.callbacks /\ f.asked = s.asked /\ f.subs = s.subs
      /\ f.queued = s.queued /\ f.pending = s.pending
      /\ f.failures = s.failures \cup C /\ f.statusTimer = s.statusTimer
      /\ f.wasReset = s.wasReset /\ f.aborted = s.aborted
      /\ f.disposed = s.disposed /\ f.careless = s.careless
  BY DEF Fields
<1>4. SubscriptionFailure(s, F) = IF C = {} THEN s ELSE IF GivesUp(t) THEN Abort(t) ELSE u
  BY DEF SubscriptionFailure
<1> HIDE DEF f
<1>5. Agree(t, f) /\ t \in Fields /\ t.queued = f.queued /\ t.pending = f.pending
  BY <1>2, EmitTroubleKeeps
<1> HIDE DEF t
<1>6. CASE C = {}
  <2>1. F \subseteq s.failures
    BY <1>6
  <2>2. Core(s)
    BY <2>1 DEF Core
  <2>3. Peaceful(s) /\ F # {} => \E D \in SUBSET Channels : s.callbacks[<<"resubscribe", D>>] > 0
    BY <2>1 DEF Held
  <2>4. Driven(s)
    BY <2>3 DEF Driven, Busy, Outstanding, Callbacks, CallbackKinds
  <2> QED BY <1>4, <1>6, <2>2, <2>4 DEF Good
<1>7. CASE C # {} /\ GivesUp(t)
  BY <1>3, <1>4, <1>5, <1>7, AbortType, DisturbedIsGood DEF Peaceful
<1>8. CASE C # {} /\ ~GivesUp(t)
  <2>1. <<"resubscribe", C>> \in Callbacks /\ "resubscribe" \in CallbackKinds
    BY <1>1 DEF Callbacks, CallbackKinds
  <2>2. u \in Fields
    BY <1>1, <1>5, <2>1, LaunchType
  <2>3. /\ u.subs = s.subs /\ u.asked = s.asked /\ u.queued = s.queued
        /\ u.failures = s.failures \cup C /\ u.statusTimer = s.statusTimer
        /\ u.wasReset = s.wasReset /\ u.aborted = s.aborted
        /\ u.disposed = s.disposed /\ u.careless = s.careless /\ u.pending = s.pending
        /\ u.callbacks = [s.callbacks EXCEPT ![<<"resubscribe", C>>] = @ + 1]
    BY <1>3, <1>5 DEF Launch, Fields
  <2>4. s.callbacks \in [Callbacks -> Nat]
    BY DEF Fields
  <2> HIDE DEF u
  <2>5. \A k \in CallbackKinds, D \in SUBSET Channels :
            u.callbacks[<<k, D>>] =
                IF <<k, D>> = <<"resubscribe", C>> THEN s.callbacks[<<"resubscribe", C>>] + 1
                ELSE s.callbacks[<<k, D>>]
    BY <2>1, <2>3, <2>4 DEF Callbacks
  <2>6. s.callbacks[<<"resubscribe", C>>] \in Nat
    BY <2>1, <2>4
  <2>7. u.callbacks[<<"resubscribe", C>>] > 0
    BY <1>1, <2>1, <2>5, <2>6
  <2>8. \A c \in Channels : Held(s, c) \/ c \in C => Held(u, c)
    BY <1>1, <2>1, <2>5, <2>7 DEF Held
  <2>9. Outstanding(u) # {}
    BY <2>1, <2>7 DEF Outstanding
  <2>10. ASSUME Peaceful(u)
         PROVE  /\ Tidy(u)
                /\ \A c \in u.failures : Held(u, c)
                /\ \A c \in Unsubscribed(u) : u.statusTimer = "armed" \/ Held(u, c)
    <3>1. Peaceful(s) /\ Known(u) = Known(s) /\ Unsubscribed(u) = Unsubscribed(s)
      BY <2>3, <2>10 DEF Peaceful, Known, Unsubscribed
    <3>2. s.failures \subseteq Channels /\ Unsubscribed(s) \subseteq Channels
      BY DEF Fields, Unsubscribed
    <3>3. ASSUME NEW k \in CallbackKinds, NEW D \in SUBSET Channels,
                 u.callbacks[<<k, D>>] > 0
          PROVE  D # {} /\ D \subseteq Known(u)
      <4>1. CASE <<k, D>> = <<"resubscribe", C>>
        BY <1>8, <3>1, <4>1
      <4>2. CASE <<k, D>> # <<"resubscribe", C>>
        BY <2>5, <3>1, <3>3, <4>2 DEF Tidy
      <4> QED BY <4>1, <4>2
    <3>4. Tidy(u)
      BY <2>3, <3>1, <3>3 DEF Tidy
    <3>5. \A c \in u.failures : Held(u, c)
      BY <1>1, <2>3, <2>8, <3>1, <3>2
    <3>6. \A c \in Unsubscribed(u) : u.statusTimer = "armed" \/ Held(u, c)
      BY <2>3, <2>8, <3>1, <3>2, <3>5
    <3> QED BY <3>4, <3>5, <3>6
  <2>11. Good(u)
    BY <2>2, <2>3, <2>9, <2>10 DEF Good, Core, Driven, Busy
  <2> QED BY <1>4, <1>8, <2>11
<1> QED BY <1>6, <1>7, <1>8

\* The status timer fires: every unsubscribed channel gets, or already has, a retry.
LEMMA SubscriptionTimeoutGood ==
    ASSUME NEW s, Good(s), s.statusTimer = "armed"
    PROVE  Good(SubscriptionTimeout(s))
<1> DEFINE t == [s EXCEPT !.statusTimer = "none"]
<1>1. s \in Fields /\ t \in Fields
  BY DEF Good, Core, Fields, TimerStates
<1>2. /\ t.callbacks = s.callbacks /\ t.asked = s.asked /\ t.subs = s.subs
      /\ t.queued = s.queued /\ t.pending = s.pending
      /\ t.failures = s.failures /\ t.statusTimer = "none"
      /\ t.wasReset = s.wasReset /\ t.aborted = s.aborted
      /\ t.disposed = s.disposed /\ t.careless = s.careless
  BY <1>1 DEF Fields
<1>3. SubscriptionTimeout(s) =
        IF Unsubscribed(t) = {} THEN t ELSE SubscriptionFailure(t, Unsubscribed(t))
  BY DEF SubscriptionTimeout
<1> HIDE DEF t
<1>4. Known(t) = Known(s) /\ Unsubscribed(t) = Unsubscribed(s)
  BY <1>2 DEF Known, Unsubscribed
<1>5. CASE Unsubscribed(t) = {}
  BY <1>1, <1>2, <1>3, <1>4, <1>5, DisturbedIsGood DEF Good, Core, Tidy, Peaceful
<1>6. CASE Unsubscribed(t) # {}
  <2>1. Unsubscribed(t) \in SUBSET Channels /\ Unsubscribed(t) \subseteq Known(t)
    BY DEF Unsubscribed, Known
  <2>2. Peaceful(t) => Tidy(t) /\ \A c \in t.failures : Held(t, c)
    BY <1>2, <1>4 DEF Good, Core, Tidy, Peaceful, Held
  <2>3. t.queued # {} => t.pending
    BY <1>2 DEF Good, Core
  <2> QED BY <1>1, <1>3, <1>6, <2>1, <2>2, <2>3, SubscriptionFailureGood
<1> QED BY <1>5, <1>6

\* unsubscribe() with nothing outstanding: every channel is subscribed, none fails.
LEMMA RemoveChannelsGood ==
    ASSUME NEW s, Good(s), NEW C
    PROVE  Good(RemoveChannels(s, C))
<1> DEFINE m == Mark(s, C, "absent")
           b == s.careless \/ s.pending \/ Busy(s)
           t == [m EXCEPT !.asked = s.asked \ C, !.careless = b]
<1>1. s \in Fields /\ m \in Fields
  BY MarkType DEF Good, Core, SubStates
<1>2. /\ m.callbacks = s.callbacks /\ m.queued = s.queued /\ m.asked = s.asked
      /\ m.failures = s.failures /\ m.statusTimer = s.statusTimer
      /\ m.wasReset = s.wasReset /\ m.aborted = s.aborted
      /\ m.disposed = s.disposed /\ m.careless = s.careless
      /\ m.pending = s.pending /\ m.needConnected = s.needConnected
      /\ m.subs = [c \in Channels |-> IF c \in C THEN "absent" ELSE s.subs[c]]
  BY <1>1 DEF Mark, Fields
<1>3. b \in BOOLEAN
  BY <1>1 DEF Fields
<1>4. RemoveChannels(s, C) = t
  BY <1>1, <1>2 DEF RemoveChannels, Fields
<1> HIDE DEF m, b
<1>5. /\ t \in Fields /\ t.subs = m.subs /\ t.asked = s.asked \ C /\ t.careless = b
      /\ t.callbacks = m.callbacks /\ t.queued = m.queued
      /\ t.failures = m.failures /\ t.statusTimer = m.statusTimer
      /\ t.wasReset = m.wasReset /\ t.aborted = m.aborted
      /\ t.disposed = m.disposed
      /\ t.pending = m.pending /\ t.needConnected = m.needConnected
  BY <1>1, <1>2, <1>3 DEF Fields
<1> HIDE DEF t
<1>6. CASE ~Peaceful(t)
  BY <1>2, <1>4, <1>5, <1>6, DisturbedIsGood DEF Good, Core
<1>7. CASE Peaceful(t)
  <2>1. Peaceful(s) /\ ~s.pending /\ ~Busy(s)
    BY <1>2, <1>5, <1>7 DEF Peaceful, b
  <2>2. s.statusTimer # "armed" /\ Outstanding(s) = {}
    BY <2>1 DEF Busy
  <2>3. \A k \in CallbackKinds, D \in SUBSET Channels : ~(s.callbacks[<<k, D>>] > 0)
    BY <2>2 DEF Outstanding, Callbacks
  <2>4. \A c : ~Held(s, c)
    BY <2>3 DEF Held, CallbackKinds
  <2>5. s.failures = {} /\ Unsubscribed(s) = {} /\ Tidy(s) /\ ~s.needConnected /\ s.queued = {}
    BY <2>1, <2>2, <2>4 DEF Good, Core, Driven
  <2>6. Unsubscribed(t) = {} /\ Known(s) \ C \subseteq Known(t)
    BY <1>2, <1>5, <2>5 DEF Unsubscribed, Known
  <2>7. Tidy(t)
    BY <1>2, <1>5, <2>2, <2>3, <2>5, <2>6 DEF Tidy
  <2>8. Core(t) /\ Driven(t)
    BY <1>2, <1>5, <2>1, <2>5, <2>6, <2>7 DEF Core, Driven
  <2> QED BY <1>4, <2>8 DEF Good
<1> QED BY <1>6, <1>7

\* A status emitted to the client changes nothing the invariant speaks of.
LEMMA EmitGood ==
    ASSUME NEW s, Good(s), NEW status \in Statuses
    PROVE  Good(Emit(s, status))
<1> DEFINE t == Emit(s, status)
<1>1. t \in Fields
  BY EmitType DEF Good, Core
<1>2. /\ Agree(t, s) /\ t.queued = s.queued /\ t.pending = s.pending
      /\ t.needConnected = s.needConnected
  BY DEF Emit, Good, Core, Fields
<1> HIDE DEF t
<1>3. Good(t)
  BY <1>1, <1>2 DEF Good, Core, Driven, Busy, Outstanding, Peaceful, Tidy, Known, Unsubscribed, Held
<1> QED BY <1>3 DEF t

--------------------------------------------------------------------------------
(* The invariant. *)

\* The fields after initialize() satisfy the invariant.
LEMMA InitGood == Init => IInv
<1> SUFFICES ASSUME Init PROVE IInv
  OBVIOUS
<1>1. /\ subs \in [Channels -> SubStates] /\ statusTimer \in TimerStates
      /\ numResub \in 0..RetryLimit /\ recentFetches \in 0..(HistoryLimit + 1)
      /\ callbacks \in [Callbacks -> Nat]
  BY ConstantsAssumption DEF Init, SubStates, TimerStates
<1>2. State \in Fields
  BY <1>1 DEF Init, State, Fields
<1>3. /\ State.subs = [c \in Channels |-> "absent"]
      /\ State.queued = {} /\ State.failures = {} /\ State.asked = {}
      /\ ~State.pending /\ ~State.needConnected /\ State.statusTimer = "none"
      /\ \A k \in CallbackKinds, D \in SUBSET Channels : ~(State.callbacks[<<k, D>>] > 0)
  BY DEF Init, State, Callbacks
<1>4. Unsubscribed(State) = {}
  BY <1>3 DEF Unsubscribed
<1>5. Tidy(State)
  BY <1>3, <1>4 DEF Tidy
<1> QED BY <1>2, <1>3, <1>4, <1>5 DEF IInv, Good, Core, Driven, Init

\* A handler that computes good fields establishes the invariant.
LEMMA BecomeGood ==
    ASSUME NEW s, Good(s), Become(s)
    PROVE  IInv'
<1>1. s \in Fields
  BY DEF Good, Core
<1>2. State' \in Fields /\ emitted' \subseteq Statuses
  BY <1>1 DEF State, Become, Fields
<1>3. /\ Agree(State', s) /\ State'.queued = s.queued /\ State'.pending = s.pending
      /\ State'.needConnected = s.needConnected
  BY DEF State, Become
<1>4. ASSUME NEW t, t \in Fields,
             t.callbacks = s.callbacks, t.asked = s.asked, t.subs = s.subs,
             t.queued = s.queued, t.pending = s.pending, t.needConnected = s.needConnected,
             t.failures = s.failures, t.statusTimer = s.statusTimer,
             t.wasReset = s.wasReset, t.aborted = s.aborted,
             t.disposed = s.disposed, t.careless = s.careless
      PROVE  Good(t)
  BY <1>4 DEF Good, Core, Driven, Busy, Outstanding, Peaceful, Tidy, Known, Unsubscribed, Held
<1>5. Good(State')
  BY <1>2, <1>3, <1>4
<1>6. Good(State)'
  BY <1>5 DEF Good, Core, Driven, Busy, Outstanding, Peaceful, Tidy, Known, Unsubscribed, Held
<1> QED BY <1>2, <1>6 DEF IInv

\* A handler that resumes and finds that resubscribe() cannot go through: only
\* after one of the disturbances, since snapshots are of known channels.
LEMMA CannotResubscribe ==
    ASSUME NEW s \in Fields, NEW C, Peaceful(s) => C \subseteq Known(s), ~CanResubscribe(s, C)
    PROVE  ~Peaceful(s)
BY DEF CanResubscribe

\* Every callback keeps the invariant: one step for each action.
LEMMA StepGood == IInv /\ [Next]_vars => IInv'
<1> SUFFICES ASSUME IInv, [Next]_vars
             PROVE  IInv'
  OBVIOUS
<1>0. Good(State) /\ State \in Fields /\ (State.queued # {} => State.pending)
  BY DEF IInv, Good, Core
<1>f. /\ State.subs = subs /\ State.queued = queued /\ State.pending = pending
      /\ State.statusTimer = statusTimer /\ State.failures = failures
      /\ State.needConnected = needConnected /\ State.callbacks = callbacks
      /\ State.asked = asked /\ State.wasReset = wasReset /\ State.aborted = aborted
      /\ State.disposed = disposed /\ State.careless = careless
  BY DEF State
<1>1. ASSUME NEW C \in SUBSET Channels, ClientSubscribe(C)
      PROVE  IInv'
  <2>1. CASE aborted /\ Become(Emit(State, "Aborted"))
    BY <1>0, <2>1, EmitGood, BecomeGood DEF Statuses
  <2>2. CASE pending /\ Become([State EXCEPT !.queued = @ \cup C])
    <3> DEFINE t == [State EXCEPT !.queued = @ \cup C]
    <3>1. Agree(t, State) /\ t.pending /\ t.needConnected = State.needConnected
      BY <1>0, <1>f, <2>2 DEF Fields
    <3>2. t \in Fields
      BY <1>0 DEF Fields
    <3> HIDE DEF t
    <3>3. State.pending
      BY <1>f, <2>2
    <3>4. Good(t)
      BY <1>0, <3>1, <3>2, <3>3
      DEF Good, Core, Driven, Busy, Outstanding, Peaceful, Tidy, Known, Unsubscribed, Held
    <3> QED BY <2>2, <3>4, BecomeGood DEF t
  <2>3. CASE ~pending /\ Become(SubscribeToChannels(State, C))
    BY <1>0, <1>f, <2>3, CoreIsMid, SubscribeToChannelsGood, BecomeGood DEF Good
  <2> QED BY <1>1, <2>1, <2>2, <2>3 DEF ClientSubscribe
<1>2. ASSUME NEW C \in SUBSET Channels, ClientUnsubscribe(C)
      PROVE  IInv'
  BY <1>0, <1>2, RemoveChannelsGood, BecomeGood DEF ClientUnsubscribe
<1>3. ASSUME ClientDispose
      PROVE  IInv'
  <2> DEFINE u == UnsubscribeAll(State)
             t == [u EXCEPT !.disposed = TRUE]
  <2>1. u \in Fields
    BY <1>0, UnsubscribeAllType
  <2>2. u.queued = State.queued /\ u.pending = State.pending
    BY <1>0 DEF UnsubscribeAll, Mark, Fields
  <2> HIDE DEF u
  <2>3. t \in Fields /\ t.queued = u.queued /\ t.pending = u.pending /\ t.disposed
    BY <2>1 DEF Fields
  <2>4. Become(t)
    BY <1>3 DEF ClientDispose, u
  <2> HIDE DEF t
  <2> QED BY <1>0, <2>2, <2>3, <2>4, DisturbedIsGood, BecomeGood DEF Peaceful
<1>4. ASSUME NEW C \in SUBSET Channels, OnConnected(C)
      PROVE  IInv'
  BY <1>0, <1>f, <1>4, SetConnectedGood, BecomeGood DEF OnConnected
<1>5. ASSUME NEW C \in SUBSET Channels, C # {}, OnFailed(C)
      PROVE  IInv'
  <2>1. C \subseteq State.asked
    BY <1>5, <1>f DEF OnFailed
  <2>2. Good(SubscriptionFailure(State, C))
    BY <1>0, <2>1, SubscriptionFailureGood DEF Good, Core, Driven, Tidy
  <2> QED BY <1>5, <2>2, BecomeGood DEF OnFailed
<1>6. ASSUME NEW C \in SUBSET Channels, OnNonCriticalFailure(C)
      PROVE  IInv'
  BY <1>0, <1>6, RemoveChannelsGood, EmitGood, BecomeGood DEF OnNonCriticalFailure, Statuses
<1>7. ASSUME OnNetHiccup
      PROVE  IInv'
  BY <1>0, <1>7, NetHiccupGood, BecomeGood DEF OnNetHiccup
<1>8. ASSUME StatusTimerFires
      PROVE  IInv'
  BY <1>0, <1>f, <1>8, SubscriptionTimeoutGood, BecomeGood DEF StatusTimerFires
<1>9. ASSUME NEW C \in SUBSET Channels, ResubscribeTimerFires(C)
      PROVE  IInv'
  <2> DEFINE s == Resumed(State, "resubscribe", C)
  <2>1. State.callbacks[<<"resubscribe", C>>] > 0 /\ "resubscribe" \in CallbackKinds
    BY <1>9, <1>f DEF ResubscribeTimerFires, CallbackKinds
  <2>2. /\ s \in Fields
        /\ s.queued = State.queued /\ s.pending = State.pending
        /\ Peaceful(s) <=> Peaceful(State)
        /\ Peaceful(s) =>
            /\ Tidy(s) /\ C \subseteq Known(s) /\ s.failures = State.failures
            /\ \A c \in Channels : Held(State, c) => Held(s, c) \/ c \in C
    BY <1>0, <2>1, ResumedKeeps
  <2>3. \/ Become(Resubscribe(s, C))
        \/ /\ ~CanResubscribe(s, C)
           /\ \E before \in SUBSET (C \cap Known(s)) : Become(ResubscribeThrows(s, before))
    BY <1>9 DEF ResubscribeTimerFires
  <2> HIDE DEF s
  <2>4. Peaceful(s) => \A c \in s.failures : c \in C \/ Held(s, c)
    BY <1>0, <2>2 DEF Good, Core, Fields
  <2>5. Good(Resubscribe(s, C))
    BY <2>2, <2>4, ResubscribeGood
  <2>6. ~CanResubscribe(s, C) => \A before : Good(ResubscribeThrows(s, before))
    BY <1>0, <2>2, CannotResubscribe, ResubscribeThrowsGood
  <2> QED BY <2>3, <2>5, <2>6, BecomeGood
<1>10. ASSUME NEW C \in SUBSET Channels, NEW trouble \in SUBSET C, ConfirmAnswers(C, trouble)
       PROVE  IInv'
  <2> DEFINE s == Resumed(State, "confirm", C)
             lost == [s EXCEPT !.connLost = "fresh"]
  <2>1. State.callbacks[<<"confirm", C>>] > 0
    BY <1>10, <1>f DEF ConfirmAnswers
  <2>2. Core(s) /\ (Peaceful(s) => C \subseteq Known(s))
    BY <1>0, <2>1, ResumedAwaitCore
  <2>3. \/ \E tooLong \in BOOLEAN : Become(CatchUp(s, tooLong))
        \/ Become(Resubscribe(lost, trouble))
        \/ /\ ~CanResubscribe(s, trouble)
           /\ \E before \in SUBSET (trouble \cap Known(s)) : Become(ResubscribeThrows(lost, before))
    BY <1>10 DEF ConfirmAnswers
  <2> HIDE DEF s
  <2>4. /\ Agree(lost, s) /\ lost \in Fields /\ lost.queued = s.queued
        /\ lost.pending = s.pending
    BY <2>2 DEF Core, Fields
  <2> HIDE DEF lost
  <2>5. Core(lost)
    BY <2>2, <2>4, CoreDepends
  <2>6. Good(Resubscribe(lost, trouble))
    BY <2>5, ResubscribeGood DEF Core
  <2>7. ~CanResubscribe(s, trouble) => ~Peaceful(s)
    BY <2>2 DEF CanResubscribe
  <2>8. ~CanResubscribe(s, trouble) => \A before : Good(ResubscribeThrows(lost, before))
    BY <2>4, <2>5, <2>7, ResubscribeThrowsGood DEF Core, Peaceful
  <2> QED BY <2>2, <2>3, <2>6, <2>8, CatchUpGood, BecomeGood
<1>11. ASSUME NEW C \in SUBSET Channels, FetchSucceeds(C)
       PROVE  IInv'
  BY <1>0, <1>f, <1>11, ResumedAwaitCore, FullySubscribedGood, BecomeGood DEF FetchSucceeds
<1>12. ASSUME NEW C \in SUBSET Channels, FetchOverflows(C)
       PROVE  IInv'
  <2> DEFINE s == Resumed(State, "fetch", C)
  <2>1. Core(s) /\ Become(Reset(s))
    BY <1>0, <1>f, <1>12, ResumedAwaitCore DEF FetchOverflows
  <2> HIDE DEF s
  <2>2. Good(Reset(s))
    BY <2>1, ResetType, DisturbedIsGood DEF Core, Peaceful
  <2> QED BY <2>1, <2>2, BecomeGood
<1>13. ASSUME NEW C \in SUBSET Channels, FetchFails(C)
       PROVE  IInv'
  <2> DEFINE r == Resumed(State, "fetch", C)
             s == EmitTrouble(r)
  <2>1. Core(r) /\ (Peaceful(r) => C \subseteq Known(r))
    BY <1>0, <1>f, <1>13, ResumedAwaitCore DEF FetchFails
  <2>2. \/ Become(Resubscribe(s, C))
        \/ /\ ~CanResubscribe(s, C)
           /\ \E before \in SUBSET (C \cap Known(s)) : Become(ResubscribeThrows(s, before))
    BY <1>13 DEF FetchFails
  <2> HIDE DEF r
  <2>3. Core(s) /\ s.subs = r.subs /\ (Peaceful(s) => Peaceful(r))
    BY <2>1, EmitTroubleKeeps, CoreDepends DEF Core, Peaceful
  <2> HIDE DEF s
  <2>4. Peaceful(s) => C \subseteq Known(s)
    BY <2>1, <2>3 DEF Known
  <2>5. Good(Resubscribe(s, C))
    BY <2>3, ResubscribeGood DEF Core
  <2>6. ~CanResubscribe(s, C) => \A before : Good(ResubscribeThrows(s, before))
    BY <2>3, <2>4, CannotResubscribe, ResubscribeThrowsGood DEF Core
  <2> QED BY <2>2, <2>5, <2>6, BecomeGood
<1>14. ASSUME LostConnectionAges \/ HistoryWindowSlides
       PROVE  IInv'
  <2> DEFINE t == [State EXCEPT !.connLost = "stale"]
             u == [State EXCEPT !.recentFetches = @ - 1]
  <2>1. Become(t) \/ (recentFetches > 0 /\ Become(u))
    BY <1>14 DEF LostConnectionAges, HistoryWindowSlides
  <2>2. /\ Agree(t, State) /\ t \in Fields /\ t.needConnected = State.needConnected
        /\ t.queued = State.queued /\ t.pending = State.pending
    BY <1>0 DEF Fields
  <2>3. /\ Agree(u, State) /\ u.needConnected = State.needConnected
        /\ u.queued = State.queued /\ u.pending = State.pending
    BY <1>0 DEF Fields
  <2>4. recentFetches > 0 => u \in Fields
    <3> SUFFICES ASSUME recentFetches > 0 PROVE u \in Fields
      OBVIOUS
    <3>1. State.recentFetches - 1 \in 0..(HistoryLimit + 1)
      BY <1>0, ConstantsAssumption DEF Fields, State
    <3> QED BY <1>0, <3>1 DEF Fields
  <2> HIDE DEF t, u
  <2>5. Good(t)
    BY <1>0, <2>2, CoreDepends DEF Good, Driven, Busy, Outstanding, Peaceful
  <2>6. recentFetches > 0 => Good(u)
    BY <1>0, <2>3, <2>4, CoreDepends DEF Good, Driven, Busy, Outstanding, Peaceful
  <2> QED BY <2>1, <2>5, <2>6, BecomeGood
<1>15. CASE UNCHANGED vars
  BY <1>15 DEF vars, IInv, State, Good, Core, Driven, Busy, Outstanding, Peaceful, Tidy, Known,
               Unsubscribed, Held
<1>16. CASE Next
  <2>1. CASE \E C \in (SUBSET Channels) \ {{}} :
                \/ ClientSubscribe(C)
                \/ ClientUnsubscribe(C)
                \/ OnConnected(C)
                \/ OnFailed(C)
                \/ OnNonCriticalFailure(C)
    <3>1. PICK C \in (SUBSET Channels) \ {{}} :
                \/ ClientSubscribe(C)
                \/ ClientUnsubscribe(C)
                \/ OnConnected(C)
                \/ OnFailed(C)
                \/ OnNonCriticalFailure(C)
      BY <2>1
    <3>2. C \in SUBSET Channels /\ C # {}
      BY <3>1
    <3> QED BY <3>1, <3>2, <1>1, <1>2, <1>4, <1>5, <1>6
  <2>2. CASE SomeResubscribe \/ SomeConfirm \/ SomeFetch
    BY <2>2, <1>9, <1>10, <1>11, <1>12, <1>13 DEF SomeResubscribe, SomeConfirm, SomeFetch
  <2>3. CASE ClientDispose \/ OnNetHiccup \/ StatusTimerFires \/ LostConnectionAges \/ HistoryWindowSlides
    BY <2>3, <1>3, <1>7, <1>8, <1>14
  <2> QED BY <1>16, <2>1, <2>2, <2>3 DEF Next
<1> QED BY <1>15, <1>16

\* IInv is an invariant of every behaviour of the broadcaster.
THEOREM Invariance == Spec => []IInv
BY InitGood, StepGood, PTL DEF Spec

\* What the invariant says of the properties the runs check.
LEMMA InvariantImplies ==
    ASSUME IInv
    PROVE  /\ TypeOK /\ QueuedOnlyWhilePending /\ NoForgottenChannel
           /\ PendingIsDriven /\ FailuresAreRetried /\ SnapshotsAreKnown
<1>1. /\ Good(State) /\ State \in Fields
      /\ State.subs = subs /\ State.queued = queued /\ State.pending = pending
      /\ State.statusTimer = statusTimer /\ State.failures = failures
      /\ State.needConnected = needConnected /\ State.callbacks = callbacks
      /\ State.wasReset = wasReset /\ State.aborted = aborted
      /\ State.disposed = disposed /\ State.careless = careless
  BY DEF IInv, Good, Core, State
<1>2. Undisturbed => Peaceful(State)
  BY <1>1 DEF Undisturbed, Peaceful
<1>3. \A c : Held(State, c) => Retried(c)
  BY <1>1 DEF Held, Retried
<1>4. TypeOK
  BY <1>1 DEF TypeOK, IInv
<1>5. QueuedOnlyWhilePending
  BY <1>1 DEF QueuedOnlyWhilePending, Good, Core
<1>6. NoForgottenChannel
  BY <1>1, <1>2, <1>3 DEF NoForgottenChannel, Good, Core, Unsubscribed
<1>7. PendingIsDriven
  BY <1>1, <1>2 DEF PendingIsDriven, Good, Driven
<1>8. failures \subseteq Channels
  BY <1>1 DEF Fields
<1>9. FailuresAreRetried
  BY <1>1, <1>2, <1>3, <1>8 DEF FailuresAreRetried, Good, Core
<1>10. SnapshotsAreKnown
  BY <1>1, <1>2 DEF SnapshotsAreKnown, Good, Core, Tidy, Outstanding, Callbacks
<1> QED BY <1>4, <1>5, <1>6, <1>7, <1>9, <1>10

\* Every variable has its type in every reachable state.
THEOREM TypeCorrect == Spec => []TypeOK
BY Invariance, InvariantImplies, PTL

\* Queued channels are always taken along by the cycle that ends.
THEOREM QueueIsPending == Spec => []QueuedOnlyWhilePending
BY Invariance, InvariantImplies, PTL

\* No requested channel is left unsubscribed with nothing to try it again.
THEOREM NothingForgotten == Spec => []NoForgottenChannel
BY Invariance, InvariantImplies, PTL

\* Whoever waits, for the queue or for a Connected status, waits for something
\* that is on its way.
THEOREM NothingStuck == Spec => []PendingIsDriven
BY Invariance, InvariantImplies, PTL

\* A failure is ignored only while its retry is on its way.
THEOREM FailuresRetried == Spec => []FailuresAreRetried
BY Invariance, InvariantImplies, PTL

\* A resumed handler never looks up a channel that has been removed meanwhile.
THEOREM SnapshotsKnown == Spec => []SnapshotsAreKnown
BY Invariance, InvariantImplies, PTL

================================================================================
