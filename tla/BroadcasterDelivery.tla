-------------------------- MODULE BroadcasterDelivery --------------------------
(***************************************************************************)
(* What the Broadcaster does with messages: live ones (onMessage), those   *)
(* fetched from the history after an interruption (catchUp), the list of   *)
(* messages already received, messages split into parts, and the watermark *)
(* _lastMessageReceivedAt that says where the next catch-up starts.        *)
(*                                                                         *)
(* Losing or repeating a message is a matter of time: of a 12 s overlap, a *)
(* 10 min memory, a 60 s exemption.  So the module has a clock, and keeps  *)
(* of the subscription state machine (module Broadcaster) no more than     *)
(* _subscriptionsPending: a cycle starts with a network hiccup, reaches    *)
(* catchUp() with the Connected event for the last channel, and ends in    *)
(* subscribed().  Behaviours are followed up to the first Reset.           *)
(*                                                                         *)
(* The transport and the history service are not in the repository; they   *)
(* are modelled from what the code relies on, and marked EXTERNAL.         *)
(***************************************************************************)
EXTENDS Integers, FiniteSets, FiniteSetsExt

CONSTANTS
    Messages,      \* what the transport carries
    Wholes,        \* the client's messages: the set of the parts of each
    Identified,    \* the messages that have a messageId
    Buffer,        \* THRESHOLD_BUFFER (12 s)
    Lead,          \* how far before initialize() a fresh session starts (10 s)
    ShortLoss,     \* a connection lost for less than this needs no catch-up (60 s)
    Memory,        \* how long a received message is remembered (10 min)
    CatchupLimit,  \* THRESHOLD_FOR_CATCHUP (23 h 50 min)
    Retention,     \* EXTERNAL: how long the history keeps a message (a day)
    SdkWindow,     \* EXTERNAL: an interruption up to which the SDK loses nothing
    NoticeWithin,  \* EXTERNAL: how soon an interruption shows as a network problem
    Prompt,        \* EXTERNAL: whether it always shows before the link is back
    FetchTimeout,  \* EXTERNAL: how long a fetch may take
    Fetches,       \* bound of the model: identities for fetches under way
    MaxTime        \* bound of the model: the last instant

ASSUME DeliveryAssumption ==
    /\ IsFiniteSet(Messages) /\ IsFiniteSet(Fetches)
    /\ Wholes \subseteq (SUBSET Messages) \ {{}}
    /\ UNION Wholes = Messages
    /\ \A v, w \in Wholes : v # w => v \cap w = {}
    /\ Identified \subseteq Messages
    /\ {Buffer, Lead, ShortLoss, Memory, CatchupLimit, Retention, SdkWindow,
        NoticeWithin, FetchTimeout} \subseteq Nat
    /\ MaxTime \in Nat \ {0}
    /\ Prompt \in BOOLEAN

\* What the thresholds of the code presuppose of the transport and of the history service:
\* an interruption is reported before it is made good; one that passes for short when it is
\* reported late, or that falls into a fetch, is short enough for the SDK to lose nothing;
\* and the history keeps what a catch-up asks for until it is answered.
Timely ==
    /\ Prompt
    /\ ShortLoss + NoticeWithin <= SdkWindow + 1
    /\ FetchTimeout <= SdkWindow
    /\ CatchupLimit + FetchTimeout <= Retention

VARIABLES
    now,        \* Date.now(), also the timestamps of the transport
    link,       \* of the transport: never attached yet, up, or down
    downSince,  \* when the link last went down
    noticed,    \* the transport has reported the interruption
    at,         \* when each message was published, 0 if it was not
    flight,     \* the messages the transport is still to deliver
    pending,    \* _subscriptionsPending
    last,       \* _lastMessageReceivedAt, 0 if none
    connLost,   \* _connectionLostAt, 0 if unset
    fetches,    \* the calls of catchUp() suspended on fetchHistory()
    received,   \* _messagesReceived: when, 0 if not in the list
    partial,    \* _partialMessages: the parts waiting for the others
    emitted,    \* how often each whole message was emitted to the client
    seen,       \* history: the messages ever processed
    over        \* history: Reset was emitted

transport == <<link, downSince, noticed, at, flight>>
control == <<pending, last, connLost, fetches, over>>
handed == <<received, partial, emitted, seen>>
vars == <<now, transport, control, handed>>

Start == 1
Times == 0..MaxTime
Published == {m \in Messages : at[m] > 0}

Idle == [status |-> "idle", since |-> 0, began |-> 0, got |-> {}]
FetchStates ==
    [status : {"idle", "asked", "answered"}, since : (-(Buffer + Lead))..MaxTime,
     began : Times, got : SUBSET Messages]

--------------------------------------------------------------------------------
(* Processing messages. *)

\* MUTANT: the list of received messages is not looked up.
NewAlways(M) == M

\* What is left of M when the duplicates are dropped.
New(M) == {m \in M : received[m] = 0 \/ m \notin Identified}

\* MUTANT: the parts of a message are dropped with the last one to arrive.
CompleteOnlyAtOnce(M) == {w \in Wholes : w \subseteq New(M)}

\* The messages all of whose parts are there, now that M arrives.
Complete(M) ==
    {w \in Wholes : w \cap New(M) # {} /\ w \subseteq partial \cup New(M)}

\* Bound of the model: a second emission is as telling as a third.
Again(n) == IF n = 0 THEN 1 ELSE 2

\* _processMessages(), _processPartial() and cleanUpMessagesReceived().
ProcessMessages(M) ==
    /\ received' = [m \in Messages |->
                        IF m \in New(M) \cap Identified THEN now
                        ELSE IF received[m] < now - Memory THEN 0
                        ELSE received[m]]
    /\ partial' = (partial \cup New(M)) \ UNION Complete(M)
    /\ emitted' = [w \in Wholes |-> IF w \in Complete(M) THEN Again(emitted[w]) ELSE emitted[w]]
    /\ seen' = seen \cup M

--------------------------------------------------------------------------------
(* The transport: EXTERNAL, but for the guards of what the code is told. *)

Publish(m) ==
    /\ ~over
    /\ at[m] = 0
    /\ at' = [at EXCEPT ![m] = now]
    /\ flight' = IF link = "never" THEN flight ELSE flight \cup {m}
    /\ UNCHANGED <<now, link, downSince, noticed, control, handed>>

Attach ==
    /\ ~over
    /\ link = "never"
    /\ link' = "up"
    /\ UNCHANGED <<now, downSince, noticed, at, flight, control, handed>>

LinkDown ==
    /\ ~over
    /\ link = "up"
    /\ link' = "down" /\ downSince' = now /\ noticed' = FALSE
    /\ UNCHANGED <<now, at, flight, control, handed>>

\* The SDK takes up where it left off, as long as it was not away for too long.
LinkUp ==
    /\ ~over
    /\ link = "down"
    /\ Prompt => noticed
    /\ link' = "up" /\ downSince' = 0 /\ noticed' = FALSE
    /\ flight' = IF now - downSince <= SdkWindow THEN flight
                 ELSE {m \in flight : at[m] >= now - SdkWindow}
    /\ UNCHANGED <<now, at, control, handed>>

\* Time passes only when the transport and the fetches are within their limits.
Tick ==
    /\ ~over
    /\ now < MaxTime
    /\ link = "up" => \A m \in flight : at[m] + Buffer > now
    /\ link = "down" /\ Prompt /\ ~noticed => now < downSince + NoticeWithin
    /\ \A f \in Fetches : fetches[f].status # "idle" => now < fetches[f].began + FetchTimeout
    /\ now' = now + 1
    /\ UNCHANGED <<transport, control, handed>>

\* The history service answers with what it has since the instant asked for.
HistoryAnswers(f) ==
    /\ ~over
    /\ link = "up"
    /\ fetches[f].status = "asked"
    /\ fetches' = [fetches EXCEPT ![f].status = "answered",
                                  ![f].got = {m \in Published : /\ at[m] >= fetches[f].since
                                                                /\ at[m] + Retention >= now}]
    /\ UNCHANGED <<now, transport, pending, last, connLost, over, handed>>

--------------------------------------------------------------------------------
(* The Broadcaster. *)

\* MUTANT: the overlap is added to the watermark, where it must be taken off.
WatermarkAhead(m) == IF at[m] > last /\ ~pending THEN at[m] + Buffer ELSE last

\* MUTANT: the watermark moves while subscriptions are pending.
WatermarkAlways(m) == IF at[m] > last THEN at[m] ELSE last

Watermark(m) == IF at[m] > last /\ ~pending THEN at[m] ELSE last

\* onMessage().  The transport may swap messages less than Buffer apart.
OnMessage(m) ==
    /\ ~over
    /\ link = "up"
    /\ m \in flight
    /\ \A other \in flight : at[other] + Buffer >= at[m]
    /\ flight' = flight \ {m}
    /\ last' = Watermark(m)
    /\ ProcessMessages({m})
    /\ UNCHANGED <<now, link, downSince, noticed, at, pending, connLost, fetches, over>>

\* netHiccup(), with confirmSubscriptions() and resubscribe(): PubNub confirms
\* nothing, so the connection counts as lost as of now.  With active failures
\* their retry takes care of the rest.
OnNetHiccup ==
    /\ ~over
    /\ noticed' = (link = "down")
    /\ \/ pending /\ UNCHANGED <<pending, connLost>>
       \/ ~pending /\ pending' = TRUE /\ connLost' \in {now, connLost}
    /\ UNCHANGED <<now, link, downSince, at, flight, last, fetches, over, handed>>

\* MUTANT: the catch-up starts at the last message itself.
SinceWithoutBuffer == IF last > 0 THEN last ELSE Start - Lead

Since == IF last > 0 THEN last - Buffer ELSE Start - Lead

\* MUTANT: any loss is short.
LostShortlyEver == connLost > 0

LostShortly == connLost > 0 /\ now - connLost < ShortLoss

SkipHistory ==
    /\ LostShortly
    /\ connLost' = 0
    /\ pending' = FALSE
    /\ UNCHANGED <<last, fetches, over>>

\* The limits on the number of fetches are those of module Broadcaster: here they
\* may or may not be reached.
ForceReset ==
    /\ ~LostShortly
    /\ over' = TRUE
    /\ UNCHANGED <<pending, last, connLost, fetches>>

AskHistory ==
    /\ ~LostShortly
    /\ now - Since <= CatchupLimit
    /\ \E f \in Fetches :
        /\ fetches[f] = Idle
        /\ fetches' = [fetches EXCEPT ![f] =
                        [status |-> "asked", since |-> Since, began |-> now, got |-> {}]]
    /\ UNCHANGED <<pending, last, connLost, over>>

\* setConnected() with the last of the unsubscribed channels: catchUp().
OnConnected ==
    /\ ~over
    /\ link = "up"
    /\ SkipHistory \/ ForceReset \/ AskHistory
    /\ UNCHANGED <<now, transport, handed>>

\* catchUp() resumes when the answer has come over the same link: the messages are
\* processed and the watermark is that of the newest one, whatever it was.
FetchResumes(f) ==
    /\ ~over
    /\ link = "up"
    /\ fetches[f].status = "answered"
    /\ LET M == fetches[f].got IN
        /\ last' = IF M = {} THEN last ELSE Max({at[m] : m \in M})
        /\ ProcessMessages(M)
    /\ fetches' = [fetches EXCEPT ![f] = Idle]
    /\ pending' = FALSE
    /\ UNCHANGED <<now, transport, connLost, over>>

\* ... with too many messages.
FetchOverflows(f) ==
    /\ ~over
    /\ link = "up"
    /\ fetches[f].status = "answered" /\ fetches[f].got # {}
    /\ over' = TRUE
    /\ fetches' = [fetches EXCEPT ![f] = Idle]
    /\ UNCHANGED <<now, transport, pending, last, connLost, handed>>

\* ... or with an error: all channels are subscribed to again.
FetchFails(f) ==
    /\ ~over
    /\ fetches[f].status # "idle"
    /\ pending' = TRUE
    /\ fetches' = [fetches EXCEPT ![f] = Idle]
    /\ UNCHANGED <<now, transport, last, connLost, over, handed>>

--------------------------------------------------------------------------------

\* initialize() and the first subscribe() have been called.
Init ==
    /\ now = Start
    /\ link = "never" /\ downSince = 0 /\ noticed = FALSE
    /\ at = [m \in Messages |-> 0] /\ flight = {}
    /\ pending = TRUE /\ last = 0 /\ connLost = 0
    /\ fetches = [f \in Fetches |-> Idle]
    /\ received = [m \in Messages |-> 0] /\ partial = {}
    /\ emitted = [w \in Wholes |-> 0] /\ seen = {}
    /\ over = FALSE

Next ==
    \/ \E m \in Messages : Publish(m) \/ OnMessage(m)
    \/ Attach \/ LinkDown \/ LinkUp \/ Tick
    \/ OnNetHiccup \/ OnConnected
    \/ \E f \in Fetches :
        HistoryAnswers(f) \/ FetchResumes(f) \/ FetchOverflows(f) \/ FetchFails(f)

Spec == Init /\ [][Next]_vars

--------------------------------------------------------------------------------
(* Properties. *)

\* Every variable has its type.
TypeOK ==
    /\ now \in Times /\ last \in Times /\ connLost \in Times
    /\ link \in {"never", "up", "down"} /\ downSince \in Times /\ noticed \in BOOLEAN
    /\ at \in [Messages -> Times] /\ received \in [Messages -> Times]
    /\ flight \subseteq Published /\ partial \subseteq seen /\ seen \subseteq Published
    /\ pending \in BOOLEAN /\ over \in BOOLEAN
    /\ fetches \in [Fetches -> FetchStates]
    /\ emitted \in [Wholes -> 0..2]

\* The next catch-up will fetch whatever has neither been processed nor is still to
\* be delivered: the watermark never passes a message that was missed.
NothingSlipsThrough ==
    ~over => \A m \in Published : m \in seen \/ m \in flight \/ at[m] >= Since

\* With the link up and no cycle under way, every message has been processed or is
\* still to be delivered: whoever is told Connected has missed nothing.
SettledIsCaughtUp ==
    link = "up" /\ ~pending /\ ~over => Published \subseteq seen \cup flight

\* "each time we encounter a disconnected situation, we'll fetch the message history
\* from this point going forward" (broadcaster.ts:304): a cycle that a network hiccup
\* has started ends only when what was published meanwhile has been caught up with.
CycleEndsCaughtUp == [][pending /\ ~pending' => Published \subseteq seen' \cup flight]_vars

\* A message split into parts is emitted once all of them have arrived.
PartsAreAssembled == \A w \in Wholes : w \subseteq seen => emitted[w] > 0

\* "we avoid sending duplicate messages up the chain by maintaining a list of the
\* messages we've already received" (broadcaster.ts:323): however live delivery and
\* catch-up overlap, a message with an identity is emitted once.
NoMessageTwice == \A w \in Wholes : w \subseteq Identified => emitted[w] <= 1

\* The Broadcaster is such a feed.
Contract ==
    INSTANCE Feed WITH published <- Published, given <- seen, coming <- flight,
                       upToDate <- link = "up" /\ ~pending

ImplementsFeed == Contract!Spec

================================================================================
