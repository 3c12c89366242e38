# A formal model of the CodeStream agent

The CodeStream *agent* (`src/shared/agent`) is a language server, written in
TypeScript, that the VS Code, JetBrains and Visual Studio clients start. It talks
to the CodeStream API server over HTTP, receives real-time messages over PubNub or
SocketCluster, keeps the team's data in an in-memory cache and answers the
requests of the editor and of its webview.

Everything in the agent runs on one JavaScript thread. What is hard about it is
not parallelism but *suspension*: every `await`, timer and callback lets any other
handler run before the code after it does. Tests drive one scenario at a time,
with the answers arriving in the order the author had in mind.

This directory models the parts of the agent where that matters most, checks them
with TLC on small instances and proves some of the results with TLAPS for all
values of the constants. Paths below are relative to `src/shared/agent/src/`.

## The system's parts

| Part | State it keeps | Operations | What is hard | What makes it correct |
|---|---|---|---|---|
| **Broadcaster, subscriptions** `broadcaster/broadcaster.ts` | subscriptions by channel, queue of channels, `_subscriptionsPending`, active failures, timers, limits | `subscribe`, `unsubscribe`, `dispose`; the transport's statuses; two kinds of timer; `netHiccup`, `confirmSubscriptions`, `catchUp` across their awaits | several timers and suspended handlers at once, each with a snapshot of channels | no requested channel is forgotten; who waits waits for something that will happen; Connected is true; a Reset can be recovered from |
| **Broadcaster, messages** same file | received messages, message parts, `_lastMessageReceivedAt`, `_connectionLostAt` | `onMessage`, `_processMessages`, `catchUp`, clean-up | live messages overlap with history; thresholds against the clock | nothing is missed between a failure and Connected; nothing is emitted twice; parts are put together |
| **History paging** `broadcaster/pubnubHistory.ts`, `socketClusterHistory.ts` | messages fetched so far, earliest timetoken by channel | slices of channels, pages, RESET limits | 500-channel slices, 25- and 100-message pages, 17-digit timetokens | every message since the instant asked for is returned, in order, or RESET |
| **PubNub transport** `broadcaster/pubnubConnection.ts` | listener, ping interval | maps SDK categories to statuses, access-denied handling, ping | the ping interval survives `disconnect()` | statuses name channels the SDK serves |
| **SocketCluster transport** `broadcaster/socketClusterConnection.ts` | its own subscription map, socket | subscribe, confirm, reconnect | some of its callbacks are synchronous | as PubNub; what is unsubscribed stays so |
| **Client of the broadcaster** `api/codestream/events.ts` | the Disposable | subscribes by team and stream, unsubscribes on NonCriticalFailure, translates messages | unsubscribes inside a status callback | channels asked for = channels the team has |
| **Entity cache and managers** `managers/cache/*`, `managers/baseManager.ts`, `entityManager.ts`, `operations.ts` | unique and group indexes by entity | `get`, `getGroup`, `set`, `resolve` with `$set/$push/...` operations, `ensureCached` | a fetch in flight while a real-time update arrives | a newer version is never replaced by an older one; indexes agree |
| **Unread counters** `api/codestream/unreads.ts` | counters by stream, `_computePromise` | `compute`, `update`, `clear` | three awaits in the middle of the arithmetic | counters equal what the posts and last reads say |
| **Real-time processing** `api/codestream/codestreamApi.ts` 770-900 | the blocking promise | messages that make others wait | two blocking messages, a rejected promise | no message overtakes a blocking one; nobody waits for ever |
| **Posts** `managers/postsManager.ts` | the posts of a stream in order | binary search, insertion, pages | gaps; a page fetched while messages arrive | a cached post is found; pages have nothing missing |
| **Session** `session.ts` | login status, echo timer, server alerts | login, logout, version checks, echo | concurrent logins; the timer is overwritten | one session at a time; the status shown is that of the connection |
| **HTTP, retries, limits** `system/fetchCore.ts`, `system/newRelicResponseInterceptor.ts`, `rateLimits.ts`, `api/codestream/codestreamApi.ts` 2474-2544, 2800-2944 | retry count, the token held, refresh under way, lock, sliding windows | fetch with retry, token refresh | retry of what was done; a refresh shared by many; refresh tokens that are used up | an expired token is not noticed by the requests; nobody waits for ever; the status told is true |
| **Gate and helpers** `system/decorators/gate.ts`, `system/function.ts` | promise by key | `gate`, `debounceMerge` | a caller between settle and removal | one call at a time by key, none lost |
| **Marker locations** `markerLocation/changeset.ts`, `calculator.ts` | the change being read; the next line and the active locations of a calculation | changes from a diff; lines moved, found again or trimmed | boundaries of hunks and changes; many locations at once | a marker follows its line; a touched one is flagged; it is the same alone or with others |
| **Documents, git, reviews, providers, editor clients** | little | requests | pure I/O | not modelled |

How they interact: the session logs in and creates the API object; that creates a
Broadcaster client (`events.ts`), which calls `Broadcaster.initialize` and
`subscribe` and receives statuses and messages through emitters. The Broadcaster
calls the transport (subscribe, confirm, fetch history) and is called back with
statuses and messages. Messages pass through the real-time processing into the
cache and the unread counters, while requests from the editor read and fetch the
same caches. Statuses reach the session, which shows them and, on Reset, restarts.

## Plan

| # | Module | Contents | Standing |
|---|---|---|---|
| 1 | `Broadcaster` | the subscription state machine over PubNub | modelled, checked, proved |
| 2 | `Feed`, `BroadcasterDelivery` | what the client is promised; messages, history, clock | modelled, checked, proved, with the refinement |
| 3 | `History` | slices, pages and limits of `pubnubHistory.ts`, against "all messages since" | modelled, checked, proved |
| 4 | `RealTime` | blocking messages, the cached user and posts, the unread counter, all with their awaits | modelled, checked, proved |
| 5 | `PostIndex` | the ordered collection of posts, as operators; `RealTimePosts` relates it to `RealTime` | modelled, checked, proved |
| 6 | `TokenRefresh` | retries, the interceptor, the shared refresh of the token, the status told | modelled, checked, proved |
| 7 | `SocketCluster` | its connection and history, composed with the Broadcaster: synchronous callbacks | left |
| 8 | `Session` | login, logout, echo timer | left |
| 9 | `RateLimits`, `Gate` | the sliding windows; one promise among callers | left |
| 10 | `MarkerLocation` | the changes of a diff, and the lines of the locations calculated from them | modelled, checked, proved |

Proofs are in a module beside the one they are about (`BroadcasterProofs`, `DeliveryProofs`,
`HistoryProofs`, `MarkerLocationProofs`, `TokenRefreshProofs`, and for `RealTime` three: `RealTimeProofs`,
`RealTimeCounterProofs`, and `PostIndexProofs` with the collection of posts); what
each assumes and rests on is said below with the module.

## Broadcaster: the subscription state machine

### How the model corresponds to the code

The fields of the class are the variables of the module, under the names of the
code without underscore (`subs` is `_subscriptions`, `pending` is
`_subscriptionsPending`, and so on). A private method is an operator from the
fields, gathered in a record, to the fields: `SubscribeToChannels(s, C)` is
`subscribeToChannels(C)`, and calls in the code are applications in the model. An
action is one *callback*, the unit the event loop runs without interruption: a
guard and `Become(method(State))`. A method that awaits ends, in the model, by
adding to `callbacks`, a bag of what is outstanding with the snapshot of channels
each holds: resubscribe timers, `confirmSubscriptions()` and `catchUp()` suspended
on the transport. Any other action may happen before it resumes. Exceptions are
modelled: `resubscribe()` throws on a channel that has been removed, having
counted the attempt and marked some of the channels (`ResubscribeThrows`).

Abstractions:

* `connLost` and `recentFetches` stand for times. A connection lost is *fresh* (less
  than 60 s ago) until `LostConnectionAges`; the fetches counted against the limit
  leave one by one with `HistoryWindowSlides`. One window stands for that of the
  minute and that of the hour, which have the same effect.
* `numResub` saturates at `RetryLimit`, the only value it is compared with.
* `asked` is the SDK's part: the channels it has been told to serve. It may report
  them, in any grouping, as connected or failed, at any time until disposal. PubNub
  is assumed to report nothing else. All of its callbacks are asynchronous.
* `emitted` holds the statuses of the last step only.
* `wasReset`, `careless` and `disposed` are history: nothing in the code reads them
  except that after disposal the listeners are gone. `careless` is set when the
  client unsubscribes while work is outstanding.
* Left out: the `simulate...` hooks, `testMode`, logging, and the reports of history
  fetches (`announceHistoryFetch`).

### What the runs show

* **broadcaster_safety** (two channels, 239 000 states). `QueuedOnlyWhilePending` holds
  always. Until the first *disturbance* (a Reset, giving up, disposal, or an
  `unsubscribe` in the middle of work) also: an unsubscribed channel always has a
  timer that will try it (`NoForgottenChannel`); pending or owing a Connected means
  that something is outstanding (`PendingIsDriven`); failures that are ignored are
  being retried (`FailuresAreRetried`); no suspended handler holds a channel that
  has been removed (`SnapshotsAreKnown`).
* **broadcaster_liveness** (one channel). When requests and failures stop and the
  network gives what is missing a chance again and again, every cycle ends with
  nothing pending and the client told Connected (`EveryCycleSettles`); a token that is
  never accepted leads to Aborted (`BadTokenAborts`).
* **broadcaster_connected_early** and **broadcaster_queue_stuck** show that Connected may be
  premature, and why the properties above stop at an unsubscribe. They are the first two
  findings below. The properties stop at a Reset because `reset()` (line 874) leaves
  `_subscriptionsPending` set and clears the only timer: were the client to subscribe again,
  as the comment on `reset()` has it, it would only be queued. The client makes a new
  Broadcaster instead.

### Bounds

Two channels are enough for one to be connected, failing or removed while the
other is not; channels are interchangeable, so they are a symmetry set.
`MaxCallbacks` = 2 lets two resumptions overlap, which is what every interleaving
hazard listed in `PROJECT.json` takes; it is a guard on every step (`WithinBound`).
`HistoryLimit` = 0 makes the second fetch within the window the one that is
refused later, so that the limit, one less and one more all occur. `RetryLimit` is 1,
or 2 where the number of retries matters. The liveness run has one channel because
the tableau of a formula with strong fairness is too large for two. The safety run
uses a VIEW without `emitted`, which no action reads, without `hadTrouble`, which
only decides what is emitted, and with `Undisturbed` in place of the history variables;
that their types hold in the states it merges is proved.
The runs do not look for deadlocks: after disposal or Aborted nothing is left to
happen, and a full `MaxCallbacks` may stop a small instance.

### Fairness

`FairSpec` has weak fairness of the status timer, of the resubscribe timers, and of
the awaits: Node fires timers that are due, and the SDK's promises settle (its
requests have timeouts of their own). Nothing is assumed of the client. The premise
`NetworkRecovers` is an assumption about the world: it appears in the property, not
in the specification. Fairness is stated up to the first disturbance.

### What is proved

`BroadcasterProofs` proves, for every set of channels, limit and bound:
`TypeCorrect`, `QueueIsPending`, `NothingForgotten`, `NothingStuck`, `FailuresRetried`
and `SnapshotsKnown`, each `Spec => []P` for a property of the safety run, from
`Invariance`, `Spec => []IInv`. The only assumption is `ConstantsAssumption`.

None of the properties is inductive. That a timer is running when a channel is
unsubscribed depends on the timer's handle not being stale, that a failure is
ignored rightly depends on its retry, that `resubscribe` does not throw depends on
snapshots being known, and all of these depend on each other. `IInv` is
`Good(State)`: `Core` (type, queue, no forgotten channel, retries, snapshots, handle)
and `Driven` (pending means busy). The methods do not each keep it, for they are
called in the middle of handlers, when it is broken; so each method has a contract,
a LEMMA such as `DrainQueueGood` (from `Mid`, which lets channels be without a timer, to
`Good`) or `FullySubscribedGood` (from `Core` to `Good`). The contracts follow the call graph
of the code from the callees up, and the proof that a step keeps the invariant has
one step for each callback, citing the contracts of the methods it calls.

## BroadcasterDelivery: messages

### How the model corresponds to the code

Losing or repeating a message is a question of time, so this module has a clock,
`now`, and writes every threshold of the code as a constant: `Buffer` is
`THRESHOLD_BUFFER` (12 s), `ShortLoss` the 60 s of line 508, `Memory` the ten minutes of
line 907, `CatchupLimit` `THRESHOLD_FOR_CATCHUP`, `Lead` the ten seconds before
`initialize()`. Of the subscription state machine there remains `pending`: a hiccup
sets it (`OnNetHiccup`), the last channel connected leads to `catchUp()`
(`OnConnected`: skip the history, reset, or fetch), and the resumed fetch ends the
cycle (`FetchResumes`) or starts over (`FetchFails`). Several fetches may be
suspended at once. Messages are model values; `Wholes` says which are the parts
of one client message, `Identified` which have a `messageId`. Behaviours are followed to
the first Reset, after which the client starts afresh.

The transport and the history service are external; what the model relies on is
named: a message takes less than `Buffer` to be delivered and is swapped only with
messages closer than that; an interruption of at most `SdkWindow` is made good by the
SDK; a longer one loses what is older; the history keeps messages for
`Retention`; a fetch takes at most `FetchTimeout`, and its answer comes while the
link is up; when `Prompt`, an interruption shows as a network problem within
`NoticeWithin` and before the link is back.

`Feed` is the abstract specification: messages are published, on their way and
given; the feed may say that it is up to date only when everything published has
been given or is on its way, and while it says so no message may be lost. It has
no clock, no watermark, no history. The refinement maps *up to date* to "link up and
nothing pending".

### What the runs show

* **delivery_safety** (`Prompt` = TRUE, three messages, two parts of one and one whole,
  2.2 million states). `NothingSlipsThrough`: what the next catch-up will ask for
  contains all that was missed, however fetches and live messages overlap.
  `SettledIsCaughtUp`: when the cycle is over everything was processed or is on its
  way. `PartsAreAssembled`, `NoMessageTwice` (while the memory is long enough), and
  `ImplementsFeed`: the whole behaves as the abstract feed.
* **delivery_sleep** (`Prompt` = FALSE, as when a laptop sleeps and the agent notices on
  waking) and **delivery_repeat** (`Memory` shorter than the time of the run) are findings.

### Bounds

Time units are chosen so that each threshold is crossed and not crossed within
`MaxTime` = 4 (5 for the repeated message): `Buffer` = `ShortLoss` = `SdkWindow` = 1 lets a
loss be short or long, `CatchupLimit` = 3 lets a fetch be refused, with
`Retention` one longer as in the code (ten minutes of a day).
Two fetches may be under way. `emitted` counts to 2. The VIEW `RelevantTimes` forgets
everything once the behaviour is over, the time of a connection lost too long ago, which is treated like none, and, when
`Memory >= MaxTime`, when a message was received, which then is never compared.
Parts of the same message and fetches are interchangeable. Deadlocks are not looked
for: the clock stops at `MaxTime` and behaviours end with `over`.

### What is proved

`DeliveryProofs` proves all that the safety run checks, for any messages, parts, fetches and
thresholds, from `DeliveryAssumption` (types, and that every message is part of one whole).
What depends on the transport has the hypothesis `Timely`, stated beside the assumption and
evaluated by TLC on the run:

* `Prompt`: an interruption is reported before it is made good. Without it
  **delivery_sleep** is a counterexample.
* `ShortLoss + NoticeWithin <= SdkWindow + 1`: a loss the agent takes for short (60 s from when
  it *noticed*, line 508) is one the SDK makes good.
* `FetchTimeout <= SdkWindow`: an interruption that begins and ends within one fetch is made
  good by the SDK, as its report may be answered by that fetch.
* `CatchupLimit + FetchTimeout <= Retention`: the history still has what was asked for when it
  answers. In the code the limit is ten minutes short of the day the service keeps.

The instance of **delivery_safety** meets each of them with equality, so that none
is idle. `NoneTwice` has the hypothesis that the session is no longer than the memory of
received messages, without which **delivery_repeat** is a counterexample.

| Theorem | Property | Inductive invariant |
|---|---|---|
| `TypeCorrect` | `TypeOK` | `Base`: with the type, no instant noted lies in the future |
| `PartsAssembled` | `PartsAreAssembled` | `Handed`: a whole is emitted iff all its parts were processed |
| `NoneTwice` | `NoMessageTwice` | `Remembered`: what was emitted is among the received |
| `NothingSlips`, `SettledCaughtUp`, `CyclesCatchUp` | `NothingSlipsThrough`, `SettledIsCaughtUp`, `CycleEndsCaughtUp` | `Delivered` |
| `FeedImplemented` | `ImplementsFeed` | `Delivered` |

`Delivered` is the argument why catching up works. The property says only that what is
missing is not older than the watermark; this is kept by a fetch because what it asked for
began no later than anything missing (`Fetched`), which was so when it began because an interruption
in the middle of it either is one the SDK makes good or has been noticed and started a cycle
of its own (`Linked`, `InTime`). None of these holds without the others.

The refinement is shown step by step: `Publish` is the feed's publishing; a live message and the end of a fetch
give; the link going down or up, a hiccup and a failed fetch begin trouble or
leave it; skipping the history settles. All other steps stutter. `SettledCaughtUp` is what
makes *settle* possible, and `Delivered` that nothing is lost while the feed calls itself up to
date. The maximum that the watermark is set to exists because the sets of
messages are finite; that is proved by well-founded induction on sets of naturals.

## History: slices and pages

`fetchHistory()` takes the channels in slices, asks for a batch of the newest messages
of all channels of a slice (`BatchAnswers`), and pages backwards through every channel
whose batch was full (`PageAnswers`, all channels at the same time, as `Promise.all` does).
The model suspends where the code awaits; `Await` is the code after an await that
decides what to ask for next. `_allMessages` is a set of messages by channel; sorting
them is left out. A message is the last digits of its timetoken: timetokens have 17
digits, JavaScript doubles between 2^53 and 2^54 are even, and `Rounded` is what
`parseInt` makes of one, so `BeforeBatch` is `earliest - 1` as it is computed. The
service is external: it answers with the newest messages of a range that includes its older
end and excludes its newer one.

* **history_pages** (160 000 states): `NothingMissed`, when messages of the same channel are
  at least 3 timetokens (300 ns) apart; with 2 it fails, as `earliest - 1` may be rounded
  down. `ResetOnlyIfTooMany`: the pages of one channel are never counted against
  another. `FetchEnds`, with weak fairness of the answers: the SDK answers or times out.
* **history_slices**: the finding on slices.

Bounds: batches of 1 and pages of 3, at most 2, so that channels can have no messages, one
batch, exactly one page more (an empty page follows), and too many. `Various` makes
every remainder by four, on which the rounding depends, occur where a page ends. One
message may be published meanwhile. The clock is either right or behind some of the
messages, in which case the code stops early and nothing is claimed.

### What is proved

`HistoryProofs` proves the three safety properties of **history_pages** and the general form of
the finding, from `HistoryAssumption`, for any set of channels, whatever they hold, any
sizes of slices, batches and pages:

* `TypeCorrect` and `ResetsOnlyIfTooMany`, from `IInv`. That a Reset is due to one channel alone is
  inductive only with a count: a channel with `depth` pages has fetched at least
  `BatchSize + depth * (PageSize - 1)` messages (`Paged`). It is not `PageSize`, for as timetokens are rounded a page may begin with the
  message at which the one before ended.
* `NoneMissed`: `Spec => []NothingMissed` if the channels fit into one slice and messages of a channel are three
  ticks apart. Both are needed: the code fetches no other slice, and two ticks
  apart a message may be equal to the rounded bound. The invariant (`Fetched`) is that whatever is owed and not yet fetched lies
  strictly before the point from which the next page is asked for.
* `OnlyFirstSliceFetched`: of channels beyond the first slice nothing is ever fetched. **history_slices** shows it
  of three channels; the theorem says that it is so for 501 of them.

They rest on lemmas about the service: what a request for the newest messages of a range returns
(`Newest`), that it has an earliest one (`Min`, a CHOOSE over a finite set, proved to exist by well-founded
induction), and how far `Rounded` can be off.

## RealTime: messages, caches and the unread counter

### How the model corresponds to the code

The Broadcaster gives its messages to `onPubnubMessageReceivedWithBlocking()`
(`codestreamApi.ts:779`), which starts to process each of them at once: all that are
not blocked go on concurrently, suspended wherever they await. `log` is what the server has published, in
order, `delivered` how much of it has come, `st[m]` how far the processing of message `m` is.
Three kinds of messages stand for all:

* a *stream* makes the others wait (`blockUntilProcessed`, `events.ts:240`). `Deliver` is the
  code up to the first await for a whole batch: a message after a stream waits, and so do
  those of later batches while `blocker` (`_messageProcessingPromise`) is set. `Release` is
  the code after that await, which does not look again;
* a *post* of another member in the one stream whose unread posts are counted. `ResolvePost`
  finds it cached (then it counts as edited), stores it, or waits for the initialisation
  of the stream's posts (`ensureStreamInitialized()`, `InitAnswer`) and stores it then
  (`StorePost`); `Count` is the end of `Unreads.update()`;
* a change of the *user*, whose mark of what was read (`lastReads`) is all that matters here. `GetLastReads` and
  `GetLastReadItems` are the two awaits of `Unreads.get()`, `ReadMe` and `ApplyMe` are
  `ManagerBase.resolve()` before and after its await of `cacheGet()`, `ServerAnswersMe` and
  `MeAnswer` its fetch, and `ComputeIfMoved` the start of a new computation.

`comp[c]` is one call of `Unreads.compute()`, which resets the counter at once, asks the
server which streams have unread posts, cuts them out of the cached ones and adds them. (`PostsRead` is
both reads of the cache, `unreads.ts:296` and 303, in one step.)
`lastReads` objects have identity (`heap`): a directive is applied to the cached object in
place, so it changes also what a computation suspended with the same object will read.
JavaScript runs every continuation that waits for no answer before it takes the next event;
`Idle` says that there is none, and guards every action that is an event.

`PostIndex` has the ordered collection of posts (`PostCollection`) as operators: the binary
search, `updateOrInsert()`, `getBetween()`, `getBefore()`, `add()`. `RealTime` has a
set of posts in its place; `RealTimePosts` relates the two.

### What the run shows

**realtime_safety** (576 000 states):

* `BlockersGoAlone`: nothing published after a stream is processed while it is being
  resolved, across batches. `LostOnlyByFailure`: no message is given up except for a request that
  failed. `EverythingSettles`: whatever fails, everything delivered is processed in the end.
* `UserIsCurrent`: when all is over the cached user is the server's, though changes are
  applied concurrently, some as directives, some by fetching.
* `UnreadsAreExact`: when all is over the counter is right. `NoUnreadIsMissed`: it is never too small,
  under fewer conditions: computations may overlap updates, and a user may be ahead of its messages.
* `FirstIsCachedOrComes`: a computation that cuts the unread posts out of the cache finds the first of them there, or
  its message has yet to be processed, and will count it. In the second case the code fetches the
  page in between (`PageAnswer`).
* `SearchFinds`, `InsertsInOrder`, `PagesAreWhole`: for all collections of numbers up to 6 the
  search finds, insertions keep the order and pages are whole; and in every state of the cache the collection
  does what the model does to the set. An insertion is claimed to do so when its search does not throw (below).

These hold under conditions, which are the code's behaviour and not an artefact. Each
condition is a history variable, and without it TLC finds the property violated:

* `piled`: two streams wait for a third. Both go on when it is done, neither looks again
  whether another blocks, and each deletes the promise whosever it is. A post may then
  pass its stream, which `Count` does not find: the post is not counted.
* `overlap`, with an `"update"`: an update during a computation counts its post, which the computation may have
  read from the cache. The counter is too high until the next computation, never too low.
* `overlap`, with a `"computation"`: one runs together with another, or a second one waits for it. Computations that
  wait for the same promise start together when it is settled, and each adds what it has
  counted. The counter is then too high, but it may also be too low: the first to end clears `_computePromise` (`unreads.ts:341`),
  which is the other's, so that a computation for a newer mark does not wait for those before; an older
  one that did wait then resets the counter after it, and is the last to count.
* `ahead`: the first message of a stream initialises it with what the server has, also with posts
  whose messages have not come yet, or wait for another stream; the page of a computation likewise.
  These are then taken for edited, and not counted: the counter is too low.
* `overtaken`: an answer replaces whatever is cached, also a newer version that was applied
  while it was under way. The user stays old until the next change, whose `before` does not match,
  so that it is fetched.
* `leapt`: a user that is fetched may be newer than the message it is fetched for, and its mark ahead of the
  posts' messages. A post that was read already is then counted when its message comes, and the message with
  the change that read it is skipped, as that version is cached. The counter is too high.
* `unnoticed`: the mark is copied before the two awaits of `resolve()` and compared after them (`codestreamApi.ts:946`,
  966). If other changes are applied meanwhile, and this one brings the mark back to where it was,
  nothing is computed, and the counter stays that of the other mark: too high, or too low.
* a failed request: the rejected `_computePromise`, and the rejected initialisation of a stream,
  are never replaced. Every later computation and update, or every later post of that
  stream, fails with them.

`leapt` and `unnoticed` take longer histories than this run has: with three posts, five changes of the user, one
stream, nine messages and no failure TLC finds them, and nothing else. That computations at once make the
counter too low takes four posts, six changes of the user and ten messages, and a search that is
directed to it by a constraint. Simulation with five posts, eight changes and fourteen messages finds
nothing against `NoUnreadIsMissed` as it stands, which is proved below.

The search throws for a number missing from four or more posts when the halving leaves no post:
3 among 1, 2, 4, 5. `updateOrInsert()` then throws (`postsManager.ts:179`), and the late
post is neither cached nor counted. In the run posts are numbered without gaps but
for messages under way, so it does not happen there.

### Bounds and fairness

Two streams, announced in any order (the posts are in the first, so the other may come before it, between
two posts or after them), two posts, three changes of the user, six messages, batches of up to
two, one failure: enough for the conditions above that take two or three messages: all but `leapt`, `unnoticed` and, for
`NoUnreadIsMissed`, the overlap of computations. Seven messages
are all there can be under the other bounds; with them (2.3 million states) TLC finds the same. `FairSpec` has weak fairness of the processing: requests
are answered or aborted after 30 seconds (`fetchCore.ts:109`), and the event loop runs
continuations. Nothing is assumed of the server or of the delivery. Deadlocks are not looked for: when the bounds are
used up and everything is processed nothing is left to do.

Left out: the other kinds of messages, which resolve an entity and nothing more; mentions,
counted as posts are; muted streams and the filters by repository; posts that are
edited or deleted; messages with several users at once. Of the last, the source shows that the change of the own user is dropped
when others come with it: `codestreamApi.ts:934` removes it from the list before line 941 reads it.
A page is taken to be between the first unread post and the latest cached one; that
`getBetween()` leaves out a post older than the whole collection, which takes three streams waiting
for each other, is not distinguished.

### What is proved

`RealTimeProofs` proves, from `RealTimeAssumption`, for any number of posts, changes, streams, messages and
failures and batches of any size:

| Theorem | Property | Inductive invariant |
|---|---|---|
| `TypeCorrect` | `TypeOK` | `Basics`: with the type, no message is published twice (`Logged`) and each goes through the stages of its kind (`Staged`) |
| `BlockersAreAlone` | `BlockersGoAlone` | `InOrder` |
| `LostOnlyByFailures` | `LostOnlyByFailure` | `Lossless`, with `InOrder` |
| `UserIsTheServers` | `UserIsCurrent` | `UserKept`, with `Lossless` |
| `FirstUnreadIsCachedOrComes` | `FirstIsCachedOrComes` | `MarksAreBehind` and `AllCachedOrCome` |

`Basics` holds of everything that happens, and the others are proved one upon another:

* `BlockersGoAlone` speaks of messages that are resolved. Inductive is what it says together with: the
  promise is that of the stream being resolved, what waits does so for an earlier stream
  which does not wait itself, and nothing after a waiting stream has gone on. All of it ends with
  the first stream that had to wait, hence `~piled`.
* A post is dropped when its stream is not known. Without failures it is known, as the stream
  precedes the post in the log and, by the order above, its processing has ended.
* The user: a directive is applied only to the version before it (`Applicable`), for what was read
  before an await can have been overtaken only by an equal or newer one; so a change that was
  processed is in the cached user (`Applied`), and when nothing is lost that is every change.
* A mark never points beyond the posts there are (`MarksAreBehind`), wherever it is kept, and once the
  stream's posts are there each post is cached or its message has yet to be processed.

`RealTimeCounterProofs` proves `CounterIsExact`, `Spec => []UnreadsAreExact`, from these invariants and `Kept`. It says of
the server that versions of the user and posts are published in order (`ServerOrder`), and then, as long as
none of what the property excludes has happened (`Smooth`), who accounts for which post (`Ledger`):

* the counter is of the posts processed after the mark, when no computation is under way (`CounterIsRight`);
  a computation that is will have read just these when it is over (`CoreIsRight`). Both only if the
  mark is the server's, or that of the last version but one: what an older mark counts is reset by the change that replaces
  it, which has yet to come.
* whose mark the counter is for: that of the cached user (`MarkIsTheUsers`), which no version still to come
  has anywhere (`ShownAreOld`), so that its message will find the mark moved and compute.
* every other post is still to be counted, in its turn: one computation at a time, at most one that waits for it,
  and no post counted meanwhile (`OneAtATime`); what precedes the cached user is done (`ReadAreDone`); nothing
  is done before a change published earlier has been resolved (`NotOvertaken`); a change published after a post that is not done
  waits for the computation under way (`WaitsBehind`); posts are done out of turn only when nothing is computed (`InTurn`).

`Smooth` alone is not inductive. An answer that is late, for a version behind the cached one, is bound
to replace a newer user or to leap ahead of the messages when it comes, but has done neither yet; `Ledger` may already be false
then. So it is claimed while there is no such answer (`Late`), and `LateStays` shows that there is one until one of the
two flags is set. When everything is processed nothing is late. In the same way `overlap` counts a second
computation that waits from when it starts to wait, not from when both go on: nothing else can come of it. Three of the
conditions above come from this proof: `leapt`, `unnoticed` and this part of `overlap` were found as steps
which did not preserve the invariant, and TLC then showed the first two to be real.

`PostIndexProofs` proves `SearchesFind`, `InsertsKeepOrder` and `PagesWhole`, `Spec => []P` for each of the
properties of `RealTimePosts`, and with `SearchesRight`, `InsertsRight` and `PagesRight` that the operators are right for all collections of numbers up to any
`MaxSeqNum`:

* The search is a recursive function on the ranges of a list. That there is one that satisfies its equation (`SearchIsDefined`), so
  that the search unfolds by a turn of its loop (`SearchUnfolds`), is shown by the least size of a
  range for which there is none. In the same way that it is right: `Encloses` says that what is left of a range is older than the number
  sought and what is right of it newer; `TurnIsRight` that a turn keeps this, and `IsRight` what then comes out.
* The collection of a set is sorted and has its members (`SortedProperties`), and there is no other
  such list (`SortedUnique`). So an insertion or a page is right if it is sorted and
  has the members it should have.
* The search throws on nothing that is cached, and on nothing that is newer than everything cached.
  `FirstIsCached` is the invariant that the properties of the states need: once a stream is initialised its first post is cached, so that no
  late post is older than the whole collection, the case in which `updateOrInsert()` puts it in the wrong place.

`NoneIsMissed`, `Spec => []NoUnreadIsMissed`, is proved in `RealTimeCounterProofs` too, of the same foundations but with another invariant, `Backed`.
`Ledger` is of no use here: when updates overlap computations and users come ahead of their messages the
counter is right only at the end, if then, and an old computation may count any part of the posts. `Backed` says less of the
counter and more of who may rely on it. As long as none of what the property excludes has happened (`Mild`):

* `Covered` is what there should be. Each post that is processed and not read has been counted, or the computation
  under way will count it (`Counted`; the set of those counted is not larger than the counter); or, if a computation waits for
  that one and so will reset what it counts, the waiting one starts from a mark that reaches them all (`WaitingReaches`).
* `Owed`: it is so when the cached user is the server's. That alone is not inductive, for the user may become current
  without a computation, when its message finds the mark where it was. So it must be so already when that can still happen:
  the mark that is counted from is the server's and a message has copied it or will
  (`MarkMayBeFound`), or the post after the mark is about to set it before a message that waits gets to copy it
  (`MarkMayBeSet`). Otherwise the message will find the mark moved, and start a computation that counts everything.
* `Support` is what this rests on. One computation at a time and at most one that waits (`Alone`); no
  post is done before a change published earlier has at least begun (`NoneEarly`), so that while a change has not begun
  there is nothing yet to count after its mark (`NothingToCount`); and the mark of a version that is not cached yet
  is nowhere to be found, unless its post has set it (`NewMarkIsNowhere`).

A new post or mark at the server makes nothing owed: what it adds is not processed yet. Of the conditions of
`UnreadsAreExact` the proof needs neither `leapt` nor an update that overlaps, which only make the counter
too high. That it needs the overlap of computations was found here: without it `Alone` fails, and TLC then
found the history told above.

## TokenRefresh: requests and the access token

### How the model corresponds to the code

A request is one of three kinds. `fetch()` of the API with a token of its own goes through the response
interceptor and then through a loop of `fetch()` (`Intercepted`); with the held token it skips the
interceptor (`Plain`); the GraphQL client has only the interceptor (`Graphql`). `Put` is the
call that refreshes the token, which all share (`_refreshNRTokenPromise`) and which is a
call of `fetch()` itself.

`call[c]` is one call of `fetchCore()` with its retries: `Start`; the server's answer
(`ServerAnswers`, `AttemptFails`); an exception (`HandleException`) or a response
(`HandleResponse`), each of which may try again up to `MaxRetries`; the rate limiter, which refuses an attempt
(`RateLimited`). The interceptor notes the refresh token, reads the body (`StartIntercept`,
`ReadBody`), and then waits for the lock or takes it and refreshes. `Return` is the
loop after `fetchCore()`. `RefreshSucceeds` and `RefreshFails` settle the promise: every
waiter goes on in the same step (`Resumed`), before any other event. An access token and its
refresh token are one number.

What the client is told is debounced separately for each status (`debounceMemoized`, with the first call told
at once): `timers` are the running debounces in the order in which they end.

External: when tokens expire or are revoked; whether a used refresh token is accepted (both
are allowed); other editors of the same user, whose refreshes arrive as messages
about the user (`UserMessage`).

### What the run shows

**token_refresh** (1.6 million states; three requests, one of each kind):

* `WaitersAreServed`: whoever waits for the lock or for a refresh waits for a refresh that is under way, and the
  lock is held only by a request that waits for one. Whether the refresh comes to an end is another question:
* `EveryRequestEnds`: every request that is made ends, if not more of them fail than the bounds allow, *or the
  refresh waits for itself* (see below). Locks, shared promises, retries and refreshes leave no other
  way to wait for ever, or to try again for ever.
* `ExpiryIsHidden`: it takes two expiries, or another fault, or a server that refuses used refresh
  tokens, for a request to fail because of an expired token.
* `RetriedWithNewerToken`: a request that goes on after a refresh that succeeded is sent with a newer token.
* `ExpiredOnlyByOverlap`: requests made one at a time never have the session declared expired
  by one expiry.
* `ClientKnows`: when no debounce is running, the client has been told the session's status.
* `TypeOK` says also that no call is tried more often than allowed, in any mixture of reasons.

Behind the conditions are these behaviours of the code:

* `together`: a request that started before a refresh keeps the refresh token of its start
  (`codestreamApi.ts:2815`), and after the refresh it comes with one that was used. A server that refuses
  those, with 403, makes the session expired, though nothing is wrong.
* `outrun`: a repeated *Expired* waits for its debounce to end; *Active*, told at once
  meanwhile, is then followed by the *Expired* that preceded it (`session.ts:534`).
* a refusal of the refresh whose text says *token expired* makes the loop of `fetch()` refresh: it
  gets the promise of the refresh it is itself part of (`codestreamApi.ts:2927`, 2478), and waits for
  itself, as does every request from then on that needs a refresh. `WaitersAreServed` counts this as under way;
  `EveryRequestEnds` names it (`AwaitsItself`), and with it the condition: the server has refused a refresh token,
  revoked or used, as an expired one. TLC refutes the property without that disjunct.
* the retry of a refresh whose answer was lost sends a token that was used (`fetchCore.ts:204`).
* who waited for the lock retries with the held token also when the refresh failed
  (`newRelicResponseInterceptor.ts:36`).
* a late message about the user sets the token held back to an older one (`usersManager.ts:128`).

### Bounds

`MaxRetries` is 1 instead of 3, so that the limit is reached within the faults allowed. Tokens
expire and faults happen at most twice together. Both are enough for a refresh during
another's retry, two refreshes, and a request refreshed by the interceptor and by the loop. Deadlocks are not looked
for, as requests end.

`FairSpec` assumes weak fairness of `Progress`, one step or another of the calls under way: the event loop goes on,
and each attempt is answered, refused by the rate limiter, or fails when the time for it is over. Nothing is assumed of requests yet
to be made, of tokens expiring, or of the timers of the session.

`Return` reads the body of the response (`codestreamApi.ts:2920`) in the step in which `fetchCore()` returns; a
body that is not JSON, an exception that ends the request, is left out.

### What is proved

All safety properties of the run (`EveryRequestEnds`, a liveness property, is only checked), for any number of requests of each kind, of retries, expiries and
faults, from `TokenRefreshAssumption`: the kinds of requests and the refresh are different things, and
`fetchCore()` may try again at least once (three times in the code).

`TokenRefreshProofs` proves `WaitersServed`, `Spec => []WaitersAreServed`. The property is
nearly inductive: it needs besides only the shape of the calls (`Shape`), above all that the lock
is a request's, so that the refresh itself never holds it: it has no interceptor and is never
seen reading a body. A lemma for each way the calls change (`OneGoesOn`, `OneRefreshes`, `AllResume`)
carries the argument; the actions are cases of them. `RetriesBounded` follows from the same
invariant: no call counts more than `MaxRetries` retries, whatever mixture of exceptions, server
errors and refreshes makes it try again (the count starts anew only with the refresh of the
loop, which there is once). The next part is for what follows: `StartDoes`, `ServerAnswersDoes`, ... say of each action what becomes of each field of a call, once and for all;
`Basics` adds to the invariant that the tokens in use have been issued and that a call has
the answer its progress speaks of (a waiting request was answered *expired*, say).

Then come `TypeCorrect` and `ClientIsTold` (`ClientKnows`). The second is
inductive with what the last timer says (`LastSays`): it is of the status the session has, and
it will tell it, or it was told already and no other timer will tell anything.
Telling a status establishes this whatever was the case before (`TellSays`), so a recovery
that outruns a repeated *Expired* does harm only until the next status is told. That there are
two timers at most is part of the types, and rests on there being one for each status (`OnePerStatus`).

The last part has an invariant for each of the three promises about tokens.

* `NewerTokenRetried` (`RetriedWithNewerToken`): `Newer` says that nothing is refreshed before something
  has expired. So while a refresh is under way the tokens have expired once already, and what
  it brings can be refused only after a second time; whoever joins it late was refused with an older one.
* `ExpiryHidden` (`ExpiryIsHidden`): `Hidden` counts the expiries behind each attempt: one before
  the first refresh, two if the attempt after it is refused, and three if that was a request
  which had the interceptor refresh for it, then the loop, then the interceptor again. The delicate part is
  a request that joins a refresh granted before the last expiry, and gets the very token it was refused with:
  it has its next refresh still before it, unless there were enough expiries.
* `OverlapNeeded` (`ExpiredOnlyByOverlap`): `Ordered` follows the one refresh there can be. Before it
  (`Early`) the holder, the request's own refresh token and the one noted by the interceptor are all the first;
  the request that wants it waits, so that no other starts unnoticed; after it (`Late`) the
  request and the holder have the second token, which no longer expires, so there is no other.

## MarkerLocation: markers after an edit

### How the model corresponds to the code

A diff is read one line at a time, as `ChangesetBuilder` reads it: `Ctx` (`_ctx()`, `_sync()`),
`Del` and `Add` (`_edit()`), and `NextHunk`, lines that no hunk shows. `diff` keeps what has been read; the
two files are counted from it. Any time the reading may be over, and `Calculate` is
`calculateLocations()` for a location, or a location and a second one of a single line.

The calculator walks through the lines of interest and the changes together, and so does the model, by one
line or one change a step. `ahead` are the lines from `_lineIndex` on, `begun` counts the changes taken up,
`active` are the active locations. `CalculateLineUntil` moves a line before the next change by its balance,
`BeginChange` marks the active locations and notes the balance after the change, `CalculateLineIn` looks a line up in what
the change adds, `CalculateLineUntilEnd` moves the lines after the last change; each goes to the next line
(`NextLine`). `Results` is what follows the loops: locations deleted by one change are looked for in all changes (`Moves`,
`Found`) or given up (`Gone`), others are trimmed (`Trimmed`). Locations asked for may be
results of an earlier calculation: one that was all deleted may be just behind the end of the file, one that was trimmed at line 0.

Lines are abstract: a line is known by its bigrams, and `Rating` is the coefficient
`compareTwoStrings()` of the library gives for them; for several lines the bigrams across the line
ends are left out. Each line has a bigram, at least (two lines without are alike for the library only if
they are equal). External: a diff has at least one line of context on either side of a change, except at the ends of the
file; within a change it has removed lines first; and it never removes and adds the same line in
one change.

### What the run shows

**marker_location** (2.9 million states: all diffs of up to five entries):

* `EndsFollowTheirLines`: an end of a location whose line was kept is where that line is now; one
  whose line was removed is said to be deleted, or is at an added line that is at least half similar.
  (A location found elsewhere is not said to be deleted.)
* `TouchedIsFlagged`: a location some of whose lines were removed, or which has new lines in between, is
  marked as changed.
* `StaysInOrder`: it starts before it ends if it did.
* `TypeOK` says also that changes do not overlap, and that locations stay in the file or next to it.

Behind the conditions are these behaviours of the code, which TLC finds without them:

* of a location whose two ends one change has deleted, only the start may be found again: the end is trimmed to
  before the change (`calculator.ts:141`), so before the start. At the top of a file it becomes line 0.
  If both are found, they may be out of order.
* a location that ends at line 0 stops the loops over the lines (`while ((line = ...) && ...)`, line 414): all markers of
  the file are calculated to be at line 0. The model does so too (`LineBelow`); the properties speak of
  the results in files without one.
* `ComesSecond`: whether a location is active is decided as a change begins. One that starts in the middle of the change,
  behind another line of interest, is not, and its content changes unnoticed (line 421).
* the other way round, a location that is next is active however far behind a change it is; it is marked as changed though
  it is not, and the client takes it for uncommitted (`markersBuilder.ts:310`). So no converse of
  `TouchedIsFlagged` is claimed.
* changes similar to what was deleted are tried in ascending order of similarity (`sortMatches`, line 90), though
  the comment says *best matches first* (line 489); `LeastSimilar` follows the code.

### Bounds

`ChainOfLines` has three lines of which neighbours are similar by two thirds, and the
other two by one third, so that a line can be found under another text, and likeness is not transitive. Five entries are enough for two changes with a kept line between,
each with lines removed and added in some of them, a location moved from one to the other, and
for every way in which the ends of a location relate to two changes. The run does not look for
deadlocks: the calculation is the end.

### What is proved

All four properties of the run, and a fifth, for diffs of any length over any finite set of lines with any finite sets of bigrams
(`MarkerLocationAssumption`), by `MarkerLocationProofs`.

None of them is inductive, as they speak of the result alone. What is inductive (`Invariance`) is that the
changes account for the diff read so far, the one under way (`Pushed`) included, and that the walk does what
each line would need if it were alone:

* `Chain`: changes are in order, at least a line apart, and with equally many lines between
  them in both files. So the balance a change hands on is the balance at the next.
* `Accounts`: every removed line is in a change, at the place its number says; every added line is
  in one whose removed lines end where it stands; a change adds no other lines; and a kept line's new
  number is its old one with the balance of the changes before it.
* `Reading`: `oldLine` and `newLine` of the builder are those of the last line of context, and a change under
  way begins after it and reaches to the end of what was read. An edit begins as an empty change there
  and grows by a line at a time (`ReadBegun`, `ReadRemoved`, `ReadAdded`), so `_sync()` has nothing more to show.
* `Walking`: a line that has been passed is at its `Place`, which is a function of the changes and the line, comes before all lines ahead and
  before the changes to come; a change begun has no lines ahead before it (`Passed`). Active are the locations with the next line between
  their ends, and marked are those that were active as some change began.

From the last follows `SameAlone`: a location goes where a walk for it alone brings it, whatever other lines are
passed before it, in between and in the same changes, and is marked only if it would be marked alone. A second
line of interest may hide a change of its content (`ComesSecond`), but not move it. `Located` gives the result of
a walk in closed form; that the steps of the walk come to it, for one location as for many, is what the
invariant shows (`StepUntil`, `StepBegin`, `StepIn`, `StepUntilEnd`, `StepResults`).

Line numbers are cardinalities of sets of entries; the lemmas on `UpTo` say that they grow by
one with every member, reach every number up to the last, and reach each at one entry only.
`LineCases` and `LineBounds` then say where a line goes, and from them the
properties follow. `0 \notin Asked` is needed by all of them, `InOneChange` and
`ComesSecond` by the order and the mark, as the list above says: the proofs use these
conditions and no other.

Left out: the columns, `findBestMatchingLine()`, and `markerLocationManager.ts`, which asks git for the diffs
(with the hazard at its line 524).

## Findings

1. *Connected too early* (`broadcaster.ts:785`, **broadcaster_connected_early**).
   `subscribed()` emits Connected without looking at the subscriptions. A `catchUp()`
   that resumes after a later failure ends a cycle that is not its own.
2. *Queue stuck after an unsubscribe* (`broadcaster.ts:881`, **broadcaster_queue_stuck**).
   Removing the last channel of a cycle leaves nothing that ends it.
3. *Skipped catch-up after sleep* (`broadcaster.ts:678`, **delivery_sleep**). The 60 s
   exemption counts from when the loss was noticed.
4. *Repeated message* (`broadcaster.ts:907`, **delivery_repeat**). The list of
   received messages is pruned by the clock, and the history may reach further back.
5. *Channels without history* (`pubnubHistory.ts:53`, **history_slices**). The second
   argument of `slice` is an end, not a length: with more than 500 channels (100 over
   SocketCluster) the history of the others is never fetched.

## What is only model-checked, and what is not modelled

Liveness stays with TLC: TLAPS here proves neither fairness arguments nor ENABLED.
That goes for `EveryCycleSettles`, `BadTokenAborts`, `FetchEnds`, `EverythingSettles` and `EveryRequestEnds`. Every invariant and the
refinement that the runs check are proved. The five findings are counterexamples of TLC.

Not modelled, besides what the plan has left: the test hooks; the translation of
messages into typed notifications; group indexes of the caches; the rates the rate
limiter counts (its refusal is a choice); the exemption of the first 30 seconds from the forced
logout; the refresh of other providers before their tokens expire; documents, git, source-control,
reviews and the providers, which assemble requests and do I/O around little state; the
editor clients, which start the agent and forward requests, and the webview, which renders.
