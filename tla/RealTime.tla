-------------------------------- MODULE RealTime --------------------------------
(***************************************************************************)
(* What the agent does with the messages the Broadcaster delivers: the     *)
(* processing that some messages block for the others (codestreamApi.ts),  *)
(* the cached user and posts (baseManager.ts, postsManager.ts) and the     *)
(* counter of unread posts (unreads.ts).                                   *)
(*                                                                         *)
(* Three kinds of messages: a stream (it blocks the others), a post of     *)
(* another member in the one stream counted here, and a change of the      *)
(* agent's own user, of which the mark of what was read matters here.      *)
(* JavaScript runs every continuation that needs no answer before it takes *)
(* the next event: an action that needs an answer, or delivers messages,   *)
(* has Idle as a guard.                                                    *)
(***************************************************************************)
EXTENDS Integers, Sequences, FiniteSets

CONSTANTS
    MaxPosts,      \* bound: posts
    MaxMe,         \* bound: versions of the user
    MaxStreams,    \* bound: streams announced; posts are in the first
    MaxLog,        \* bound: messages published
    MaxBatch,      \* bound: messages delivered at once
    MaxFailures    \* bound: requests that fail

ASSUME RealTimeAssumption ==
    /\ {MaxPosts, MaxMe, MaxStreams, MaxLog, MaxBatch} \subseteq Nat \ {0}
    /\ MaxFailures \in Nat

VARIABLES
    reads,      \* EXTERNAL: the mark of what was read, by version of the user
    posted,     \* EXTERNAL: how many posts there are, numbered by seqNum
    log,        \* EXTERNAL: the messages published, in order
    delivered,  \* how many of them have been delivered
    st,         \* by message, how far its processing has come
    blocker,    \* _messageProcessingPromise: the stream message, 0 if none
    known,      \* streams in the cache
    me,         \* the user in the cache: its version and its lastReads object
    posts,      \* posts in the cache
    init,       \* _streamInitialization of the stream of the posts
    heap,       \* what each lastReads object says of the stream
    comp,       \* the computations of Unreads, by the version they are for
    promise,    \* _computePromise: the computation, 0 if none
    unread,     \* _unreads of the stream
    lastReads,  \* _lastReads: which object
    failures,   \* bound: requests that have failed
    overlap,    \* history: what a computation overlapped, or is bound to
    ahead,      \* history: a request cached a post before its message was processed
    overtaken,  \* history: an answer replaced a newer version of the user
    leapt,      \* history: an answer brought a newer version than the message it was asked for
    unnoticed,  \* history: a mark was compared with an old one, and found not to have moved
    piled       \* history: a message that blocks had to wait for another

server == <<reads, posted, log>>
cached == <<known, me, posts, init>>
counters == <<heap, comp, promise, unread, lastReads>>
vars == <<server, delivered, st, blocker, cached, counters,
          failures, overlap, ahead, overtaken, leapt, unnoticed, piled>>

Unset == -1
Target == 1                                 \* the stream of the posts
Current == Len(reads)                       \* version of the user at the server

Message(kind, n) == [type |-> kind, n |-> n]
Messages == {Message("stream", k) : k \in 1..MaxStreams}
       \cup {Message("post", n) : n \in 1..MaxPosts}
       \cup {Message("me", v) : v \in 2..MaxMe}
Computes == 1..MaxMe                        \* 1: of subscribe(), v: of the message of v
Objects == 0..MaxMe       \* 0: of Unreads at first, 1: of the user at first, v: fetched by v

Published == {log[i] : i \in DOMAIN log}
Arrived == {log[i] : i \in 1..delivered}
Position(m) == CHOOSE i \in 1..Len(log) : log[i] = m

Ended == {"none", "done", "dropped"}
InCore == {"unread", "nothing", "something", "posts", "page", "count"}      \* computeCore() is under way
Settles(c) == comp[c].pc \in {"done", "failed"}
StreamDone(k) == st[Message("stream", k)].pc \in Ended

--------------------------------------------------------------------------------
(* Continuations that need no answer, and so precede the next event. *)

Ready(m) ==
    \/ st[m].pc = "blocked" /\ StreamDone(st[m].on)
    \/ st[m].pc \in {"ready", "items", "read", "resolving"}
    \/ st[m].pc = "init" /\ init \in {"yes", "failed"}
    \/ st[m].pc = "waiting" /\ Settles(st[m].on)

Idle ==
    /\ \A m \in Arrived : ~Ready(m)
    /\ \A c \in Computes : ~(comp[c].pc = "waiting" /\ Settles(comp[c].on))

\* What a step adds to the history of overlaps.
When(condition, what) == IF condition THEN {what} ELSE {}

MayFail == failures < MaxFailures
Fail == MayFail /\ failures' = failures + 1

Quiet == [pc |-> "none", on |-> 0, next |-> "none", old |-> FALSE, shown |-> Unset, seen |-> 0]
Idling == [pc |-> "none", on |-> 0, object |-> 1, from |-> Unset, read |-> {}]

Move(m, pc) == st' = [st EXCEPT ![m] = IF pc \in Ended THEN [Quiet EXCEPT !.pc = pc]
                                                       ELSE [@ EXCEPT !.pc = pc]]

\* await this._computePromise, if there is one; it may have been rejected, for good.
AwaitCompute(m, next) ==
    IF promise = 0 THEN [st[m] EXCEPT !.pc = next]
    ELSE IF comp[promise].pc = "failed" THEN [Quiet EXCEPT !.pc = "dropped"]
    ELSE [st[m] EXCEPT !.pc = "waiting", !.on = promise, !.next = next]

--------------------------------------------------------------------------------
(* The server, and the Broadcaster delivering what it publishes. *)

Publish(news) == Len(log) + Len(news) <= MaxLog /\ log' = log \o news

\* A post: whoever had read everything has not any more, which changes the user.
ServerPosts ==
    /\ Idle
    /\ Message("stream", Target) \in Published
    /\ posted < MaxPosts
    /\ posted' = posted + 1
    /\ IF reads[Current] # Unset
       THEN /\ Publish(<<Message("post", posted')>>)
            /\ UNCHANGED reads
       ELSE /\ Current < MaxMe
            /\ reads' = Append(reads, posted)
            /\ Publish(<<Message("post", posted'), Message("me", Current + 1)>>)
    /\ UNCHANGED <<delivered, st, blocker, cached, counters, failures, overlap, ahead, overtaken, leapt, unnoticed, piled>>

\* The user has read everything, in this editor or in another.
ServerMarksRead ==
    /\ Idle
    /\ Current < MaxMe
    /\ reads[Current] # Unset
    /\ reads' = Append(reads, Unset)
    /\ Publish(<<Message("me", Current + 1)>>)
    /\ UNCHANGED <<posted, delivered, st, blocker, cached, counters, failures, overlap, ahead,
                   overtaken, leapt, unnoticed, piled>>

\* A stream may be announced before that of the posts, or between two posts.
ServerAddsStream ==
    /\ Idle
    /\ \E k \in 1..MaxStreams :
        /\ Message("stream", k) \notin Published
        /\ Publish(<<Message("stream", k)>>)
    /\ UNCHANGED <<reads, posted, delivered, st, blocker, cached, counters, failures, overlap,
                   ahead, overtaken, leapt, unnoticed, piled>>

\* MUTANT: every message makes the others wait.
BlocksAlways(m) == TRUE

Blocks(m) == m.type = "stream"

\* The first message of a batch that blocks: the ones after it wait, if none did before.
Blocker(batch) == LET B == {i \in batch : Blocks(log[i])}
                  IN  {i \in B : \A j \in B : i <= j}

\* MUTANT: only the messages of the batch wait.
BlockedByBatch(batch, i) ==
    IF \E f \in Blocker(batch) : f < i THEN log[CHOOSE f \in Blocker(batch) : TRUE].n ELSE 0

\* MUTANT: no message waits.
BlockedByNone(batch, i) == 0

BlockedBy(batch, i) ==
    IF blocker # 0 THEN blocker
    ELSE IF \E f \in Blocker(batch) : f < i THEN log[CHOOSE f \in Blocker(batch) : TRUE].n
    ELSE 0

\* onPubnubMessageReceivedWithBlocking() for each message of a batch, up to its first await.
Deliver ==
    /\ Idle
    /\ \E size \in 1..MaxBatch :
        LET batch == (delivered + 1)..(delivered + size)
        IN  /\ delivered + size <= Len(log)
            /\ delivered' = delivered + size
            /\ st' = [m \in Messages |->
                        IF m \in {log[i] : i \in batch}
                        THEN LET b == BlockedBy(batch, Position(m))
                             IN  [st[m] EXCEPT !.pc = IF b = 0 THEN "ready" ELSE "blocked",
                                               !.on = b]
                        ELSE st[m]]
            /\ blocker' = IF blocker = 0 /\ Blocker(batch) # {}
                          THEN log[CHOOSE f \in Blocker(batch) : TRUE].n ELSE blocker
    /\ UNCHANGED <<server, cached, counters, failures, overlap, ahead, overtaken, leapt, unnoticed, piled>>

\* The awaited promise is resolved: the waiting messages go on in their order, each of
\* them once, whatever the ones before it have set.
Release(m) ==
    /\ st[m].pc = "blocked" /\ StreamDone(st[m].on)
    /\ \A o \in Arrived : st[o].pc = "blocked" /\ StreamDone(st[o].on)
                            => Position(m) <= Position(o)
    /\ Move(m, "ready")
    /\ blocker' = IF Blocks(m) THEN m.n ELSE blocker
    /\ piled' = (piled \/ Blocks(m))
    /\ UNCHANGED <<server, delivered, cached, counters, failures, overlap, ahead, overtaken, leapt, unnoticed>>

--------------------------------------------------------------------------------
(* Streams: resolve() of a full object, or of a directive on one that is not cached. *)

\* MUTANT: the promise is never settled.
FinishStreamNever(m) == UNCHANGED <<st, blocker>>

\* The promise is resolved and deleted, even if it is of another message by now.
FinishStream(m) == Move(m, "done") /\ blocker' = 0

ResolveStream(m) ==
    /\ m.type = "stream" /\ st[m].pc = "ready"
    /\ \/ FinishStream(m) /\ known' = known \cup {m.n}
       \/ Move(m, "fetching") /\ UNCHANGED <<known, blocker>>
    /\ UNCHANGED <<server, delivered, me, posts, init, counters, failures, overlap, ahead,
                   overtaken, leapt, unnoticed, piled>>

StreamAnswer(m) ==
    /\ m.type = "stream" /\ st[m].pc = "fetching"
    /\ Idle
    /\ FinishStream(m)
    /\ \/ known' = known \cup {m.n} /\ UNCHANGED failures
       \/ Fail /\ UNCHANGED known
    /\ UNCHANGED <<server, delivered, me, posts, init, counters, overlap, ahead, overtaken, leapt, unnoticed, piled>>

--------------------------------------------------------------------------------
(* Posts: the cache of the stream is filled when it is first used, then the post *)
(* is stored and handed to Unreads.update().                                     *)

StartUpdate(m, old) ==
    /\ st' = [st EXCEPT ![m] = [AwaitCompute(m, "counting") EXCEPT !.old = old]]
    /\ overlap' = overlap \cup When(\E c \in Computes : comp[c].pc \in InCore, "update")

ResolvePost(m) ==
    /\ m.type = "post" /\ st[m].pc = "ready"
    /\ \/ /\ m.n \in posts
          /\ StartUpdate(m, TRUE)
          /\ UNCHANGED <<posts, init>>
       \/ /\ m.n \notin posts /\ init = "yes"
          /\ StartUpdate(m, FALSE)
          /\ posts' = posts \cup {m.n}
          /\ UNCHANGED init
       \/ /\ m.n \notin posts /\ init # "yes"
          /\ Move(m, IF init = "failed" THEN "dropped" ELSE "init")
          /\ init' = IF init = "no" THEN "pending" ELSE init
          /\ UNCHANGED <<posts, overlap>>
    /\ UNCHANGED <<server, delivered, blocker, known, me, counters, failures, ahead, overtaken, leapt, unnoticed, piled>>

StorePost(m) ==
    /\ st[m].pc = "init" /\ init \in {"yes", "failed"}
    /\ IF init = "yes" THEN StartUpdate(m, FALSE) /\ posts' = posts \cup {m.n}
                       ELSE Move(m, "dropped") /\ UNCHANGED <<posts, overlap>>
    /\ UNCHANGED <<server, delivered, blocker, known, me, init, counters, failures, ahead,
                   overtaken, leapt, unnoticed, piled>>

CachePosts(answer) ==
    /\ posts' = posts \cup answer
    /\ ahead' = (ahead \/ \E n \in answer : LET m == Message("post", n)
                                           IN  m \in Published /\ st[m].pc \in {"none", "blocked", "ready"})

\* The answer has the posts the server has: also those whose message has not come yet, or
\* waits for a stream.
InitAnswer ==
    /\ init = "pending"
    /\ Idle
    /\ \/ /\ init' = "yes"
          /\ CachePosts(1..posted)
          /\ UNCHANGED failures
       \/ init' = "failed" /\ Fail /\ UNCHANGED <<posts, ahead>>
    /\ UNCHANGED <<server, delivered, st, blocker, known, me, counters, overlap, overtaken, leapt, unnoticed, piled>>

\* update() has the preferences and the streams: the counter grows by a post not seen.
Count(m) ==
    /\ st[m].pc = "counting"
    /\ Idle
    /\ IF Target \in known
       THEN /\ Move(m, "done")
            /\ unread' = IF st[m].old THEN unread ELSE unread + 1
            /\ heap' = [heap EXCEPT ![lastReads] = IF @ = Unset THEN m.n - 1 ELSE @]
       ELSE Move(m, "dropped") /\ UNCHANGED <<unread, heap>>
    /\ UNCHANGED <<server, delivered, blocker, cached, comp, promise, lastReads, failures,
                   overlap, ahead, overtaken, leapt, unnoticed, piled>>

UpdateFails(m) ==
    /\ st[m].pc = "counting"
    /\ Idle
    /\ Fail
    /\ Move(m, "dropped")
    /\ UNCHANGED <<server, delivered, blocker, cached, counters, overlap, ahead, overtaken, leapt, unnoticed, piled>>

\* The awaited computation is over; Unreads.get() then copies the lastReads.
Resume(m) ==
    /\ st[m].pc = "waiting" /\ Settles(st[m].on)
    /\ IF comp[st[m].on].pc = "failed"
       THEN Move(m, "dropped")
       ELSE st' = [st EXCEPT ![m] = [@ EXCEPT !.pc = st[m].next, !.on = 0, !.next = "none",
                        !.shown = IF st[m].next = "items" THEN heap[lastReads]
                                                                ELSE st[m].shown]]
    /\ UNCHANGED <<server, delivered, blocker, cached, counters, failures, overlap, ahead,
                   overtaken, leapt, unnoticed, piled>>

--------------------------------------------------------------------------------
(* Unreads.compute() and computeCore(). *)

\* MUTANT: the counters are not reset.
KeepCounters == UNCHANGED unread

ResetCounters == unread' = 0

\* The counters are reset at once.
StartCore(c, object) ==
    /\ comp' = [comp EXCEPT ![c] = [Idling EXCEPT !.pc = "unread", !.object = object]]
    /\ promise' = c
    /\ ResetCounters
    /\ overlap' = overlap
        \cup When(\E d \in Computes \ {c} : comp[d].pc \in InCore \cup {"waiting"}, "computation")
        \cup When(\E m \in Arrived : st[m].pc \notin Ended /\ m.type = "post", "update")

Compute(c, object) ==
    \/ promise = 0 /\ StartCore(c, object)
    \/ /\ promise # 0
       /\ comp' = [comp EXCEPT ![c].pc = IF comp[promise].pc = "failed" THEN "dropped"
                                                                        ELSE "waiting",
                               ![c].on = promise, ![c].object = object]
       /\ overlap' = overlap \cup When(\E d \in Computes : comp[d].pc = "waiting", "computation")
       /\ UNCHANGED <<promise, unread>>

ComputeResumes(c) ==
    /\ comp[c].pc = "waiting" /\ Settles(comp[c].on)
    /\ IF comp[comp[c].on].pc = "done"
       THEN StartCore(c, comp[c].object)
       ELSE /\ comp' = [comp EXCEPT ![c] = [Idling EXCEPT !.pc = "dropped"]]
            /\ UNCHANGED <<promise, unread, overlap>>
    /\ UNCHANGED <<server, delivered, st, blocker, cached, heap, lastReads, failures, ahead,
                   overtaken, leapt, unnoticed, piled>>

\* getUnread(): whether the stream has anything to read is the server's opinion ...
ServerAnswersUnread(c) ==
    /\ comp[c].pc = "unread"
    /\ Idle
    /\ comp' = [comp EXCEPT ![c].pc = IF reads[Current] = Unset THEN "nothing" ELSE "something"]
    /\ UNCHANGED <<server, delivered, st, blocker, cached, heap, promise, unread, lastReads,
                   failures, overlap, ahead, overtaken, leapt, unnoticed, piled>>

\* ... from where on is what the lastReads object says by the time of the answer.
UnreadAnswer(c) ==
    /\ comp[c].pc \in {"nothing", "something"}
    /\ Idle
    /\ LET from == IF comp[c].pc = "nothing" THEN Unset ELSE heap[comp[c].object]
       IN  /\ comp' = [comp EXCEPT ![c].pc = IF from = Unset THEN "count" ELSE "posts",
                                   ![c].from = from]
           /\ init' = IF from # Unset /\ init = "no" THEN "pending" ELSE init
    /\ UNCHANGED <<server, delivered, st, blocker, known, me, posts, heap, promise, unread,
                   lastReads, failures, overlap, ahead, overtaken, leapt, unnoticed, piled>>

\* MUTANT: the first unread post is left out.
FirstUnreadSkipped(from) == from + 2

FirstUnread(from) == from + 1

\* The posts from the first unread one to the latest that is cached; PostIndex says which the
\* collection finds.  A mark that is ahead of the messages makes it ask for a first one that is
\* not cached: the page is then fetched.  A failed initialisation leaves the stream out, and so
\* does one without posts, of which there is no latest.  The two reads are one step.
PostsRead(c) ==
    /\ comp[c].pc = "posts" /\ init # "pending"
    /\ Idle
    /\ LET first == FirstUnread(comp[c].from)
           latest == CHOOSE n \in posts : \A k \in posts : k <= n
       IN  comp' = IF init = "failed" \/ posts = {}
                   THEN [comp EXCEPT ![c].pc = "count", ![c].read = {}]
                   ELSE [comp EXCEPT ![c].pc = IF first \in posts THEN "count" ELSE "page",
                                     ![c].read = IF first \in posts THEN {n \in posts : n >= first}
                                                                    ELSE first..latest]
    /\ UNCHANGED <<server, delivered, st, blocker, cached, heap, promise, unread,
                   lastReads, failures, overlap, ahead, overtaken, leapt, unnoticed, piled>>

\* The page has been fetched, or the error caught and the stream left out.
PageAnswer(c) ==
    /\ comp[c].pc = "page"
    /\ Idle
    /\ \/ /\ comp' = [comp EXCEPT ![c].pc = "count"]
          /\ CachePosts(comp[c].read)
          /\ UNCHANGED failures
       \/ /\ comp' = [comp EXCEPT ![c].pc = "count", ![c].read = {}]
          /\ Fail
          /\ UNCHANGED <<posts, ahead>>
    /\ UNCHANGED <<server, delivered, st, blocker, known, me, init, heap, promise, unread,
                   lastReads, overlap, overtaken, leapt, unnoticed, piled>>

\* The promise is cleared, even if it is of another computation by now.
ComputeFinish(c) ==
    /\ comp[c].pc = "count"
    /\ Idle
    /\ comp' = [comp EXCEPT ![c] = [Idling EXCEPT !.pc = "done"]]
    /\ unread' = unread + Cardinality(comp[c].read)
    /\ lastReads' = comp[c].object
    /\ promise' = 0
    /\ UNCHANGED <<server, delivered, st, blocker, cached, heap, failures, overlap, ahead,
                   overtaken, leapt, unnoticed, piled>>

\* The promise stays, rejected.
ComputeFails(c) ==
    /\ comp[c].pc = "unread"
    /\ Idle
    /\ Fail
    /\ comp' = [comp EXCEPT ![c] = [Idling EXCEPT !.pc = "failed"]]
    /\ UNCHANGED <<server, delivered, st, blocker, cached, heap, promise, unread, lastReads,
                   overlap, ahead, overtaken, leapt, unnoticed, piled>>

--------------------------------------------------------------------------------
(* The user: the lastReads and the lastReadItems of Unreads, then resolve(), then *)
(* a computation if the mark has moved.                                           *)

GetLastReads(m) ==
    /\ m.type = "me" /\ st[m].pc = "ready"
    /\ st' = [st EXCEPT ![m] = [AwaitCompute(m, "items") EXCEPT !.shown = heap[lastReads]]]
    /\ UNCHANGED <<server, delivered, blocker, cached, counters, failures, overlap, ahead,
                   overtaken, leapt, unnoticed, piled>>

GetLastReadItems(m) ==
    /\ st[m].pc = "items"
    /\ st' = [st EXCEPT ![m] = AwaitCompute(m, "read")]
    /\ UNCHANGED <<server, delivered, blocker, cached, counters, failures, overlap, ahead,
                   overtaken, leapt, unnoticed, piled>>

\* cacheGet(): awaited, so other messages may read before this one writes.
ReadMe(m) ==
    /\ st[m].pc = "read"
    /\ st' = [st EXCEPT ![m].pc = "resolving", ![m].seen = me.version]
    /\ UNCHANGED <<server, delivered, blocker, cached, counters, failures, overlap, ahead,
                   overtaken, leapt, unnoticed, piled>>

\* The lastReads that the counters are for, and those they are going to be for.
CountedFrom == {lastReads} \cup {comp[c].object : c \in {d \in Computes : comp[d].pc \in InCore \cup {"waiting"}}}

\* The mark is compared with the one shown before the awaits.
ComputeIfMoved(m) ==
    LET moved == heap'[me'.object] # st[m].shown
    IN  /\ IF moved THEN Compute(m.n, me'.object) ELSE UNCHANGED <<comp, promise, unread, overlap>>
        /\ unnoticed' = (unnoticed \/ (~moved /\ \E o \in CountedFrom : heap[o] # st[m].shown))

\* MUTANT: the server is never asked.
CacheUpdateActionLocal(seen, version) == IF seen = version - 1 THEN "update" ELSE "skip"

\* getCacheUpdateAction() for a directive from version - 1 to version.
CacheUpdateAction(seen, version) ==
    CASE seen = version - 1 -> "update"
      [] seen >= version -> "skip"
      [] OTHER -> "query"

\* A directive is applied in place: also to the lastReads object of Unreads, if it is the same.
ApplyMe(m) ==
    /\ st[m].pc = "resolving"
    /\ LET action == CacheUpdateAction(st[m].seen, m.n)
       IN  /\ Move(m, IF action = "query" THEN "fetching" ELSE "done")
           /\ IF action = "update"
              THEN /\ me' = [me EXCEPT !.version = m.n]
                   /\ heap' = [heap EXCEPT ![me.object] = reads[m.n]]
                   /\ ComputeIfMoved(m)
              ELSE UNCHANGED <<me, heap, comp, promise, unread, overlap, unnoticed>>
    /\ UNCHANGED <<server, delivered, blocker, known, posts, init, lastReads, failures, ahead,
                   overtaken, leapt, piled>>

\* The server answers with what it has; the answer arrives later, and replaces whatever
\* is cached by then.
ServerAnswersMe(m) ==
    /\ m.type = "me" /\ st[m].pc = "fetching"
    /\ Idle
    /\ st' = [st EXCEPT ![m].pc = "answered", ![m].seen = Current]
    /\ UNCHANGED <<server, delivered, blocker, cached, counters, failures, overlap, ahead,
                   overtaken, leapt, unnoticed, piled>>

MeAnswer(m) ==
    /\ st[m].pc = "answered"
    /\ Idle
    /\ Move(m, "done")
    /\ me' = [version |-> st[m].seen, object |-> m.n]
    /\ heap' = [heap EXCEPT ![m.n] = reads[st[m].seen]]
    /\ overtaken' = (overtaken \/ st[m].seen < me.version)
    /\ leapt' = (leapt \/ st[m].seen > m.n)
    /\ ComputeIfMoved(m)
    /\ UNCHANGED <<server, delivered, blocker, known, posts, init, lastReads, failures, ahead, piled>>

MeFetchFails(m) ==
    /\ m.type = "me" /\ st[m].pc = "fetching"
    /\ Idle
    /\ Fail
    /\ Move(m, "dropped")
    /\ UNCHANGED <<server, delivered, blocker, cached, counters, overlap, ahead, overtaken, leapt, unnoticed, piled>>

--------------------------------------------------------------------------------
\* subscribe() has just started the first computation.  Some streams are known from the
\* login; if that of the posts is one of them, there may be a post to read.
Init ==
    /\ \E streams \in 0..MaxStreams :
        /\ log = [i \in 1..streams |-> Message("stream", i)]
        /\ delivered = streams
        /\ known = 1..streams
        /\ st = [m \in Messages |->
                    [Quiet EXCEPT !.pc = IF m.type = "stream" /\ m.n <= streams
                                         THEN "done" ELSE "none"]]
        /\ posted \in IF streams >= Target THEN {0, 1} ELSE {0}
        /\ reads \in IF posted = 1 THEN {<<Unset>>, <<0>>} ELSE {<<Unset>>}
    /\ blocker = 0
    /\ me = [version |-> 1, object |-> 1]
    /\ posts = {} /\ init = "no"
    /\ heap = [o \in Objects |-> IF o = 1 THEN reads[1] ELSE Unset]
    /\ comp = [c \in Computes |-> IF c = 1 THEN [Idling EXCEPT !.pc = "unread"] ELSE Idling]
    /\ promise = 1
    /\ unread = 0
    /\ lastReads = 0
    /\ failures = 0
    /\ overlap = {} /\ ahead = FALSE /\ overtaken = FALSE
    /\ leapt = FALSE /\ unnoticed = FALSE /\ piled = FALSE

MessageStep(m) ==
    \/ Release(m) \/ Resume(m)
    \/ ResolveStream(m) \/ StreamAnswer(m)
    \/ ResolvePost(m) \/ StorePost(m) \/ Count(m) \/ UpdateFails(m)
    \/ GetLastReads(m) \/ GetLastReadItems(m) \/ ReadMe(m) \/ ApplyMe(m)
    \/ ServerAnswersMe(m) \/ MeAnswer(m) \/ MeFetchFails(m)

ComputeStep(c) ==
    \/ ComputeResumes(c) \/ ServerAnswersUnread(c) \/ UnreadAnswer(c) \/ PostsRead(c) \/ PageAnswer(c)
    \/ ComputeFinish(c) \/ ComputeFails(c)

Next ==
    \/ ServerPosts \/ ServerMarksRead \/ ServerAddsStream
    \/ Deliver
    \/ InitAnswer
    \/ \E m \in Arrived : MessageStep(m)
    \/ \E c \in Computes : ComputeStep(c)

Spec == Init /\ [][Next]_vars

\* Requests are answered or fail, and the event loop runs what can run.  Nothing is assumed
\* of the server's side.
Processing == InitAnswer \/ (\E m \in Arrived : MessageStep(m)) \/ (\E c \in Computes : ComputeStep(c))

FairSpec == Spec /\ WF_vars(Processing)

--------------------------------------------------------------------------------
(* Properties. *)

\* The values the variables can have.  A promise that blocks is always one of a stream
\* message: the other kinds never make anything wait (codestreamApi.ts).
TypeOK ==
    /\ reads \in Seq(Unset..MaxPosts) /\ Current \in 1..MaxMe
    /\ posted \in 0..MaxPosts
    /\ log \in Seq(Messages) /\ delivered \in 0..Len(log)
    /\ st \in [Messages ->
                [pc : Ended \cup {"blocked", "ready", "fetching", "init", "waiting", "counting",
                                  "items", "read", "resolving", "answered"},
                 on : Nat, next : {"none", "counting", "items", "read"}, old : BOOLEAN,
                 shown : Unset..MaxPosts, seen : 0..MaxMe]]
    /\ blocker \in 0..MaxStreams /\ known \subseteq 1..MaxStreams
    /\ me \in [version : 1..MaxMe, object : Objects \ {0}]
    /\ posts \subseteq 1..MaxPosts /\ init \in {"no", "pending", "yes", "failed"}
    /\ heap \in [Objects -> Unset..MaxPosts]
    /\ comp \in [Computes ->
                  [pc : Ended \cup InCore \cup {"waiting", "failed"}, on : 0..MaxMe,
                   object : Objects, from : Unset..MaxPosts, read : SUBSET (1..MaxPosts)]]
    /\ promise \in 0..MaxMe /\ unread \in Nat /\ lastReads \in Objects
    /\ failures \in 0..MaxFailures
    /\ overlap \subseteq {"update", "computation"}
    /\ {ahead, overtaken, leapt, unnoticed, piled} \subseteq BOOLEAN

Busy ==
    \/ \E m \in Messages : st[m].pc \notin Ended
    \/ \E c \in Computes : comp[c].pc \notin Ended \cup {"failed"}

\* Nothing is under way, and no message is still to be delivered.
Settled ==
    /\ delivered = Len(log)
    /\ ~Busy

Truth == IF reads[Current] = Unset THEN 0 ELSE posted - reads[Current]

\* Once everything is processed the counter is the number of unread posts, whatever was
\* blocked, fetched and computed meanwhile: if no request failed, no computation overlapped
\* another or an update, or was bound to (both then count the same posts), no post was cached before its
\* message was processed (it is then taken for an edited one), no answer replaced a newer
\* user or brought one ahead of the messages (a post already read is then counted), no mark
\* was compared with an old one, and no two streams were waited for at once (unreads.ts,
\* codestreamApi.ts).
UnreadsAreExact ==
    Settled /\ failures = 0 /\ overlap = {} /\ ~ahead /\ ~overtaken /\ ~leapt /\ ~unnoticed /\ ~piled
        => unread = Truth

\* A computation that overlaps an update may count a post twice, and a user ahead of the
\* messages one already read, but neither makes an unread post disappear.  Two computations at
\* once can: the first to end clears the promise of the other, and of those that then start
\* without waiting an old one may be the last to reset the counter (unreads.ts).
NoUnreadIsMissed ==
    Settled /\ failures = 0 /\ "computation" \notin overlap /\ ~ahead /\ ~overtaken /\ ~unnoticed
            /\ ~piled
        => unread >= Truth

\* Once everything is processed the cached user is as the server has it, though several
\* changes were applied concurrently and some were fetched: only the answer to a fetch, if
\* it comes after a newer change was applied, leaves an old one (baseManager.ts).
UserIsCurrent ==
    Settled /\ failures = 0 /\ ~overtaken => me.version = Current

\* A message is given up for no other reason than a request that failed, or a second stream
\* message waiting for the first, which lets a post by before its stream is known
\* (codestreamApi.ts, unreads.ts).
LostOnlyByFailure ==
    (\E m \in Messages : st[m].pc = "dropped") => failures > 0 \/ piled

\* While a stream is resolved no message published after it is processed, across batches
\* too, unless one stream message has waited for another (codestreamApi.ts).
BlockersGoAlone ==
    ~piled => \A s, m \in Arrived :
                s.type = "stream" /\ st[s].pc \in {"ready", "fetching"} /\ Position(m) > Position(s)
                    => st[m].pc = "blocked"

\* A computation that goes for the posts does not find the first unread one in the cache only
\* if the processing of its message has yet to begin, and will count it then: however
\* the mark was moved between the server's opinion and the answer, no post falls between the
\* page and the updates (unreads.ts, postsManager.ts).
FirstIsCachedOrComes ==
    init = "yes" => \A c \in Computes :
        comp[c].pc = "posts"
            => LET first == FirstUnread(comp[c].from)
               IN  \/ first \in posts
                   \/ /\ Message("post", first) \in Published
                      /\ st[Message("post", first)].pc \in {"none", "blocked", "ready"}

\* No message waits for ever for the one that blocks it, nor for a computation, and no
\* computation for the one before, also when requests fail: what has been delivered is
\* processed in the end (codestreamApi.ts, unreads.ts).
EverythingSettles == []<>~Busy

================================================================================
