------------------------- MODULE RealTimeCounterProofs -------------------------
(***************************************************************************)
(* That the counter of unread posts is exact in the end, from the          *)
(* invariants of RealTimeProofs and one more, Ledger: which posts the      *)
(* counter, or the computation under way, has accounted for, and which     *)
(* messages will account for the others.  Then that it is not too small    *)
(* though updates overlap computations, from another invariant, Backed:    *)
(* that what is unread is covered whenever the user may become current.    *)
(***************************************************************************)
EXTENDS RealTimeProofs

Post(n) == Message("post", n)
Me(v) == Message("me", v)

EarlyStages == {"none", "blocked", "ready"}
PassedStages == {"fetching", "answered", "done", "dropped"}

\* Nothing of what UnreadsAreExact excludes has happened ...
Smooth == failures = 0 /\ overlap = {} /\ ~ahead /\ ~overtaken /\ ~leapt /\ ~unnoticed /\ ~piled

\* ... and none of it is bound to: an answer for a version that is behind the cached one either
\* replaces a newer user or leaps.
Late == \E m \in Messages : m.type = "me" /\ st[m].pc \in {"fetching", "answered"} /\ m.n < me.version

--------------------------------------------------------------------------------
(* What there is at the server. *)

\* The posts that were there when a version of the user was published: those before its message.
Through(marks, last, v) ==
    IF marks[v] # Unset THEN marks[v] + 1 ELSE IF v < Len(marks) THEN marks[v + 1] ELSE last

Alternates == \A v \in 2..Current : reads[v - 1] = Unset <=> reads[v] # Unset

ThroughGrows ==
    /\ \A v \in 1..Current : Through(reads, posted, v) \in 0..posted
    /\ \A v, w \in 1..Current : v <= w => Through(reads, posted, v) <= Through(reads, posted, w)

PublishedAfterFirst == \A n \in 1..posted : Post(n) \in Published <=> n > Through(reads, posted, 1)

InLogOrder ==
    \A i, j \in 1..Len(log) :
        /\ log[i].type = "post" /\ log[j].type = "me"
               => (i < j <=> log[i].n <= Through(reads, posted, log[j].n))
        /\ log[i].type \in {"post", "me"} /\ log[j].type = log[i].type /\ log[i].n < log[j].n => i < j

ServerOrder == Alternates /\ ThroughGrows /\ PublishedAfterFirst /\ InLogOrder

--------------------------------------------------------------------------------
(* Who accounts for which post. *)

\* A computation is of subscribe(), or of a message that is done: no message starts two.
Once == \A c \in Computes : comp[c].pc # "none" => c = 1 \/ st[Me(c)].pc = "done"

ShownAreMarks == \A m \in Messages : IsMark(st[m].shown, posted)

Awaiting == \E c \in Computes : comp[c].pc = "waiting"

\* One computation is under way, at most one waits for it, and no post is counted meanwhile.
OneAtATime ==
    /\ promise # 0 => comp[promise].pc \in InCore /\ unread = 0
    /\ \A c \in Computes : comp[c].pc \in InCore => promise = c
    /\ \A c, d \in Computes : comp[c].pc = "waiting" /\ comp[d].pc = "waiting" => c = d
    /\ \A c \in Computes : comp[c].pc = "waiting" => comp[comp[c].on].pc \in InCore \cup {"done"}
    /\ \A m \in Messages : st[m].pc = "waiting" => m.type = "me" /\ comp[st[m].on].pc \in InCore \cup {"done"}
    /\ \A m \in Messages : st[m].pc = "counting" => promise = 0 /\ ~st[m].old

\* What is cached has been processed, or is about to.
NoneSeenBefore ==
    /\ posts \subseteq 1..posted
    /\ \A c \in Computes : comp[c].read \subseteq 1..posted
    /\ \A n \in posts : Post(n) \in Published => st[Post(n)].pc \notin EarlyStages

\* The posts that precede the cached version of the user are done.
ReadAreDone ==
    \A n \in 1..posted :
        n <= Through(reads, posted, me.version) /\ Post(n) \in Published => st[Post(n)].pc = "done"

\* The object of the last computation, be it over, under way or waiting.
IsLast(o) ==
    \/ \E c \in Computes : comp[c].pc = "waiting" /\ comp[c].object = o
    \/ ~Awaiting /\ \E c \in Computes : promise = c /\ comp[c].object = o
    \/ ~Awaiting /\ promise = 0 /\ lastReads = o

\* Its mark is that of the cached user, unless a post that is not read has set it since.
MarkIsTheUsers ==
    \A o \in Objects : IsLast(o) =>
        \/ heap[o] = reads[me.version]
        \/ /\ reads[me.version] = Unset /\ heap[o] # Unset
           /\ st[Post(heap[o] + 1)].pc = "done" /\ heap[o] + 1 > Through(reads, posted, me.version)

\* The mark of a version that is not cached yet is nowhere, unless the post it is for has set it.
ShownAreOld ==
    \A v \in 1..Current :
        reads[v] # Unset /\ v > me.version /\ st[Post(reads[v] + 1)].pc # "done"
            => /\ \A o \in Objects : heap[o] # reads[v]
               /\ \A m \in Messages : st[m].shown # reads[v]

\* No post is done before a user published earlier has been resolved, or is being fetched.
NotOvertaken ==
    \A i, j \in 1..Len(log) :
        i < j /\ log[i].type = "me" /\ log[j].type = "post" /\ st[log[j]].pc = "done"
            => st[log[i]].pc \in PassedStages

\* A user published after a post that came during a computation waits for the computation.
WaitsBehind ==
    \A i, j \in 1..delivered :
        promise # 0 /\ i < j /\ log[i].type = "post" /\ st[log[i]].pc # "done" /\ log[j].type = "me"
            => st[log[j]].pc \in EarlyStages \/ (st[log[j]].pc = "waiting" /\ st[log[j]].on = promise)

\* If posts are done out of their order, no computation is under way and the mark is set.
InTurn ==
    \A k, n \in 1..posted :
        k < n /\ Post(k) \in Published /\ st[Post(k)].pc # "done" /\ Post(n) \in Published /\ st[Post(n)].pc = "done"
            => promise = 0 /\ ~Awaiting /\ heap[lastReads] # Unset

\* The posts of which no message is still to be processed.
Processed == {n \in 1..posted : Post(n) \in Published => st[Post(n)].pc = "done"}
Above(S, k) == {n \in S : n > k}

\* What a computation has read so far is what it should, unless the mark it started from is not
\* the server's any more.
Computed(c) ==
    LET x == comp[c]
        mark == heap[comp[c].object]
    IN  /\ x.pc \in {"unread", "nothing", "something", "posts"} => x.read = {}
        /\ x.pc = "nothing" => mark = Unset \/ mark # reads[Current]
        /\ x.pc \in {"posts", "page", "count"} => x.from = mark \/ (x.from = Unset /\ mark # reads[Current])
        /\ x.pc \in {"posts", "page"} => x.from # Unset /\ init # "no"
        /\ x.pc = "page" => /\ init = "yes" /\ x.from + 1 \notin posts
                            /\ x.from + 1 \in x.read \/ (x.read = {} /\ Above(Processed, x.from) = {})
        /\ x.pc = "count" => x.read = IF x.from = Unset THEN {} ELSE Above(Processed, x.from)

CoreIsRight == ~Awaiting => \A c \in Computes : comp[c].pc \in InCore => Computed(c)

\* With no computation under way the counter is of the posts after the mark, if that is the
\* server's and the user next to current.
CounterIsRight ==
    ~Awaiting /\ promise = 0 =>
        /\ heap[lastReads] = Unset => unread = 0
        /\ heap[lastReads] # Unset /\ heap[lastReads] = reads[Current] /\ me.version >= Current - 1
               => unread = Cardinality(Above(Processed, heap[lastReads]))

Ledger ==
    /\ Once /\ ShownAreMarks /\ OneAtATime /\ NoneSeenBefore /\ ReadAreDone /\ MarkIsTheUsers /\ ShownAreOld
    /\ NotOvertaken /\ WaitsBehind /\ InTurn /\ CoreIsRight /\ CounterIsRight

Kept == ServerOrder /\ (Smooth /\ ~Late => Ledger)

\* What has been proved already.
Foundations == Basics /\ InOrder /\ Lossless /\ UserKept /\ MarksAreBehind /\ AllCachedOrCome

\* The states of which Ledger is to be preserved.
Steady == Foundations /\ ServerOrder /\ Smooth /\ ~Late /\ Ledger

--------------------------------------------------------------------------------
(* What the proofs below keep needing. *)

\* What the values are of which the lemmas below compute.
LEMMA Values ==
    ASSUME Basics
    PROVE  /\ posted \in Nat /\ Current \in Nat /\ 1 <= Current
           /\ delivered \in Nat /\ Len(log) \in Nat /\ delivered <= Len(log)
           /\ me.version \in Nat /\ 1 <= me.version
           /\ lastReads \in Objects /\ unread \in Nat /\ promise \in Nat
           /\ promise # 0 => promise \in Computes
           /\ \A c \in Computes : /\ c \in Nat /\ c # 0 /\ comp[c].object \in Objects
                                  /\ comp[c].from \in Int
           /\ \A o \in Objects : heap[o] \in Int
           /\ \A v \in 1..Current : reads[v] \in Int
           /\ \A m \in Messages : st[m].shown \in Int
<1>1. Types
  BY Typed DEF Basics
<1>2. /\ posted \in Nat /\ Current \in Nat /\ 1 <= Current
      /\ delivered \in Nat /\ Len(log) \in Nat /\ delivered <= Len(log)
  BY Numbers DEF Basics
<1>3. /\ me.version \in Nat /\ 1 <= me.version
      /\ lastReads \in Objects /\ unread \in Nat /\ promise \in Nat
  BY <1>1, Bounds DEF Types, Others
<1>4. promise # 0 => promise \in Computes
  BY <1>1, Bounds DEF Types, Others, Computes
<1>5. \A k \in Unset..MaxPosts : k \in Int
  BY Bounds DEF Unset
<1>6. \A c \in Computes : /\ c \in Nat /\ c # 0 /\ comp[c].object \in Objects
                          /\ comp[c].from \in Int
  <2>1. \A c \in Computes : comp[c].object \in Objects /\ comp[c].from \in Unset..MaxPosts
    BY <1>1 DEF Types, Others, Computing
  <2>2. \A c \in Computes : c \in Nat /\ c # 0
    BY Bounds DEF Computes
  <2> QED BY <1>5, <2>1, <2>2
<1>7. \A o \in Objects : heap[o] \in Int
  BY <1>1, <1>5 DEF Types, Others
<1>8. \A v \in 1..Current : reads[v] \in Int
  BY <1>5, MarksTyped
<1>9. \A m \in Messages : st[m].shown \in Int
  BY <1>1, <1>5 DEF Types, Progress
<1> QED BY <1>2, <1>3, <1>4, <1>6, <1>7, <1>8, <1>9

\* What is noted of the history is never taken back.
HistoryGrows ==
    /\ failures' = failures \/ Fail
    /\ overlap \subseteq overlap' /\ (ahead => ahead') /\ (overtaken => overtaken')
    /\ (leapt => leapt') /\ (unnoticed => unnoticed') /\ (piled => piled')

LEMMA EveryStepGrows == [Next]_vars => HistoryGrows
<1> SUFFICES ASSUME [Next]_vars PROVE HistoryGrows
  OBVIOUS
<1> USE DEF HistoryGrows
<1>a. \A answer : CachePosts(answer) => (ahead => ahead')
  BY DEF CachePosts
<1>b. \A m, old : StartUpdate(m, old) => overlap \subseteq overlap'
  BY DEF StartUpdate
<1>c. \A c, object : StartCore(c, object) => overlap \subseteq overlap'
  BY DEF StartCore
<1>d. \A c, object : Compute(c, object) => overlap \subseteq overlap'
  BY <1>c DEF Compute
<1>2. CASE UNCHANGED vars
  BY <1>2 DEF vars
<1>3. CASE ServerPosts \/ ServerMarksRead \/ ServerAddsStream
  BY <1>3 DEF ServerPosts, ServerMarksRead, ServerAddsStream
<1>4. CASE Deliver
  <2>1. UNCHANGED <<failures, overlap, ahead, overtaken, leapt, unnoticed, piled>>
    BY <1>4, Zenon DEF Deliver
  <2> QED BY <2>1
<1>5. CASE InitAnswer
  BY <1>5, <1>a DEF InitAnswer
<1>6. ASSUME NEW m \in Arrived, MessageStep(m) PROVE HistoryGrows
  <2>1. CASE Release(m)
    <3>1. piled' = (piled \/ Blocks(m)) /\ UNCHANGED <<failures, overlap, ahead, overtaken, leapt, unnoticed>>
      BY <2>1 DEF Release
    <3> QED BY <3>1
  <2>2. CASE Resume(m) \/ ResolveStream(m) \/ StreamAnswer(m) \/ Count(m) \/ UpdateFails(m) \/ MeFetchFails(m)
    BY <2>2 DEF Resume, ResolveStream, StreamAnswer, Count, UpdateFails, MeFetchFails
  <2>3. CASE ResolvePost(m) \/ StorePost(m)
    <3>1. UNCHANGED <<failures, ahead, overtaken, leapt, unnoticed, piled>>
      BY <2>3 DEF ResolvePost, StorePost
    <3>2. overlap \subseteq overlap' \/ UNCHANGED overlap
      BY <2>3, <1>b DEF ResolvePost, StorePost
    <3> QED BY <3>1, <3>2
  <2>4. CASE GetLastReads(m) \/ GetLastReadItems(m) \/ ReadMe(m) \/ ServerAnswersMe(m)
    BY <2>4 DEF GetLastReads, GetLastReadItems, ReadMe, ServerAnswersMe
  <2>5. ASSUME ComputeIfMoved(m) PROVE overlap \subseteq overlap' /\ (unnoticed => unnoticed')
    BY <1>d, <2>5 DEF ComputeIfMoved
  <2>6. CASE ApplyMe(m)
    <3>1. UNCHANGED <<failures, ahead, overtaken, leapt, piled>>
      BY <2>6 DEF ApplyMe
    <3>2. ComputeIfMoved(m) \/ UNCHANGED <<overlap, unnoticed>>
      BY <2>6 DEF ApplyMe
    <3> QED BY <2>5, <3>1, <3>2
  <2>7. CASE MeAnswer(m)
    <3>1. ComputeIfMoved(m) /\ UNCHANGED <<failures, ahead, piled>>
      BY <2>7 DEF MeAnswer
    <3>2. (overtaken => overtaken') /\ (leapt => leapt')
      BY <2>7 DEF MeAnswer
    <3> QED BY <2>5, <3>1, <3>2
  <2> QED BY <1>6, <2>1, <2>2, <2>3, <2>4, <2>6, <2>7 DEF MessageStep
<1>7. ASSUME NEW c \in Computes, ComputeStep(c) PROVE HistoryGrows
  BY <1>7, <1>a, <1>c DEF ComputeStep, ComputeResumes, ServerAnswersUnread, UnreadAnswer, PostsRead,
              PageAnswer, ComputeFinish, ComputeFails
<1> QED BY <1>2, <1>3, <1>4, <1>5, <1>6, <1>7 DEF Next

\* Nothing of what Smooth excludes can be undone.
LEMMA FlagsStay == Basics /\ [Next]_vars /\ Smooth' => Smooth
<1> SUFFICES ASSUME Basics, [Next]_vars, Smooth' PROVE Smooth
  OBVIOUS
<1>1. HistoryGrows /\ failures \in Nat
  BY EveryStepGrows, Typed, Bounds DEF Basics, Types, Others
<1>2. failures' = 0 => failures = 0
  BY <1>1 DEF HistoryGrows, Fail
<1> QED BY <1>1, <1>2 DEF Smooth, HistoryGrows

\* ... and a late answer does one of them.
LEMMA LateStays ==
    ASSUME Basics, UserKept, [Next]_vars, Smooth', Late
    PROVE  Late'
<1>1. PICK m \in Messages : m.type = "me" /\ st[m].pc \in {"fetching", "answered"} /\ m.n < me.version
  BY DEF Late
<1>2. m.n \in Nat /\ me.version \in Nat
  BY Kinds, Values
<1>3. SUFFICES st'[m].pc \in {"fetching", "answered"} /\ m.n < me'.version
  BY <1>1 DEF Late
<1>4. m \in Arrived
  BY <1>1 DEF Basics, Staged, StagedMessage
<1>5. CASE UNCHANGED <<st, me>>
  BY <1>1, <1>5
<1>6. CASE Deliver
  <2>1. \A o \in Messages : st'[o] = st[o] \/ st[o].pc = "none"
    <3>1. PICK size \in 1..MaxBatch :
            LET batch == (delivered + 1)..(delivered + size)
            IN  /\ batch \in SUBSET (1..Len(log))
                /\ \A o \in Messages : o \notin {log[i] : i \in batch} => st'[o] = st[o]
      BY <1>6, DeliverGives
    <3> DEFINE batch == (delivered + 1)..(delivered + size)
    <3>2. \A i \in batch : i \in 1..Len(log) /\ i \notin 1..delivered
      BY <3>1, Values
    <3>3. \A i \in batch : log[i] \notin Arrived /\ log[i] \in Messages
      BY <3>2, Places, Values DEF Basics, Logged
    <3>4. \A i \in batch : st[log[i]].pc = "none"
      BY <3>3 DEF Basics, Staged, StagedMessage
    <3> QED BY <3>1, <3>4
  <2>2. me' = me
    BY <1>6 DEF Deliver, cached
  <2> QED BY <1>1, <2>1, <2>2
<1>7. ASSUME NEW o \in Arrived, MessageStep(o) PROVE st'[m].pc \in {"fetching", "answered"} /\ m.n < me'.version
  <2>1. failures' = 0 /\ ~overtaken' /\ ~leapt'
    BY DEF Smooth
  <2>2. o \in Messages
    BY Places DEF Basics
  <2>3. CASE o = m
    <3>1. MeAnswer(m) \/ MeFetchFails(m) \/ ServerAnswersMe(m)
      BY <1>1, <1>7, <2>3 DEF MessageStep, Release, Resume, ResolveStream, StreamAnswer, ResolvePost, StorePost,
                              Count, UpdateFails, GetLastReads, GetLastReadItems, ReadMe, ApplyMe
    <3>2. ~MeFetchFails(m)
      BY <1>4, <2>1, UpdateFailsBasics
    <3>3. ASSUME MeAnswer(m) PROVE FALSE
      <4>1. st[m].seen \in m.n..Current /\ overtaken' = (overtaken \/ st[m].seen < me.version)
        BY <1>4, <3>3, MeAnswerBasics
      <4>2. leapt' = (leapt \/ st[m].seen > m.n)
        BY <3>3 DEF MeAnswer
      <4>3. ~(st[m].seen < me.version) /\ ~(st[m].seen > m.n)
        BY <2>1, <4>1, <4>2
      <4>4. st[m].seen \in Nat
        BY <1>2, <4>1, Values
      <4> QED BY <1>1, <1>2, <4>3, <4>4
    <3>4. ServerAnswersMe(m)
      BY <3>1, <3>2, <3>3
    <3> QED BY <1>1, <1>4, <3>4, ServerAnswersMeBasics DEF ServerAnswersMe, cached
  <2>4. CASE o # m
    <3>1. st'[m] = st[m]
      BY <1>7, <2>2, <2>4, ReleaseBasics, ResolveStreamBasics, StreamAnswerBasics, OtherSteps
         DEF MessageStep, UpdateStep, UserStep
    <3>2. me' = me \/ me.version <= me'.version
      <4>1. CASE ApplyMe(o)
        <5>1. me' = IF CacheUpdateAction(st[o].seen, o.n) = "update" THEN [me EXCEPT !.version = o.n] ELSE me
          BY <4>1, ApplyMeBasics
        <5>2. CASE CacheUpdateAction(st[o].seen, o.n) = "update"
          <6>1. o.type = "me" /\ st[o].pc = "resolving" /\ o.n \in Nat
            BY <2>2, <4>1, ApplyMeBasics, Kinds DEF ApplyMe
          <6>2. st[o].seen = o.n - 1
            BY <5>2 DEF CacheUpdateAction
          <6>3. me.version = o.n - 1
            BY <2>2, <6>1, <6>2 DEF UserKept, Applicable
          <6>4. me'.version = o.n
            BY <5>1, <5>2, Typed DEF Basics, Types, Others
          <6> QED BY <1>2, <6>1, <6>3, <6>4
        <5> QED BY <5>1, <5>2
      <4>2. CASE MeAnswer(o)
        <5>1. me'.version = st[o].seen /\ overtaken' = (overtaken \/ st[o].seen < me.version) /\ st[o].seen \in o.n..Current
          BY <4>2, MeAnswerBasics
        <5>2. ~(st[o].seen < me.version)
          BY <2>1, <5>1
        <5>3. st[o].seen \in Nat
          BY <2>2, <5>1, Kinds, Values
        <5> QED BY <1>2, <5>1, <5>2, <5>3
      <4>3. CASE ~ApplyMe(o) /\ ~MeAnswer(o)
        BY <1>7, <4>3 DEF MessageStep, Release, Resume, ResolveStream, StreamAnswer, ResolvePost, StorePost,
                          Count, UpdateFails, MeFetchFails, GetLastReads, GetLastReadItems, ReadMe,
                          ServerAnswersMe, cached
      <4> QED BY <4>1, <4>2, <4>3
    <3>3. me'.version \in Nat
      <4>1. Types'
        BY NextBasics, Typed DEF Basics
      <4>2. me' \in [version : 1..MaxMe, object : Objects \ {0}]
        BY <4>1 DEF Types, Others
      <4> QED BY <4>2, Bounds
    <3> QED BY <1>1, <1>2, <3>1, <3>2, <3>3
  <2> QED BY <2>3, <2>4
<1>8. ASSUME NEW c \in Computes, ComputeStep(c) PROVE UNCHANGED <<st, me>>
  BY <1>8, ComputeSteps
<1>9. ASSUME UNCHANGED vars \/ ServerPosts \/ ServerMarksRead \/ ServerAddsStream \/ InitAnswer PROVE UNCHANGED <<st, me>>
  BY <1>9 DEF vars, cached, ServerPosts, ServerMarksRead, ServerAddsStream, InitAnswer
<1> QED BY <1>5, <1>6, <1>7, <1>8, <1>9 DEF Next

--------------------------------------------------------------------------------
(* What the server adds, and that it keeps its order. *)

\* Publishing one message adds it to the end of the log ...
LEMMA OneMore ==
    ASSUME Basics, NEW a \in Messages, Publish(<<a>>)
    PROVE  /\ Len(log') = Len(log) + 1 /\ log'[Len(log) + 1] = a
           /\ \A i \in 1..Len(log) : log'[i] = log[i]
<1> DEFINE news == <<a>>
<1>1. news \in Seq(Messages) /\ Len(news) = 1 /\ news[1] = a /\ Publish(news)
  OBVIOUS
<1> HIDE DEF news
<1>2. 1 \in 1..Len(news)
  BY <1>1
<1> QED BY <1>1, <1>2, Appended DEF Basics

\* ... and publishing two adds both.
LEMMA TwoMore ==
    ASSUME Basics, NEW a \in Messages, NEW b \in Messages, Publish(<<a, b>>)
    PROVE  /\ Len(log') = Len(log) + 2 /\ log'[Len(log) + 1] = a /\ log'[Len(log) + 2] = b
           /\ \A i \in 1..Len(log) : log'[i] = log[i]
<1> DEFINE news == <<a, b>>
<1>1. news \in Seq(Messages) /\ Len(news) = 2 /\ news[1] = a /\ news[2] = b /\ Publish(news)
  OBVIOUS
<1> HIDE DEF news
<1>2. 1 \in 1..Len(news) /\ 2 \in 1..Len(news)
  BY <1>1
<1> QED BY <1>1, <1>2, Appended DEF Basics

\* What the three actions of the server have in common.
ServerGrows ==
    /\ posted' \in {posted, posted + 1} /\ Current' \in {Current, Current + 1}
    /\ \A v \in 1..Current : reads'[v] = reads[v]
    /\ Current' = Current /\ posted' = posted + 1 => reads[Current] # Unset
    /\ Current' = Current + 1 =>
        \/ reads[Current] = Unset /\ reads'[Current + 1] = posted /\ posted' = posted + 1
        \/ reads[Current] # Unset /\ reads'[Current + 1] = Unset /\ posted' = posted
    /\ Len(log') \in Nat /\ Len(log) <= Len(log') /\ \A i \in 1..Len(log) : log'[i] = log[i]
    /\ \A i \in (Len(log) + 1)..Len(log') :
        /\ log'[i].type = "post" => log'[i].n = posted + 1 /\ posted' = posted + 1
        /\ log'[i].type = "me" => log'[i].n = Current + 1 /\ Current' = Current + 1
    /\ \A i, j \in (Len(log) + 1)..Len(log') :
        /\ log'[i].type = "post" /\ log'[j].type = "me" => i < j
        /\ log'[i].type = log'[j].type => i = j
    /\ posted' = posted + 1 => \E i \in 1..Len(log') : log'[i] = Post(posted + 1)

\* Each of them does what they have in common.
LEMMA ServerGives ==
    ASSUME Basics, ServerPosts \/ ServerMarksRead \/ ServerAddsStream
    PROVE  ServerGrows
<1> DEFINE post == Post(posted + 1)
           mine == Me(Current + 1)
<1>1. /\ posted \in Nat /\ Current \in Nat /\ 1 <= Current /\ Len(log) \in Nat
      /\ reads \in Seq(Unset..MaxPosts) /\ Len(reads) = Current
  BY Values, Typed DEF Basics, Types, Current
<1>2. /\ post.type = "post" /\ post.n = posted + 1 /\ mine.type = "me" /\ mine.n = Current + 1
      /\ posted < MaxPosts => post \in Messages
      /\ Current < MaxMe => mine \in Messages
  BY <1>1, Kinds, Bounds DEF Post, Me
<1>3. \A k \in 1..MaxStreams : /\ Message("stream", k) \in Messages /\ Message("stream", k).type = "stream"
  BY Kinds
<1>4. ASSUME NEW k, reads' = Append(reads, k)
      PROVE  Current' = Current + 1 /\ reads'[Current + 1] = k /\ \A v \in 1..Current : reads'[v] = reads[v]
  BY <1>1, <1>4 DEF Current
<1> HIDE DEF post, mine
<1>5. CASE ServerPosts /\ reads[Current] # Unset
  <2>1. posted < MaxPosts /\ posted' = posted + 1 /\ Publish(<<post>>) /\ UNCHANGED reads
    BY <1>5 DEF ServerPosts, post, Post
  <2>2. /\ Len(log') = Len(log) + 1 /\ log'[Len(log) + 1] = post
        /\ \A i \in 1..Len(log) : log'[i] = log[i]
    BY <1>2, <2>1, OneMore
  <2>3. Len(log') \in Nat /\ Len(log) + 1 \in 1..Len(log') /\ (Len(log) + 1)..Len(log') = {Len(log) + 1}
    BY <1>1, <2>2
  <2>4. Current' = Current
    BY <2>1 DEF Current
  <2>5. \E i \in 1..Len(log') : log'[i] = Post(posted + 1)
    BY <2>2, <2>3 DEF post
  <2> QED BY <1>1, <1>2, <1>5, <2>1, <2>2, <2>3, <2>4, <2>5 DEF ServerGrows
<1>6. CASE ServerPosts /\ reads[Current] = Unset
  <2>1. /\ posted < MaxPosts /\ posted' = posted + 1 /\ Current < MaxMe
        /\ Publish(<<post, mine>>) /\ reads' = Append(reads, posted)
    BY <1>6 DEF ServerPosts, post, mine, Post, Me
  <2>2. /\ Len(log') = Len(log) + 2 /\ log'[Len(log) + 1] = post /\ log'[Len(log) + 2] = mine
        /\ \A i \in 1..Len(log) : log'[i] = log[i]
    BY <1>2, <2>1, TwoMore
  <2>3. /\ Len(log') \in Nat /\ Len(log) + 1 \in 1..Len(log')
        /\ \A i \in (Len(log) + 1)..Len(log') : i = Len(log) + 1 \/ i = Len(log) + 2
    BY <1>1, <2>2
  <2>4. Current' = Current + 1 /\ reads'[Current + 1] = posted /\ \A v \in 1..Current : reads'[v] = reads[v]
    BY <1>4, <2>1
  <2>5. \E i \in 1..Len(log') : log'[i] = Post(posted + 1)
    BY <2>2, <2>3 DEF post
  <2>6. \A i \in (Len(log) + 1)..Len(log') :
            \/ i = Len(log) + 1 /\ log'[i] = post
            \/ i = Len(log) + 2 /\ log'[i] = mine
    BY <2>2, <2>3
  <2>7. \A i \in (Len(log) + 1)..Len(log') :
        /\ log'[i].type = "post" => log'[i].n = posted + 1
        /\ log'[i].type = "me" => log'[i].n = Current + 1
    BY <1>2, <2>6
  <2>8. \A i, j \in (Len(log) + 1)..Len(log') :
        /\ log'[i].type = "post" /\ log'[j].type = "me" => i < j
        /\ log'[i].type = log'[j].type => i = j
    BY <1>1, <1>2, <2>6
  <2> QED BY <1>1, <1>6, <2>1, <2>2, <2>3, <2>4, <2>5, <2>7, <2>8 DEF ServerGrows
<1>7. CASE ServerMarksRead
  <2>1. /\ UNCHANGED posted /\ Current < MaxMe /\ reads[Current] # Unset
        /\ Publish(<<mine>>) /\ reads' = Append(reads, Unset)
    BY <1>7 DEF ServerMarksRead, mine, Me
  <2>2. /\ Len(log') = Len(log) + 1 /\ log'[Len(log) + 1] = mine
        /\ \A i \in 1..Len(log) : log'[i] = log[i]
    BY <1>2, <2>1, OneMore
  <2>3. Len(log') \in Nat /\ Len(log) + 1 \in 1..Len(log') /\ (Len(log) + 1)..Len(log') = {Len(log) + 1}
    BY <1>1, <2>2
  <2>4. Current' = Current + 1 /\ reads'[Current + 1] = Unset /\ \A v \in 1..Current : reads'[v] = reads[v]
    BY <1>4, <2>1
  <2> QED BY <1>1, <1>2, <2>1, <2>2, <2>3, <2>4 DEF ServerGrows
<1>8. CASE ServerAddsStream
  <2>1. PICK k \in 1..MaxStreams : Publish(<<Message("stream", k)>>)
    BY <1>8 DEF ServerAddsStream
  <2>2. /\ Len(log') = Len(log) + 1 /\ log'[Len(log) + 1] = Message("stream", k)
        /\ \A i \in 1..Len(log) : log'[i] = log[i]
    BY <1>3, <2>1, OneMore
  <2>3. Len(log') \in Nat /\ (Len(log) + 1)..Len(log') = {Len(log) + 1}
    BY <1>1, <2>2
  <2>4. UNCHANGED <<reads, posted>> /\ Current' = Current
    BY <1>8 DEF ServerAddsStream, Current
  <2> QED BY <1>1, <1>3, <2>2, <2>3, <2>4 DEF ServerGrows
<1> QED BY <1>5, <1>6, <1>7, <1>8

\* The versions that were there keep the posts that precede them.
LEMMA ThroughStays ==
    ASSUME Basics, ServerGrows
    PROVE  \A v \in 1..Current : Through(reads', posted', v) = Through(reads, posted, v) /\ v \in 1..Current'
<1> SUFFICES ASSUME NEW v \in 1..Current
             PROVE  Through(reads', posted', v) = Through(reads, posted, v) /\ v \in 1..Current'
  OBVIOUS
<1>1. posted \in Nat /\ Current \in Nat /\ Current' \in {Current, Current + 1} /\ v \in Int /\ 1 <= v /\ v <= Current
  BY Values DEF ServerGrows
<1>2. v \in 1..Current' /\ reads'[v] = reads[v] /\ Len(reads) = Current /\ Len(reads') = Current'
  BY <1>1 DEF ServerGrows, Current
<1>3. CASE reads[v] # Unset
  BY <1>2, <1>3 DEF Through
<1>4. CASE reads[v] = Unset /\ v < Current
  <2>1. v + 1 \in 1..Current /\ v < Current'
    BY <1>1, <1>4
  <2>2. reads'[v + 1] = reads[v + 1]
    BY <2>1 DEF ServerGrows
  <2> QED BY <1>2, <1>4, <2>1, <2>2 DEF Through
<1>5. CASE reads[v] = Unset /\ v = Current
  <2>1. Through(reads, posted, v) = posted
    BY <1>1, <1>2, <1>5 DEF Through
  <2>2. CASE Current' = Current
    <3>1. posted' = posted
      BY <1>5, <2>2 DEF ServerGrows
    <3> QED BY <1>1, <1>2, <1>5, <2>1, <2>2, <3>1 DEF Through
  <2>3. CASE Current' = Current + 1
    <3>1. reads'[v + 1] = posted /\ v < Current'
      BY <1>1, <1>5, <2>3 DEF ServerGrows
    <3> QED BY <1>2, <1>5, <2>1, <3>1 DEF Through
  <2> QED BY <1>1, <2>2, <2>3
<1> QED BY <1>1, <1>3, <1>4, <1>5

\* The posts that were there are published if they were, a new one is.
LEMMA PublishedStays ==
    ASSUME Basics, Basics', ServerGrows
    PROVE  /\ \A n \in 1..posted : Post(n) \in Published' <=> Post(n) \in Published
           /\ posted' = posted + 1 => Post(posted + 1) \in Published'
<1>1. DOMAIN log = 1..Len(log) /\ DOMAIN log' = 1..Len(log')
  <2>1. log \in Seq(Messages) /\ log' \in Seq(Messages)
    BY Typed DEF Basics, Types
  <2> QED BY <2>1
<1>2. Len(log) \in Nat /\ Len(log') \in Nat /\ posted \in Nat /\ Len(log) <= Len(log')
  BY Values DEF ServerGrows
<1>3. ASSUME NEW n \in 1..posted PROVE Post(n) \in Published' <=> Post(n) \in Published
  <2>1. ASSUME Post(n) \in Published PROVE Post(n) \in Published'
    <3>1. PICK i \in 1..Len(log) : log[i] = Post(n)
      BY <1>1, <2>1 DEF Published
    <3>2. i \in 1..Len(log') /\ log'[i] = Post(n)
      BY <1>2, <3>1 DEF ServerGrows
    <3> QED BY <1>1, <3>2 DEF Published
  <2>2. ASSUME Post(n) \in Published' PROVE Post(n) \in Published
    <3>1. PICK i \in 1..Len(log') : log'[i] = Post(n)
      BY <1>1, <2>2 DEF Published
    <3>2. ASSUME i \notin 1..Len(log) PROVE FALSE
      <4>1. i \in (Len(log) + 1)..Len(log')
        BY <1>2, <3>2
      <4>2. Post(n).type = "post" /\ Post(n).n = n
        BY Kinds DEF Post
      <4>3. n = posted + 1
        BY <3>1, <4>1, <4>2 DEF ServerGrows
      <4> QED BY <1>2, <4>3
    <3>3. log[i] = Post(n)
      BY <3>1, <3>2 DEF ServerGrows
    <3> QED BY <1>1, <3>2, <3>3 DEF Published
  <2> QED BY <2>1, <2>2
<1>4. posted' = posted + 1 => Post(posted + 1) \in Published'
  BY <1>1 DEF ServerGrows, Published
<1> QED BY <1>3, <1>4

\* What has just been published has not been delivered.
LEMMA NewsIsQuiet ==
    ASSUME Basics, Basics', ServerGrows, delivered' = delivered, NEW i \in (Len(log) + 1)..Len(log')
    PROVE  log'[i] \in Messages /\ st'[log'[i]].pc = "none"
<1>1. log' \in Seq(Messages) /\ Len(log') \in Nat
  BY Typed DEF Basics, Types
<1>2. Len(log) \in Nat /\ delivered \in Nat /\ delivered <= Len(log) /\ Len(log) <= Len(log')
  BY Values DEF ServerGrows
<1>3. i \in 1..Len(log') /\ log'[i] \in Messages
  BY <1>1, <1>2
<1>4. ASSUME NEW j \in 1..delivered', log'[j] = log'[i] PROVE FALSE
  <2>1. j \in 1..Len(log') /\ j # i
    BY <1>1, <1>2
  <2> QED BY <1>3, <1>4, <2>1 DEF Basics, Logged
<1>5. log'[i] \notin Arrived'
  BY <1>4 DEF Arrived
<1> QED BY <1>3, <1>5 DEF Basics, Staged, StagedMessage

\* The order at the server is kept by its own steps.
LEMMA ServerKeepsOrder ==
    ASSUME Basics, Basics', ServerOrder, ServerGrows
    PROVE  ServerOrder'
<1>1. /\ posted \in Nat /\ Current \in Nat /\ 1 <= Current
      /\ posted' \in {posted, posted + 1} /\ Current' \in {Current, Current + 1}
      /\ Len(log) \in Nat /\ Len(log') \in Nat /\ Len(log) <= Len(log')
  BY Values DEF ServerGrows
<1>2. \A v \in 1..Current' : v \in 1..Current \/ (v = Current + 1 /\ Current' = Current + 1)
  BY <1>1
<1>3. \A v \in 1..Current : reads'[v] = reads[v]
  BY DEF ServerGrows
<1>4. Current' = Current + 1 =>
        \/ reads[Current] = Unset /\ reads'[Current + 1] = posted /\ posted' = posted + 1
        \/ reads[Current] # Unset /\ reads'[Current + 1] = Unset /\ posted' = posted
  BY DEF ServerGrows
<1>5. \A v \in 1..Current : /\ Through(reads', posted', v) = Through(reads, posted, v)
                            /\ Through(reads, posted, v) \in 0..posted
  BY ThroughStays DEF ServerOrder, ThroughGrows
<1>6. Current' = Current + 1 => Through(reads', posted', Current + 1) = posted'
  <2>1. CASE Current' = Current + 1 /\ reads'[Current + 1] = Unset
    <3>1. ~(Current + 1 < Len(reads'))
      BY <1>1, <2>1 DEF Current
    <3> QED BY <2>1, <3>1 DEF Through
  <2>2. CASE Current' = Current + 1 /\ reads'[Current + 1] = posted /\ posted' = posted + 1
    <3>1. posted # Unset
      BY <1>1 DEF Unset
    <3> QED BY <2>2, <3>1 DEF Through
  <2> QED BY <1>4, <2>1, <2>2
<1>7. Alternates'
  <2> SUFFICES ASSUME NEW v \in 2..Current' PROVE reads'[v - 1] = Unset <=> reads'[v] # Unset
    BY DEF Alternates
  <2>1. CASE v \in 2..Current
    <3>1. v \in 1..Current /\ v - 1 \in 1..Current
      BY <1>1, <2>1
    <3> QED BY <1>3, <2>1, <3>1 DEF ServerOrder, Alternates
  <2>2. CASE v = Current + 1 /\ Current' = Current + 1
    <3>1. v - 1 = Current /\ reads'[Current] = reads[Current]
      BY <1>1, <1>3, <2>2
    <3>2. posted # Unset
      BY <1>1 DEF Unset
    <3> QED BY <1>4, <2>2, <3>1, <3>2
  <2> QED BY <1>1, <2>1, <2>2
<1>8. ThroughGrows'
  <2>1. \A v \in 1..Current' : Through(reads', posted', v) \in 0..posted'
    BY <1>1, <1>2, <1>5, <1>6
  <2>2. ASSUME NEW v \in 1..Current', NEW w \in 1..Current', v <= w
        PROVE  Through(reads', posted', v) <= Through(reads', posted', w)
    <3>1. CASE w \in 1..Current
      <4>1. v \in 1..Current
        BY <1>1, <2>2, <3>1
      <4> QED BY <1>5, <2>2, <3>1, <4>1 DEF ServerOrder, ThroughGrows
    <3>2. CASE w = Current + 1 /\ Current' = Current + 1
      BY <1>1, <1>6, <2>1, <3>2
    <3> QED BY <1>2, <3>1, <3>2
  <2> QED BY <2>1, <2>2 DEF ThroughGrows
<1>9. PublishedAfterFirst'
  <2> SUFFICES ASSUME NEW n \in 1..posted' PROVE Post(n) \in Published' <=> n > Through(reads', posted', 1)
    BY DEF PublishedAfterFirst
  <2>1. 1 \in 1..Current
    BY <1>1
  <2>2. CASE n \in 1..posted
    BY <1>5, <2>1, <2>2, PublishedStays DEF ServerOrder, PublishedAfterFirst
  <2>3. CASE n = posted + 1 /\ posted' = posted + 1
    <3>1. Through(reads', posted', 1) \in 0..posted
      BY <1>5, <2>1
    <3>2. n > Through(reads', posted', 1)
      BY <1>1, <2>3, <3>1
    <3> QED BY <2>3, <3>2, PublishedStays
  <2> QED BY <1>1, <2>2, <2>3
<1>10. InLogOrder'
  <2> SUFFICES ASSUME NEW i \in 1..Len(log'), NEW j \in 1..Len(log')
               PROVE  /\ log'[i].type = "post" /\ log'[j].type = "me"
                            => (i < j <=> log'[i].n <= Through(reads', posted', log'[j].n))
                      /\ log'[i].type \in {"post", "me"} /\ log'[j].type = log'[i].type
                         /\ log'[i].n < log'[j].n => i < j
    BY DEF InLogOrder
  <2> DEFINE new == (Len(log) + 1)..Len(log')
  <2>1. /\ i \in 1..Len(log) \/ i \in new
        /\ j \in 1..Len(log) \/ j \in new
    BY <1>1
  <2>2. \A k \in 1..Len(log) : log'[k] = log[k] /\ log[k] \in Messages
    BY Places DEF ServerGrows, Basics
  <2>3. \A k \in 1..Len(log) : /\ log[k].type = "post" => log[k].n <= posted /\ log[k].n \in Nat
                               /\ log[k].type = "me" => log[k].n \in 1..Current
    <3> SUFFICES ASSUME NEW k \in 1..Len(log)
                 PROVE  /\ log[k].type = "post" => log[k].n <= posted /\ log[k].n \in Nat
                        /\ log[k].type = "me" => log[k].n \in 1..Current
      OBVIOUS
    <3>1. log[k] \in Messages
      BY <2>2
    <3>2. log[k].type = "me" => log[k].n \in 2..MaxMe
      BY <3>1, Kinds
    <3> QED BY <1>1, <3>1, <3>2, Kinds, Bounds DEF Basics, Logged
  <2>4. \A k \in new : /\ log'[k].type = "post" => log'[k].n = posted + 1 /\ posted' = posted + 1
                       /\ log'[k].type = "me" => log'[k].n = Current + 1 /\ Current' = Current + 1
    BY DEF ServerGrows
  <2>5. \A k, l \in new : /\ log'[k].type = "post" /\ log'[l].type = "me" => k < l
                          /\ log'[k].type = log'[l].type => k = l
    BY DEF ServerGrows
  <2>6. \A k \in new : \A l \in 1..Len(log) : l < k /\ k \in Nat /\ l \in Nat
    BY <1>1
  <2> HIDE DEF new
  <2>7. CASE i \in 1..Len(log) /\ j \in 1..Len(log)
    BY <1>5, <2>2, <2>3, <2>7 DEF ServerOrder, InLogOrder
  <2>8. CASE i \in 1..Len(log) /\ j \in new
    <3>1. i < j /\ log'[i] = log[i]
      BY <2>2, <2>6, <2>8
    <3>2. ASSUME log'[i].type = "post", log'[j].type = "me" PROVE log'[i].n <= Through(reads', posted', log'[j].n)
      BY <1>1, <1>6, <2>3, <2>4, <2>8, <3>1, <3>2
    <3> QED BY <3>1, <3>2
  <2>9. CASE i \in new /\ j \in 1..Len(log)
    <3>1. j < i /\ ~(i < j) /\ log'[j] = log[j]
      BY <2>2, <2>6, <2>9
    <3>2. ASSUME log'[i].type = "post", log'[j].type = "me" PROVE ~(log'[i].n <= Through(reads', posted', log'[j].n))
      <4>1. log[j].n \in 1..Current /\ log'[i].n = posted + 1
        BY <2>3, <2>4, <2>9, <3>1, <3>2
      <4>2. Through(reads', posted', log[j].n) \in 0..posted
        BY <1>5, <4>1
      <4> QED BY <1>1, <3>1, <4>1, <4>2
    <3>3. ASSUME log'[i].type \in {"post", "me"}, log'[j].type = log'[i].type PROVE ~(log'[i].n < log'[j].n)
      <4>1. CASE log'[i].type = "post"
        BY <1>1, <2>3, <2>4, <2>9, <3>1, <3>3, <4>1
      <4>2. CASE log'[i].type = "me"
        BY <1>1, <2>3, <2>4, <2>9, <3>1, <3>3, <4>2
      <4> QED BY <3>3, <4>1, <4>2
    <3> QED BY <3>1, <3>2, <3>3
  <2>10. CASE i \in new /\ j \in new
    <3>1. ASSUME log'[i].type = "post", log'[j].type = "me"
          PROVE  i < j /\ log'[i].n <= Through(reads', posted', log'[j].n)
      BY <1>1, <1>6, <2>4, <2>5, <2>10, <3>1
    <3>2. ASSUME log'[i].type \in {"post", "me"}, log'[j].type = log'[i].type PROVE ~(log'[i].n < log'[j].n)
      <4>1. i = j
        BY <2>5, <2>10, <3>2
      <4>2. log'[i].n \in Int
        BY <1>1, <2>4, <2>10, <3>2
      <4> QED BY <4>1, <4>2
    <3> QED BY <3>1, <3>2
  <2> QED BY <2>1, <2>7, <2>8, <2>9, <2>10
<1> QED BY <1>7, <1>8, <1>9, <1>10 DEF ServerOrder

--------------------------------------------------------------------------------
(* What follows from the order of the log, and from the event loop being idle. *)

\* A mark that is set again is set further on.
LEMMA MarksGrow ==
    ASSUME Basics, ServerOrder, NEW v \in 1..Current, NEW w \in 1..Current, v < w,
           reads[v] # Unset, reads[w] # Unset
    PROVE  reads[v] < reads[w]
<1>1. /\ Current \in Nat /\ v \in Int /\ w \in Int /\ w - 1 \in 1..Current /\ w \in 2..Current
      /\ w - 1 + 1 = w /\ w - 1 < Len(reads) /\ reads[v] \in Int /\ reads[w] \in Int
  BY Values DEF Current
<1>2. reads[w - 1] = Unset
  BY <1>1 DEF ServerOrder, Alternates
<1>3. Through(reads, posted, v) = reads[v] + 1 /\ Through(reads, posted, w - 1) = reads[w]
  BY <1>1, <1>2 DEF Through
<1>4. v <= w - 1
  BY <1>1
<1>5. Through(reads, posted, v) <= Through(reads, posted, w - 1)
  BY <1>1, <1>4 DEF ServerOrder, ThroughGrows
<1> QED BY <1>1, <1>3, <1>5

\* The posts that were there when a version was published came before it.
LEMMA PostsComeFirst ==
    ASSUME Basics, ServerOrder, NEW j \in 1..delivered, log[j].type = "me",
           NEW n \in 1..posted, n <= Through(reads, posted, log[j].n), Post(n) \in Published
    PROVE  \E i \in 1..delivered : i < j /\ log[i] = Post(n)
<1>1. DOMAIN log = 1..Len(log) /\ delivered \in Nat /\ Len(log) \in Nat /\ delivered <= Len(log)
  BY Values, Numbers DEF Basics
<1>2. PICK i \in 1..Len(log) : log[i] = Post(n)
  BY <1>1 DEF Published
<1>3. log[i].type = "post" /\ log[i].n = n /\ j \in 1..Len(log)
  BY <1>1, <1>2, Kinds DEF Post
<1>4. i < j
  BY <1>3 DEF ServerOrder, InLogOrder
<1>5. i \in 1..delivered
  BY <1>1, <1>4
<1> QED BY <1>2, <1>4, <1>5

\* What precedes a delivered message in the log was delivered as well.
LEMMA EarlierCameFirst ==
    ASSUME Basics, ServerOrder, NEW j \in 1..delivered, log[j].type \in {"post", "me"},
           NEW i \in 1..Len(log), log[i].type = log[j].type, log[i].n < log[j].n
    PROVE  i < j /\ i \in 1..delivered
<1>1. delivered \in Nat /\ Len(log) \in Nat /\ delivered <= Len(log)
  BY Values
<1>2. j \in 1..Len(log)
  BY <1>1
<1>3. i < j
  BY <1>2 DEF ServerOrder, InLogOrder
<1> QED BY <1>1, <1>3

\* When the event loop is idle nothing is ready before a message that is not blocked.
LEMMA NoneBehind ==
    ASSUME Basics, Ordered, Idle, NEW i \in 1..delivered, NEW j \in 1..delivered, i < j,
           st[log[j]].pc # "blocked"
    PROVE  st[log[i]].pc \notin EarlyStages \cup {"items", "read", "resolving"}
<1>1. log[i] \in Arrived /\ log[i] \in Messages
  BY Places DEF Basics
<1>2. ~Ready(log[i])
  BY <1>1 DEF Idle
<1>3. st[log[i]].pc # "none"
  BY <1>1 DEF Basics, Staged, StagedMessage
<1>4. ASSUME st[log[i]].pc = "blocked" PROVE FALSE
  <2>1. PICK k \in 1..delivered : /\ k < i /\ log[k] = Message("stream", st[log[i]].on)
                                  /\ st[log[k]].pc # "blocked"
    BY <1>4 DEF Ordered, WaitsForEarlier
  <2>2. ~StreamDone(st[log[i]].on)
    BY <1>2, <1>4 DEF Ready
  <2>3. st[log[k]].pc \notin Ended
    BY <2>1, <2>2 DEF StreamDone
  <2>4. log[k] \in Messages /\ log[k].type = "stream"
    BY <2>1, Places, Kinds DEF Basics
  <2>5. st[log[k]].pc \in StreamStages
    BY <2>4 DEF Basics, Staged, StagedMessage, Fits
  <2>6. Resolving(log[k])
    BY <2>1, <2>3, <2>4, <2>5 DEF Resolving, StreamStages, Ended
  <2>7. k < j
    BY <2>1, Values
  <2> QED BY <2>6, <2>7 DEF Ordered, ResolvingGoesAlone
<1> QED BY <1>2, <1>3, <1>4 DEF Ready, EarlyStages

\* Without a promise nothing computes, and with the event loop idle nothing waits for it.
LEMMA NothingComputes ==
    ASSUME Basics, OneAtATime, promise = 0
    PROVE  /\ \A c \in Computes : comp[c].pc \notin InCore
           /\ \A c \in Computes : comp[c].pc = "waiting" => Settles(comp[c].on)
           /\ \A m \in Messages : st[m].pc = "waiting" => Settles(st[m].on)
<1>1. \A c \in Computes : comp[c].pc \notin InCore
  BY Values DEF OneAtATime
<1>2. ASSUME NEW c \in Computes, comp[c].pc = "waiting" PROVE Settles(comp[c].on)
  <2>1. comp[c].on \in Computes
    BY <1>2 DEF Basics, Staged, StagedComputation
  <2> QED BY <1>1, <1>2, <2>1 DEF OneAtATime, Settles
<1>3. ASSUME NEW m \in Messages, st[m].pc = "waiting" PROVE Settles(st[m].on)
  <2>1. st[m].on \in Computes
    BY <1>3 DEF Basics, Staged, StagedMessage, Fits
  <2> QED BY <1>1, <1>3, <2>1 DEF OneAtATime, Settles
<1> QED BY <1>1, <1>2, <1>3

\* With no promise and an idle event loop no computation waits.
LEMMA NothingWaits ==
    ASSUME Basics, OneAtATime, promise = 0, Idle
    PROVE  ~Awaiting /\ \A m \in Messages : st[m].pc # "waiting"
<1>1. ~Awaiting
  BY NothingComputes DEF Idle, Awaiting
<1>2. ASSUME NEW m \in Messages, st[m].pc = "waiting" PROVE FALSE
  <2>1. m \in Arrived
    BY <1>2 DEF Basics, Staged, StagedMessage
  <2> QED BY <1>2, <2>1, NothingComputes DEF Idle, Ready
<1> QED BY <1>1, <1>2

\* A post that is not ahead of the messages is published if the ones before it are.
LEMMA LaterAreMessages ==
    ASSUME Basics, ServerOrder, NEW n \in 1..posted, Post(n) \in Published, NEW k \in 1..posted, n < k
    PROVE  Post(k) \in Published
<1>1. 1 \in 1..Current /\ posted \in Nat
  BY Values
<1>2. n > Through(reads, posted, 1) /\ Through(reads, posted, 1) \in 0..posted
  BY <1>1 DEF ServerOrder, PublishedAfterFirst, ThroughGrows
<1>3. k > Through(reads, posted, 1)
  BY <1>1, <1>2
<1> QED BY <1>3 DEF ServerOrder, PublishedAfterFirst

--------------------------------------------------------------------------------
(* The steps that leave the user, the marks and the counter alone. *)

\* A computation under way goes on, for the same object.
SameCore(c) ==
    \/ comp'[c] = comp[c]
    \/ comp[c].pc \in InCore /\ comp'[c].pc \in InCore /\ comp'[c].object = comp[c].object

\* A message goes on, without a post being counted or what has passed coming back.
GoesOn(m) ==
    /\ st'[m].pc \in EarlyStages => st[m].pc \in EarlyStages
    /\ st[m].pc = "done" => st'[m].pc = "done"
    /\ m.type = "post" /\ st'[m].pc = "done" => st[m].pc = "done"
    /\ st[m].pc \in PassedStages => st'[m].pc \in PassedStages
    /\ st'[m].pc = "waiting" => st'[m] = st[m] \/ (m.type = "me" /\ promise # 0 /\ st'[m].on = promise)
    /\ st'[m].pc = "counting" => st'[m] = st[m] \/ (promise = 0 /\ ~st'[m].old)
    /\ st'[m].shown \in {st[m].shown, heap[lastReads], Unset}
    /\ promise # 0 /\ m.type = "me" /\ (st[m].pc \in EarlyStages \/ (st[m].pc = "waiting" /\ st[m].on = promise))
           => st'[m].pc \in EarlyStages \/ (st'[m].pc = "waiting" /\ st'[m].on = promise)

Calm ==
    /\ UNCHANGED <<reads, posted, log, me, heap, promise, unread, lastReads>>
    /\ \A c \in Computes : SameCore(c)
    /\ \A m \in Messages : GoesOn(m)
    /\ \A i \in 1..delivered' : i \in 1..delivered \/ st'[log[i]].pc \in EarlyStages
    /\ delivered' \in 0..Len(log)

\* A step after which the same posts are done leaves what was processed.
LEMMA ProcessedStays ==
    ASSUME Basics, UNCHANGED <<posted, log>>,
           \A n \in 1..posted : Post(n) \in Published => (st'[Post(n)].pc = "done" <=> st[Post(n)].pc = "done")
    PROVE  Published' = Published /\ Processed' = Processed
  BY DEF Published, Processed

\* The post of every number is a message, and so is what is published.
LEMMA PostsAreMessages ==
    ASSUME Basics
    PROVE  /\ \A n \in 1..posted : Post(n) \in Messages /\ Post(n).type = "post" /\ Post(n).n = n
           /\ \A m \in Published : m \in Messages
<1>1. \A n \in 1..posted : n \in 1..MaxPosts
  BY Numbers, Bounds DEF Basics
<1>2. \A m \in Published : m \in Messages
  BY Places, Numbers DEF Published, Basics
<1> QED BY <1>1, <1>2, Kinds DEF Post

\* A calm step leaves what was processed ...
LEMMA CalmProcessed ==
    ASSUME Basics, Calm
    PROVE  /\ Published' = Published /\ Processed' = Processed
           /\ \A n \in 1..posted : st'[Post(n)].pc = "done" <=> st[Post(n)].pc = "done"
<1>1. \A n \in 1..posted : st'[Post(n)].pc = "done" <=> st[Post(n)].pc = "done"
  BY PostsAreMessages DEF Calm, GoesOn
<1> QED BY <1>1, ProcessedStays DEF Calm

\* All of Ledger but what is said of the cached posts and of the computation under way.
Framed ==
    /\ Once /\ ShownAreMarks /\ OneAtATime /\ ReadAreDone /\ MarkIsTheUsers /\ ShownAreOld
    /\ NotOvertaken /\ WaitsBehind /\ InTurn /\ CounterIsRight

\* ... and keeps that.
LEMMA CalmKeeps ==
    ASSUME Steady, Calm
    PROVE  Framed'
<1>1. /\ Basics /\ Ledger /\ MarksAreBehind
      /\ reads' = reads /\ posted' = posted /\ log' = log /\ me' = me /\ heap' = heap /\ promise' = promise
      /\ unread' = unread /\ lastReads' = lastReads /\ Current' = Current
  BY DEF Steady, Foundations, Calm, Current
<1>2. /\ Published' = Published /\ Processed' = Processed
      /\ \A n \in 1..posted : st'[Post(n)].pc = "done" <=> st[Post(n)].pc = "done"
  BY <1>1, CalmProcessed
<1>3. \A c \in Computes : SameCore(c)
  BY DEF Calm
<1>4. \A m \in Messages : GoesOn(m)
  BY DEF Calm
<1>5. \A i \in 1..Len(log) : log[i] \in Messages
  BY <1>1, Places DEF Basics
<1>6. lastReads \in Objects /\ (promise # 0 => promise \in Computes)
  BY <1>1, Values
<1>7. \A c \in Computes : comp'[c].pc = "waiting" <=> comp[c].pc = "waiting"
  BY <1>3 DEF SameCore, InCore
<1>8. \A c \in Computes : comp[c].pc = "waiting" => comp'[c] = comp[c]
  BY <1>3 DEF SameCore, InCore
<1>9. Awaiting' <=> Awaiting
  BY <1>7 DEF Awaiting
<1>10. \A c \in Computes : comp[c].pc \in InCore => comp'[c].pc \in InCore /\ comp'[c].object = comp[c].object
  BY <1>3 DEF SameCore
<1>11. Once'
  <2> SUFFICES ASSUME NEW c \in Computes, comp'[c].pc # "none", c # 1 PROVE st'[Me(c)].pc = "done"
    BY DEF Once
  <2>1. comp[c].pc # "none"
    BY <1>3 DEF SameCore, InCore
  <2>2. st[Me(c)].pc = "done"
    BY <1>1, <2>1 DEF Ledger, Once
  <2>3. Me(c) \in Messages
    <3>1. c \in 2..MaxMe
      BY Bounds DEF Computes
    <3> QED BY <3>1, Kinds DEF Me
  <2> QED BY <1>4, <2>2, <2>3 DEF GoesOn
<1>12. ShownAreMarks'
  <2> SUFFICES ASSUME NEW m \in Messages PROVE IsMark(st'[m].shown, posted)
    BY <1>1 DEF ShownAreMarks
  <2>1. IsMark(st[m].shown, posted) /\ IsMark(heap[lastReads], posted) /\ IsMark(Unset, posted)
    BY <1>1, <1>6 DEF Ledger, ShownAreMarks, MarksAreBehind, IsMark
  <2> QED BY <1>4, <2>1 DEF GoesOn
<1>13. OneAtATime'
  <2>1. promise' # 0 => comp'[promise'].pc \in InCore /\ unread' = 0
    BY <1>1, <1>6, <1>10 DEF Ledger, OneAtATime
  <2>2. \A c \in Computes : comp'[c].pc \in InCore => promise' = c
    BY <1>1, <1>3 DEF SameCore, Ledger, OneAtATime
  <2>3. \A c, d \in Computes : comp'[c].pc = "waiting" /\ comp'[d].pc = "waiting" => c = d
    BY <1>1, <1>7 DEF Ledger, OneAtATime
  <2>4. \A c \in Computes : comp[c].pc \in InCore \cup {"done"} => comp'[c].pc \in InCore \cup {"done"}
    BY <1>3 DEF SameCore
  <2>5. ASSUME NEW c \in Computes, comp'[c].pc = "waiting" PROVE comp'[comp'[c].on].pc \in InCore \cup {"done"}
    <3>1. comp[c].pc = "waiting" /\ comp'[c] = comp[c]
      BY <1>7, <1>8, <2>5
    <3>2. comp[c].on \in Computes
      BY <1>1, <3>1 DEF Basics, Staged, StagedComputation
    <3> QED BY <1>1, <2>4, <3>1, <3>2 DEF Ledger, OneAtATime
  <2>6. ASSUME NEW m \in Messages, st'[m].pc = "waiting"
        PROVE  m.type = "me" /\ comp'[st'[m].on].pc \in InCore \cup {"done"}
    <3>1. CASE st'[m] = st[m]
      <4>1. st[m].on \in Computes
        BY <1>1, <2>6, <3>1 DEF Basics, Staged, StagedMessage, Fits
      <4> QED BY <1>1, <2>4, <2>6, <3>1, <4>1 DEF Ledger, OneAtATime
    <3>2. CASE m.type = "me" /\ promise # 0 /\ st'[m].on = promise
      BY <1>1, <1>6, <2>1, <3>2
    <3> QED BY <1>4, <2>6, <3>1, <3>2 DEF GoesOn
  <2>7. ASSUME NEW m \in Messages, st'[m].pc = "counting" PROVE promise' = 0 /\ ~st'[m].old
    BY <1>1, <1>4, <2>7 DEF GoesOn, Ledger, OneAtATime
  <2> QED BY <2>1, <2>2, <2>3, <2>5, <2>6, <2>7 DEF OneAtATime
<1>14. ReadAreDone'
  BY <1>1, <1>2 DEF Ledger, ReadAreDone
<1>15. ASSUME NEW o, IsLast(o)' PROVE IsLast(o)
  <2>1. CASE \E c \in Computes : comp'[c].pc = "waiting" /\ comp'[c].object = o
    BY <1>7, <1>8, <2>1 DEF IsLast
  <2>2. CASE ~Awaiting' /\ \E c \in Computes : promise' = c /\ comp'[c].object = o
    <3>1. PICK c \in Computes : promise = c /\ comp'[c].object = o
      BY <1>1, <2>2
    <3>2. comp[c].pc \in InCore
      BY <1>1, <1>6, <3>1, Values DEF Ledger, OneAtATime
    <3> QED BY <1>9, <1>10, <2>2, <3>1, <3>2 DEF IsLast
  <2>3. CASE ~Awaiting' /\ promise' = 0 /\ lastReads' = o
    BY <1>1, <1>9, <2>3 DEF IsLast
  <2> QED BY <1>15, <2>1, <2>2, <2>3 DEF IsLast
<1>16. MarkIsTheUsers'
  <2> SUFFICES ASSUME NEW o \in Objects, IsLast(o)'
               PROVE  \/ heap[o] = reads[me.version]
                      \/ /\ reads[me.version] = Unset /\ heap[o] # Unset
                         /\ st'[Post(heap[o] + 1)].pc = "done"
                         /\ heap[o] + 1 > Through(reads, posted, me.version)
    BY <1>1 DEF MarkIsTheUsers
  <2>1. \/ heap[o] = reads[me.version]
        \/ /\ reads[me.version] = Unset /\ heap[o] # Unset
           /\ st[Post(heap[o] + 1)].pc = "done"
           /\ heap[o] + 1 > Through(reads, posted, me.version)
    BY <1>1, <1>15 DEF Ledger, MarkIsTheUsers
  <2>2. heap[o] # Unset => heap[o] + 1 \in 1..posted
    BY <1>1 DEF MarksAreBehind, IsMark
  <2> QED BY <1>2, <2>1, <2>2
<1>17. ShownAreOld'
  <2> SUFFICES ASSUME NEW v \in 1..Current, reads[v] # Unset, v > me.version, st'[Post(reads[v] + 1)].pc # "done"
               PROVE  /\ \A o \in Objects : heap[o] # reads[v]
                      /\ \A m \in Messages : st'[m].shown # reads[v]
    BY <1>1 DEF ShownAreOld
  <2>1. reads[v] + 1 \in 1..posted
    BY <1>1 DEF MarksAreBehind, IsMark
  <2>2. /\ \A o \in Objects : heap[o] # reads[v]
        /\ \A m \in Messages : st[m].shown # reads[v]
    BY <1>1, <1>2, <2>1 DEF Ledger, ShownAreOld
  <2> QED BY <1>4, <1>6, <2>2 DEF GoesOn
<1>18. NotOvertaken'
  BY <1>1, <1>4, <1>5 DEF Ledger, NotOvertaken, GoesOn
<1>19. WaitsBehind'
  <2> SUFFICES ASSUME NEW i \in 1..delivered', NEW j \in 1..delivered', promise # 0, i < j, log[i].type = "post",
                      st'[log[i]].pc # "done", log[j].type = "me"
               PROVE  st'[log[j]].pc \in EarlyStages \/ (st'[log[j]].pc = "waiting" /\ st'[log[j]].on = promise)
    BY <1>1 DEF WaitsBehind
  <2>0. delivered' \in 0..Len(log) /\ Len(log) \in Nat /\ delivered \in Nat /\ delivered <= Len(log)
    BY <1>1, Values DEF Calm
  <2>1. CASE j \in 1..delivered
    <3>1. i \in 1..delivered /\ i \in 1..Len(log) /\ j \in 1..Len(log)
      BY <2>0, <2>1
    <3>2. st[log[i]].pc # "done"
      BY <1>4, <1>5, <3>1 DEF GoesOn
    <3>3. st[log[j]].pc \in EarlyStages \/ (st[log[j]].pc = "waiting" /\ st[log[j]].on = promise)
      BY <1>1, <2>1, <3>1, <3>2 DEF Ledger, WaitsBehind
    <3> QED BY <1>4, <1>5, <3>1, <3>3 DEF GoesOn
  <2>2. CASE j \notin 1..delivered
    BY <2>2 DEF Calm
  <2> QED BY <2>1, <2>2
<1>20. InTurn'
  BY <1>1, <1>2, <1>9 DEF Ledger, InTurn
<1>21. CounterIsRight'
  BY <1>1, <1>2, <1>9 DEF Ledger, CounterIsRight
<1> QED BY <1>11, <1>12, <1>13, <1>14, <1>16, <1>17, <1>18, <1>19, <1>20, <1>21 DEF Framed

\* What Steady says, to be cited.
LEMMA SteadyFacts ==
    ASSUME Steady
    PROVE  /\ Basics /\ Ordered /\ ServerOrder /\ Ledger /\ MarksAreBehind /\ AllCachedOrCome
           /\ Applicable /\ me.version <= Current
           /\ failures = 0 /\ overlap = {} /\ ~ahead /\ ~overtaken /\ ~leapt /\ ~unnoticed /\ ~piled
           /\ init # "failed" /\ \A c \in Computes : comp[c].pc # "failed"
           /\ \A m \in Messages : /\ st[m].pc # "dropped"
                                  /\ m.type = "me" /\ st[m].pc = "done" => m.n <= me.version
                                  /\ m.type = "me" /\ st[m].pc \in {"fetching", "answered"} => ~(m.n < me.version)
<1>1. failures = 0 /\ overlap = {} /\ ~ahead /\ ~overtaken /\ ~leapt /\ ~unnoticed /\ ~piled
  BY DEF Steady, Smooth
<1>2. /\ Basics /\ Ordered /\ ServerOrder /\ Ledger /\ MarksAreBehind /\ AllCachedOrCome
      /\ Applicable /\ me.version <= Current
  BY <1>1 DEF Steady, Foundations, InOrder, UserKept
<1>3. init # "failed" /\ \A c \in Computes : comp[c].pc # "failed"
  BY <1>1 DEF Steady, Foundations, Lossless, NoneFailed
<1>4. \A m \in Messages : st[m].pc # "dropped"
  BY <1>1 DEF Steady, Foundations, Lossless, NoneDropped
<1>5. \A m \in Messages : m.type = "me" /\ st[m].pc = "done" => m.n <= me.version
  BY <1>1 DEF Steady, Foundations, UserKept, Applied
<1>6. \A m \in Messages : m.type = "me" /\ st[m].pc \in {"fetching", "answered"} => ~(m.n < me.version)
  BY DEF Steady, Late
<1> QED BY <1>1, <1>2, <1>3, <1>4, <1>5, <1>6

\* What a computation under way has read stays right if it does not go on.
LEMMA CoreStays ==
    ASSUME Steady, Calm, comp' = comp, init' = "no" => init = "no", init = "yes" => init' = "yes",
           posts' = posts \/ Awaiting \/ \A c \in Computes : comp[c].pc # "page"
    PROVE  CoreIsRight'
<1>1. Basics /\ CoreIsRight
  BY SteadyFacts DEF Ledger
<1>2. UNCHANGED <<reads, heap, comp>> /\ Processed' = Processed
  BY <1>1, CalmProcessed DEF Calm
<1> SUFFICES ASSUME ~Awaiting', NEW c \in Computes, comp'[c].pc \in InCore PROVE Computed(c)'
  BY DEF CoreIsRight
<1>3. Computed(c)
  BY <1>1, <1>2 DEF CoreIsRight, Awaiting
<1>4. reads' = reads /\ heap' = heap /\ comp' = comp /\ Current' = Current
  BY <1>2 DEF Current
<1>5. comp[c].pc = "page" => posts' = posts
  BY <1>4 DEF Awaiting
<1> QED BY <1>2, <1>3, <1>4, <1>5 DEF Computed

\* What is cached was seen before, and still is.
LEMMA SeenStays ==
    ASSUME Steady, Calm, posts' = posts, \A c \in Computes : comp'[c].read \subseteq 1..posted
    PROVE  NoneSeenBefore'
<1>1. Basics /\ NoneSeenBefore
  BY SteadyFacts DEF Ledger
<1>2. posted' = posted /\ Published' = Published
  BY <1>1, CalmProcessed DEF Calm
<1>3. ASSUME NEW n \in posts, Post(n) \in Published PROVE st'[Post(n)].pc \notin EarlyStages
  <2>1. Post(n) \in Messages
    BY <1>1, <1>3, PostsAreMessages
  <2>2. GoesOn(Post(n)) /\ st[Post(n)].pc \notin EarlyStages
    BY <1>1, <1>3, <2>1 DEF Calm, NoneSeenBefore
  <2> QED BY <2>2 DEF GoesOn
<1> QED BY <1>1, <1>2, <1>3 DEF NoneSeenBefore

\* A calm step that leaves the computations and the cached posts keeps Ledger.
LEMMA QuietStep ==
    ASSUME Steady, Calm, UNCHANGED <<comp, posts>>, init' = "no" => init = "no", init = "yes" => init' = "yes"
    PROVE  Ledger'
<1>1. NoneSeenBefore
  BY SteadyFacts DEF Ledger
<1>2. \A c \in Computes : comp'[c].read \subseteq 1..posted
  BY <1>1 DEF NoneSeenBefore
<1> QED BY <1>2, CalmKeeps, CoreStays, SeenStays DEF Framed, Ledger

\* The same of a step of one message.
LEMMA OneGoesOn ==
    ASSUME Basics, NEW m \in Arrived, GoesOn(m), \A o \in Messages \ {m} : st'[o] = st[o],
           UNCHANGED <<reads, posted, log, delivered, me, heap, comp, promise, unread, lastReads>>
    PROVE  Calm
<1>1. \A o \in Messages : GoesOn(o)
  BY DEF GoesOn
<1>2. \A c \in Computes : SameCore(c)
  BY DEF SameCore
<1>3. delivered' \in 0..Len(log)
  BY Values
<1> QED BY <1>1, <1>2, <1>3 DEF Calm

\* A message that moves shows its mark no longer, or the same.
LEMMA MoveShows ==
    ASSUME Basics, NEW m \in Messages, NEW pc \in Stages, Move(m, pc)
    PROVE  st'[m].shown \in {st[m].shown, Unset} /\ st'[m].pc = pc
<1>1. st \in [Messages -> Progress] /\ st[m] \in Progress
  BY Typed DEF Basics, Types
<1>2. st'[m] = IF pc \in Ended THEN [Quiet EXCEPT !.pc = pc] ELSE [st[m] EXCEPT !.pc = pc]
  BY <1>1 DEF Move
<1> QED BY <1>1, <1>2 DEF Quiet, Progress

\* What is awaited is a computation under way: nobody is dropped, and a post does not wait.
LEMMA AwaitGives ==
    ASSUME Steady, NEW m \in Messages, NEW next \in {"counting", "items", "read"}
    PROVE  LET r == AwaitCompute(m, next)
           IN  /\ r \in Progress /\ r.shown = st[m].shown
               /\ promise = 0 => r.pc = next /\ r = [st[m] EXCEPT !.pc = next]
               /\ promise # 0 => r.pc = "waiting" /\ r.on = promise /\ r.next = next
<1>1. Basics /\ OneAtATime /\ (promise # 0 => promise \in Computes) /\ \A c \in Computes : comp[c].pc # "failed"
  BY SteadyFacts, Values DEF Ledger
<1>2. st[m] \in Progress /\ AwaitCompute(m, next) \in Progress
  BY <1>1, Typed, Awaited DEF Basics, Types
<1>3. CASE promise = 0
  BY <1>2, <1>3 DEF AwaitCompute, Progress
<1>4. CASE promise # 0
  <2>1. AwaitCompute(m, next) = [st[m] EXCEPT !.pc = "waiting", !.on = promise, !.next = next]
    BY <1>1, <1>4 DEF AwaitCompute
  <2> QED BY <1>2, <1>4, <2>1 DEF Progress
<1> QED BY <1>3, <1>4

\* Blocked messages that become ready.
LEMMA ReleaseKeeps ==
    ASSUME Steady, NEW m \in Arrived, Release(m)
    PROVE  Ledger'
<1>1. Basics /\ m \in Messages
  BY SteadyFacts, OfKind
<1>2. st[m].pc = "blocked" /\ Move(m, "ready") /\ "ready" \in Stages
  BY DEF Release, Stages
<1>3. st'[m].shown \in {st[m].shown, Unset} /\ st'[m].pc = "ready" /\ \A o \in Messages \ {m} : st'[o] = st[o]
  BY <1>1, <1>2, MoveShows, ReleaseBasics
<1>4. GoesOn(m)
  BY <1>2, <1>3 DEF GoesOn, EarlyStages, PassedStages
<1>5. UNCHANGED <<reads, posted, log, delivered, me, heap, comp, promise, unread, lastReads, posts, init>>
  BY DEF Release, server, cached, counters
<1> QED BY <1>1, <1>3, <1>4, <1>5, OneGoesOn, QuietStep

\* A message of a stream, at any stage.
LEMMA StreamKeeps ==
    ASSUME Steady, NEW m \in Arrived, ResolveStream(m) \/ StreamAnswer(m)
    PROVE  Ledger'
<1>1. Basics /\ m \in Messages
  BY SteadyFacts, OfKind
<1>2. m.type = "stream" /\ st[m].pc \in {"ready", "fetching"}
  BY DEF ResolveStream, StreamAnswer
<1>3. Move(m, "done") \/ (Move(m, "fetching") /\ st[m].pc = "ready")
  BY DEF ResolveStream, StreamAnswer, FinishStream
<1>4. "done" \in Stages /\ "fetching" \in Stages
  BY DEF Stages, Ended
<1>5. st'[m].shown \in {st[m].shown, Unset} /\ st'[m].pc \in {"done", "fetching"}
  BY <1>1, <1>3, <1>4, MoveShows
<1>6. \A o \in Messages \ {m} : st'[o] = st[o]
  BY <1>1, ResolveStreamBasics, StreamAnswerBasics
<1>7. GoesOn(m)
  BY <1>2, <1>5 DEF GoesOn, EarlyStages, PassedStages
<1>8. UNCHANGED <<reads, posted, log, delivered, me, heap, comp, promise, unread, lastReads, posts, init>>
  BY DEF ResolveStream, StreamAnswer, server, cached, counters
<1> QED BY <1>1, <1>6, <1>7, <1>8, OneGoesOn, QuietStep

\* A user message that asks for the lastReads or the lastReadItems, or goes on after it did.
LEMMA UserWaits ==
    ASSUME Steady, NEW m \in Arrived, GetLastReads(m) \/ GetLastReadItems(m) \/ Resume(m)
    PROVE  Ledger'
<1>1. Basics /\ OneAtATime /\ m \in Messages /\ st \in [Messages -> Progress] /\ st[m] \in Progress
  BY SteadyFacts, OfKind, Typed DEF Basics, Types, Ledger
<1>2. m.type = "me" /\ \A o \in Messages \ {m} : st'[o] = st[o]
  BY <1>1, GetBasics, ResumeBasics DEF OneAtATime
<1>3. UNCHANGED <<reads, posted, log, delivered, me, heap, comp, promise, unread, lastReads, posts, init>>
  BY DEF GetLastReads, GetLastReadItems, Resume, server, cached, counters
<1>4. lastReads \in Objects /\ heap[lastReads] \in Unset..MaxPosts
  BY <1>1, Values, Typed DEF Basics, Types, Others
<1>5. CASE GetLastReads(m)
  <2> DEFINE r == AwaitCompute(m, "items")
  <2>1. /\ r \in Progress /\ r.pc \in {"items", "waiting"}
        /\ promise = 0 => r.pc = "items"
        /\ promise # 0 => r.pc = "waiting" /\ r.on = promise
    BY <1>1, AwaitGives
  <2>2. st' = [st EXCEPT ![m] = [r EXCEPT !.shown = heap[lastReads]]] /\ st[m].pc = "ready"
    BY <1>5 DEF GetLastReads
  <2> HIDE DEF r
  <2>3. st'[m].pc = r.pc /\ st'[m].on = r.on /\ st'[m].shown = heap[lastReads]
    BY <1>1, <2>1, <2>2 DEF Progress
  <2>4. GoesOn(m)
    BY <1>2, <2>1, <2>2, <2>3 DEF GoesOn, EarlyStages, PassedStages
  <2> QED BY <1>1, <1>2, <1>3, <2>4, OneGoesOn, QuietStep
<1>6. CASE GetLastReadItems(m)
  <2> DEFINE r == AwaitCompute(m, "read")
  <2>1. /\ r \in Progress /\ r.pc \in {"read", "waiting"} /\ r.shown = st[m].shown
        /\ promise = 0 => r.pc = "read"
        /\ promise # 0 => r.pc = "waiting" /\ r.on = promise
    BY <1>1, AwaitGives
  <2>2. st' = [st EXCEPT ![m] = r] /\ st[m].pc = "items"
    BY <1>6 DEF GetLastReadItems
  <2> HIDE DEF r
  <2>3. st'[m] = r
    BY <1>1, <2>2
  <2>4. GoesOn(m)
    BY <1>2, <2>1, <2>2, <2>3 DEF GoesOn, EarlyStages, PassedStages
  <2> QED BY <1>1, <1>2, <1>3, <2>4, OneGoesOn, QuietStep
<1>7. CASE Resume(m)
  <2>1. /\ st[m].pc = "waiting" /\ Settles(st[m].on) /\ st[m].on \in Computes
        /\ st[m].next \in {"items", "read"}
    BY <1>1, <1>2, <1>7 DEF Resume, Basics, Staged, StagedMessage, Fits
  <2>2. comp[st[m].on].pc # "failed"
    BY <2>1, SteadyFacts
  <2> DEFINE shown == IF st[m].next = "items" THEN heap[lastReads] ELSE st[m].shown
  <2>3. st' = [st EXCEPT ![m] = [st[m] EXCEPT !.pc = st[m].next, !.on = 0, !.next = "none", !.shown = shown]]
    BY <1>7, <2>2 DEF Resume
  <2>4. shown \in {st[m].shown, heap[lastReads]}
    OBVIOUS
  <2> HIDE DEF shown
  <2>5. st'[m].pc = st[m].next /\ st'[m].shown = shown
    <3>1. st'[m] = [st[m] EXCEPT !.pc = st[m].next, !.on = 0, !.next = "none", !.shown = shown]
      BY <1>1, <2>3
    <3> QED BY <1>1, <3>1 DEF Progress
  <2>6. promise # 0 => st[m].on # promise
    BY <1>1, <2>1 DEF OneAtATime, Settles, InCore
  <2>7. GoesOn(m)
    BY <1>2, <2>1, <2>4, <2>5, <2>6 DEF GoesOn, EarlyStages, PassedStages
  <2> QED BY <1>1, <1>2, <1>3, <2>7, OneGoesOn, QuietStep
<1> QED BY <1>5, <1>6, <1>7

\* A user message that reads the cache, or asks the server.
LEMMA UserReads ==
    ASSUME Steady, NEW m \in Arrived, ReadMe(m) \/ ServerAnswersMe(m)
    PROVE  Ledger'
<1>1. Basics /\ m \in Messages /\ st \in [Messages -> Progress] /\ st[m] \in Progress
  BY SteadyFacts, OfKind, Typed DEF Basics, Types
<1>2. /\ \A o \in Messages \ {m} : st'[o] = st[o]
      /\ \/ st[m].pc = "read" /\ st'[m].pc = "resolving"
         \/ st[m].pc = "fetching" /\ st'[m].pc = "answered"
  BY <1>1, ReadMeBasics, ServerAnswersMeBasics DEF ReadMe, ServerAnswersMe
<1>3. st'[m].shown = st[m].shown
  <2>1. CASE ReadMe(m)
    <3>1. st' = [st EXCEPT ![m] = [[st[m] EXCEPT !.pc = "resolving"] EXCEPT !.seen = me.version]]
      BY <1>1, <2>1 DEF ReadMe
    <3> QED BY <1>1, <3>1 DEF Progress
  <2>2. CASE ServerAnswersMe(m)
    <3>1. st' = [st EXCEPT ![m] = [[st[m] EXCEPT !.pc = "answered"] EXCEPT !.seen = Current]]
      BY <1>1, <2>2 DEF ServerAnswersMe
    <3> QED BY <1>1, <3>1 DEF Progress
  <2> QED BY <2>1, <2>2
<1>4. GoesOn(m)
  BY <1>2, <1>3 DEF GoesOn, EarlyStages, PassedStages
<1>5. UNCHANGED <<reads, posted, log, delivered, me, heap, comp, promise, unread, lastReads, posts, init>>
  BY DEF ReadMe, ServerAnswersMe, server, cached, counters
<1> QED BY <1>1, <1>2, <1>4, <1>5, OneGoesOn, QuietStep

\* A directive that is skipped, or of which the server is asked.
LEMMA UserSkips ==
    ASSUME Steady, NEW m \in Arrived, ApplyMe(m), CacheUpdateAction(st[m].seen, m.n) # "update"
    PROVE  Ledger'
<1>1. Basics /\ m \in Messages
  BY SteadyFacts, OfKind
<1>2. /\ \A o \in Messages \ {m} : st'[o] = st[o]
      /\ m.type = "me" /\ st[m].pc = "resolving" /\ (Move(m, "fetching") \/ Move(m, "done"))
  BY <1>1, ApplyMeBasics DEF ApplyMe
<1>3. "done" \in Stages /\ "fetching" \in Stages
  BY DEF Stages, Ended
<1>4. st'[m].shown \in {st[m].shown, Unset} /\ st'[m].pc \in {"done", "fetching"}
  BY <1>1, <1>2, <1>3, MoveShows
<1>5. GoesOn(m)
  BY <1>2, <1>4 DEF GoesOn, EarlyStages, PassedStages
<1>6. UNCHANGED <<reads, posted, log, delivered, me, heap, comp, promise, unread, lastReads, posts, init>>
  BY DEF ApplyMe, server
<1> QED BY <1>1, <1>2, <1>5, <1>6, OneGoesOn, QuietStep

\* While Smooth holds no request fails.
LEMMA NothingFails ==
    ASSUME Steady, Smooth', Fail
    PROVE  FALSE
<1>1. failures = 0 /\ failures' = 0 /\ failures' = failures + 1
  BY SteadyFacts DEF Smooth, Fail
<1> QED BY <1>1

\* An update that starts does not overlap a computation: the post is counted.
LEMMA UpdateGoesOn ==
    ASSUME Steady, Smooth', NEW m \in Arrived, m.type = "post", StartUpdate(m, FALSE),
           st[m].pc \in {"ready", "init"}
    PROVE  /\ \A c \in Computes : comp[c].pc \notin InCore
           /\ \A o \in Messages \ {m} : st'[o] = st[o]
           /\ st'[m].pc = "counting" /\ GoesOn(m)
<1>1. Basics /\ OneAtATime /\ m \in Messages /\ st \in [Messages -> Progress] /\ st[m] \in Progress
  BY SteadyFacts, OfKind, Typed DEF Basics, Types, Ledger
<1>2. \A c \in Computes : comp[c].pc \notin InCore
  <2> DEFINE u == \E c \in Computes : comp[c].pc \in InCore
  <2>1. overlap' = overlap \cup When(u, "update") /\ overlap' = {}
    BY DEF StartUpdate, Smooth
  <2>2. ~u
    <3> HIDE DEF u
    <3> QED BY <2>1 DEF When
  <2> QED BY <2>2
<1>3. promise = 0
  BY <1>1, <1>2, Values DEF OneAtATime
<1> DEFINE r == AwaitCompute(m, "counting")
<1>4. r \in Progress /\ r.pc = "counting" /\ r.shown = st[m].shown
  BY <1>1, <1>3, AwaitGives
<1>5. st' = [st EXCEPT ![m] = [r EXCEPT !.old = FALSE]]
  BY DEF StartUpdate
<1> HIDE DEF r
<1>6. st'[m] = [r EXCEPT !.old = FALSE] /\ \A o \in Messages \ {m} : st'[o] = st[o]
  BY <1>1, <1>5
<1>7. st'[m].pc = "counting" /\ st'[m].shown = st[m].shown /\ ~st'[m].old
  BY <1>4, <1>6 DEF Progress
<1>8. GoesOn(m)
  BY <1>3, <1>7 DEF GoesOn, EarlyStages, PassedStages
<1> QED BY <1>2, <1>6, <1>7, <1>8

\* A message of a post, until it is counted.
LEMMA PostKeeps ==
    ASSUME Steady, Smooth', NEW m \in Arrived, ResolvePost(m) \/ StorePost(m)
    PROVE  Ledger'
<1>1. Basics /\ NoneSeenBefore /\ init # "failed" /\ m \in Messages
  BY SteadyFacts, OfKind DEF Ledger
<1>2. m.type = "post" /\ st[m].pc \in {"ready", "init"}
  BY <1>1, OfKind DEF ResolvePost, StorePost
<1>3. m.n \in 1..posted /\ m = Post(m.n) /\ m \in Published
  <2>1. PICK i \in 1..Len(log) : m = log[i]
    BY <1>1, Places DEF Basics
  <2>2. m \in Published /\ m.n \in 1..MaxPosts /\ m = Message(m.type, m.n)
    BY <1>1, <1>2, Places, Kinds DEF Basics
  <2>3. m.n <= posted
    BY <1>1, <1>2, <2>1 DEF Basics, Logged
  <2> QED BY <1>1, <1>2, <2>2, <2>3, Bounds, Values DEF Post
<1>4. UNCHANGED <<reads, posted, log, delivered, me, heap, comp, promise, unread, lastReads>>
  BY DEF ResolvePost, StorePost, server, counters
<1>5. ASSUME StartUpdate(m, FALSE), posts' = posts \cup {m.n}, init' = init PROVE Ledger'
  <2>1. /\ \A c \in Computes : comp[c].pc \notin InCore
        /\ \A o \in Messages \ {m} : st'[o] = st[o]
        /\ st'[m].pc = "counting" /\ GoesOn(m)
    BY <1>2, <1>5, UpdateGoesOn
  <2>2. Calm
    BY <1>1, <1>4, <2>1, OneGoesOn
  <2>3. CoreIsRight'
    BY <1>4, <1>5, <2>1, <2>2, CoreStays DEF InCore
  <2>4. NoneSeenBefore'
    <3>1. posted' = posted /\ Published' = Published /\ comp' = comp
      BY <1>1, <1>4, <2>2, CalmProcessed
    <3>2. ASSUME NEW n \in posts', Post(n) \in Published PROVE st'[Post(n)].pc \notin EarlyStages
      <4>1. CASE n = m.n
        BY <1>3, <2>1, <4>1 DEF EarlyStages
      <4>2. CASE n \in posts
        <5>1. Post(n) \in Messages
          BY <1>1, <3>2, PostsAreMessages
        <5>2. st[Post(n)].pc \notin EarlyStages
          BY <1>1, <3>2, <4>2 DEF NoneSeenBefore
        <5> QED BY <2>2, <5>1, <5>2 DEF Calm, GoesOn
      <4> QED BY <1>5, <3>2, <4>1, <4>2
    <3> QED BY <1>1, <1>3, <1>5, <3>1, <3>2 DEF NoneSeenBefore
  <2> QED BY <2>2, <2>3, <2>4, CalmKeeps DEF Framed, Ledger
<1>6. CASE ResolvePost(m) /\ m.n \in posts
  <2>1. st[m].pc = "ready"
    BY <1>6 DEF ResolvePost
  <2> QED BY <1>1, <1>3, <1>6, <2>1 DEF NoneSeenBefore, EarlyStages
<1>7. CASE ResolvePost(m) /\ m.n \notin posts /\ init = "yes"
  BY <1>5, <1>7 DEF ResolvePost
<1>8. CASE ResolvePost(m) /\ m.n \notin posts /\ init # "yes"
  <2>1. /\ Move(m, "init") /\ posts' = posts /\ st[m].pc = "ready"
        /\ init' = IF init = "no" THEN "pending" ELSE init
    BY <1>1, <1>8 DEF ResolvePost
  <2>2. "init" \in Stages
    BY DEF Stages
  <2>3. st'[m].shown \in {st[m].shown, Unset} /\ st'[m].pc = "init" /\ \A o \in Messages \ {m} : st'[o] = st[o]
    BY <1>1, <1>8, <2>1, <2>2, MoveShows, ResolvePostBasics
  <2>4. GoesOn(m)
    BY <1>2, <2>1, <2>3 DEF GoesOn, EarlyStages, PassedStages
  <2> QED BY <1>1, <1>4, <1>8, <2>1, <2>3, <2>4, OneGoesOn, QuietStep
<1>9. CASE StorePost(m)
  BY <1>1, <1>5, <1>9 DEF StorePost
<1> QED BY <1>6, <1>7, <1>8, <1>9

\* A batch that is delivered.
LEMMA DeliverKeeps ==
    ASSUME Steady, Deliver
    PROVE  Ledger'
<1>1. Basics
  BY SteadyFacts
<1>2. PICK size \in 1..MaxBatch :
        LET batch == (delivered + 1)..(delivered + size)
        IN  /\ batch \in SUBSET (1..Len(log))
            /\ \A i \in 1..(delivered + size) : i \in 1..delivered \/ i \in batch
            /\ delivered' = delivered + size /\ delivered' \in 0..Len(log)
            /\ \A i \in batch :
                LET b == BlockedBy(batch, i)
                IN  st'[log[i]].pc = IF b = 0 THEN "ready" ELSE "blocked"
            /\ \A m \in Messages : m \notin {log[i] : i \in batch} => st'[m] = st[m]
  BY <1>1, DeliverGives
<1> DEFINE batch == (delivered + 1)..(delivered + size)
<1>3. \A m \in Messages : st'[m].shown = st[m].shown
  <2>1. PICK new, by : st' = [m \in Messages |-> IF m \in new
                               THEN [st[m] EXCEPT !.pc = IF by[m] = 0 THEN "ready" ELSE "blocked", !.on = by[m]]
                               ELSE st[m]]
    <3>1. PICK s \in 1..MaxBatch :
            st' = [m \in Messages |->
                    IF m \in {log[i] : i \in (delivered + 1)..(delivered + s)}
                    THEN LET b == BlockedBy((delivered + 1)..(delivered + s), Position(m))
                         IN  [st[m] EXCEPT !.pc = IF b = 0 THEN "ready" ELSE "blocked", !.on = b]
                    ELSE st[m]]
      BY DEF Deliver
    <3> DEFINE new == {log[i] : i \in (delivered + 1)..(delivered + s)}
               by == [m \in Messages |-> BlockedBy((delivered + 1)..(delivered + s), Position(m))]
    <3>2. \A m \in Messages : by[m] = BlockedBy((delivered + 1)..(delivered + s), Position(m))
      OBVIOUS
    <3> HIDE DEF by
    <3>3. st' = [m \in Messages |-> IF m \in new
                               THEN [st[m] EXCEPT !.pc = IF by[m] = 0 THEN "ready" ELSE "blocked", !.on = by[m]]
                               ELSE st[m]]
      BY <3>1, <3>2
    <3> QED BY <3>3
  <2>2. st \in [Messages -> Progress]
    BY <1>1, Typed DEF Basics, Types
  <2>3. ASSUME NEW m \in Messages PROVE st'[m].shown = st[m].shown
    BY <2>1, <2>2 DEF Progress
  <2> QED BY <2>3
<1>4. \A i \in batch : st'[log[i]].pc \in {"ready", "blocked"} /\ st[log[i]].pc = "none" /\ log[i] \in Messages
  <2>1. \A i \in batch : st'[log[i]].pc \in {"ready", "blocked"}
    BY <1>2
  <2>2. \A i \in batch : i \in 1..Len(log) /\ i \notin 1..delivered
    BY <1>1, <1>2, Values
  <2>3. \A i \in batch : log[i] \notin Arrived /\ log[i] \in Messages
    BY <1>1, <2>2, Places, Values DEF Basics, Logged
  <2>4. \A i \in batch : st[log[i]].pc = "none"
    BY <1>1, <2>3 DEF Basics, Staged, StagedMessage
  <2> QED BY <2>1, <2>3, <2>4
<1> HIDE DEF batch
<1>5. \A m \in Messages : GoesOn(m)
  <2> SUFFICES ASSUME NEW m \in Messages PROVE GoesOn(m)
    OBVIOUS
  <2>1. CASE \E i \in batch : m = log[i]
    BY <1>3, <1>4, <2>1 DEF GoesOn, EarlyStages, PassedStages
  <2>2. CASE ~\E i \in batch : m = log[i]
    <3>1. st'[m] = st[m]
      BY <1>2, <2>2 DEF batch
    <3> QED BY <3>1 DEF GoesOn
  <2> QED BY <2>1, <2>2
<1>6. UNCHANGED <<reads, posted, log, me, heap, comp, promise, unread, lastReads, posts, init>>
  BY DEF Deliver, server, cached, counters
<1>7. Calm
  <2>1. \A i \in 1..delivered' : i \in 1..delivered \/ i \in batch
    BY <1>2 DEF batch
  <2>2. \A i \in 1..delivered' : i \in 1..delivered \/ st'[log[i]].pc \in EarlyStages
    BY <1>4, <2>1 DEF EarlyStages
  <2>3. delivered' \in 0..Len(log) /\ \A c \in Computes : SameCore(c)
    BY <1>2, <1>6 DEF SameCore
  <2> QED BY <1>5, <1>6, <2>2, <2>3 DEF Calm
<1> QED BY <1>6, <1>7, QuietStep

\* What a request caches is of messages that have come, or will not.
LEMMA CachedAreSeen ==
    ASSUME Steady, Smooth', NEW answer \in SUBSET (1..posted), CachePosts(answer), UNCHANGED <<posted, log, st>>,
           \A c \in Computes : comp'[c].read \subseteq 1..posted
    PROVE  NoneSeenBefore'
<1>1. Basics /\ NoneSeenBefore
  BY SteadyFacts DEF Ledger
<1>2. \A n \in answer : Post(n) \in Published => st[Post(n)].pc \notin EarlyStages
  <2> DEFINE u == \E n \in answer : Post(n) \in Published /\ st[Post(n)].pc \in EarlyStages
  <2>1. ahead' = (ahead \/ u) /\ ~ahead'
    BY DEF CachePosts, Smooth, Post, EarlyStages
  <2>2. ~u
    <3> HIDE DEF u
    <3> QED BY <2>1
  <2> QED BY <2>2
<1>3. posts' = posts \cup answer /\ Published' = Published
  BY DEF CachePosts, Published
<1> QED BY <1>1, <1>2, <1>3 DEF NoneSeenBefore

\* The answer that initialises a stream.
LEMMA InitAnswerKeeps ==
    ASSUME Steady, Smooth', InitAnswer
    PROVE  Ledger'
<1>1. Basics /\ CoreIsRight /\ NoneSeenBefore
  BY SteadyFacts DEF Ledger
<1>2. init = "pending" /\ init' = "yes" /\ CachePosts(1..posted)
  BY NothingFails DEF InitAnswer
<1>3. UNCHANGED <<reads, posted, log, delivered, st, me, heap, comp, promise, unread, lastReads>>
  BY DEF InitAnswer, server, counters
<1>4. Calm
  BY <1>1, <1>3, Values DEF Calm, SameCore, GoesOn
<1>5. Awaiting \/ \A c \in Computes : comp[c].pc # "page"
  BY <1>1, <1>2 DEF CoreIsRight, Computed, InCore
<1>6. CoreIsRight'
  BY <1>2, <1>3, <1>4, <1>5, CoreStays
<1>7. \A c \in Computes : comp'[c].read \subseteq 1..posted
  BY <1>1, <1>3 DEF NoneSeenBefore
<1>8. NoneSeenBefore'
  BY <1>2, <1>3, <1>7, CachedAreSeen
<1> QED BY <1>4, <1>6, <1>8, CalmKeeps DEF Framed, Ledger

--------------------------------------------------------------------------------
(* The computation under way. *)

\* A computation that goes on keeps all of Ledger but what is said of the cached posts.
LEMMA CoreMoves ==
    ASSUME Steady, NEW c \in Computes, comp[c].pc \in InCore, comp'[c].pc \in InCore,
           comp'[c].object = comp[c].object, \A d \in Computes \ {c} : comp'[d] = comp[d],
           UNCHANGED <<reads, posted, log, delivered, st, me, heap, promise, unread, lastReads>>,
           ~Awaiting => Computed(c)'
    PROVE  Calm /\ Framed' /\ CoreIsRight'
<1>1. Basics /\ OneAtATime
  BY SteadyFacts DEF Ledger
<1>2. Calm
  BY <1>1, Values DEF Calm, SameCore, GoesOn
<1>3. promise = c /\ \A d \in Computes : comp'[d].pc \in InCore => d = c
  BY <1>1 DEF OneAtATime
<1>4. Awaiting => Awaiting'
  BY DEF Awaiting, InCore
<1>5. CoreIsRight'
  BY <1>3, <1>4 DEF CoreIsRight
<1> QED BY <1>2, <1>5, CalmKeeps

\* What CoreIsRight says of the computation under way.
LEMMA CoreFacts ==
    ASSUME Steady, NEW c \in Computes, comp[c].pc \in InCore
    PROVE  /\ Basics /\ NoneSeenBefore /\ (~Awaiting => Computed(c))
           /\ comp \in [Computes -> Computing] /\ comp[c] \in Computing
           /\ \A pc \in ComputingStages :
                LET x == [comp[c] EXCEPT !.pc = pc]
                IN x.pc = pc /\ x.object = comp[c].object /\ x.from = comp[c].from /\ x.read = comp[c].read
<1>1. Basics /\ NoneSeenBefore /\ CoreIsRight
  BY SteadyFacts DEF Ledger
<1>2. comp \in [Computes -> Computing] /\ comp[c] \in Computing
  BY <1>1, Typed DEF Basics, Types, Others
<1> QED BY <1>1, <1>2 DEF CoreIsRight, Computing

\* The server's answer to a computation.
LEMMA ServerAnswersUnreadKeeps ==
    ASSUME Steady, NEW c \in Computes, ServerAnswersUnread(c)
    PROVE  Ledger'
<1>1. comp[c].pc = "unread" /\ "unread" \in InCore
  BY DEF ServerAnswersUnread, InCore
<1>2. /\ Basics /\ NoneSeenBefore /\ (~Awaiting => Computed(c)) /\ comp \in [Computes -> Computing]
      /\ \A pc \in ComputingStages :
                LET x == [comp[c] EXCEPT !.pc = pc]
                IN x.pc = pc /\ x.object = comp[c].object /\ x.from = comp[c].from /\ x.read = comp[c].read
  BY <1>1, CoreFacts
<1> DEFINE pc == IF reads[Current] = Unset THEN "nothing" ELSE "something"
<1>3. comp' = [comp EXCEPT ![c] = [comp[c] EXCEPT !.pc = pc]]
  BY DEF ServerAnswersUnread
<1>4. pc \in ComputingStages /\ pc \in InCore /\ pc \in {"nothing", "something"}
  BY DEF ComputingStages, InCore
<1>5. pc = "nothing" => reads[Current] = Unset
  OBVIOUS
<1> HIDE DEF pc
<1>6. comp'[c] = [comp[c] EXCEPT !.pc = pc] /\ \A d \in Computes \ {c} : comp'[d] = comp[d]
  BY <1>2, <1>3
<1>7. /\ comp'[c].pc = pc /\ comp'[c].object = comp[c].object /\ comp'[c].from = comp[c].from
      /\ comp'[c].read = comp[c].read
  BY <1>2, <1>4, <1>6
<1>8. UNCHANGED <<reads, posted, log, delivered, st, me, heap, promise, unread, lastReads, posts, init>>
  BY DEF ServerAnswersUnread, server, cached
<1>9. ASSUME ~Awaiting PROVE Computed(c)'
  <2>1. comp[c].read = {}
    BY <1>1, <1>2, <1>9 DEF Computed
  <2>2. pc = "nothing" => heap'[comp'[c].object] = Unset \/ heap'[comp'[c].object] # reads'[Current']
    BY <1>5, <1>8 DEF Current
  <2> QED BY <1>4, <1>7, <2>1, <2>2 DEF Computed
<1>10. Calm /\ Framed' /\ CoreIsRight'
  BY <1>1, <1>4, <1>6, <1>7, <1>8, <1>9, CoreMoves
<1>11. \A d \in Computes : comp'[d].read \subseteq 1..posted
  BY <1>2, <1>6, <1>7 DEF NoneSeenBefore
<1> QED BY <1>8, <1>10, <1>11, SeenStays DEF Framed, Ledger

\* A computation that reads the answer.
LEMMA UnreadAnswerKeeps ==
    ASSUME Steady, NEW c \in Computes, UnreadAnswer(c)
    PROVE  Ledger'
<1>1. comp[c].pc \in {"nothing", "something"} /\ comp[c].pc \in InCore
  BY DEF UnreadAnswer, InCore
<1>2. Basics /\ NoneSeenBefore /\ (~Awaiting => Computed(c)) /\ comp \in [Computes -> Computing]
      /\ comp[c] \in Computing
  BY <1>1, CoreFacts
<1> DEFINE from == IF comp[c].pc = "nothing" THEN Unset ELSE heap[comp[c].object]
           pc == IF from = Unset THEN "count" ELSE "posts"
<1>3. /\ comp' = [comp EXCEPT ![c] = [[comp[c] EXCEPT !.pc = pc] EXCEPT !.from = from]]
      /\ init' = IF from # Unset /\ init = "no" THEN "pending" ELSE init
  BY DEF UnreadAnswer
<1>4. /\ pc \in InCore /\ pc \in {"count", "posts"} /\ (pc = "count" <=> from = Unset)
      /\ comp[c].pc = "nothing" => from = Unset
      /\ comp[c].pc = "something" => from = heap[comp[c].object]
  BY DEF InCore
<1> HIDE DEF pc, from
<1>5. comp'[c] = [[comp[c] EXCEPT !.pc = pc] EXCEPT !.from = from] /\ \A d \in Computes \ {c} : comp'[d] = comp[d]
  BY <1>2, <1>3
<1>6. /\ comp'[c].pc = pc /\ comp'[c].object = comp[c].object /\ comp'[c].from = from
      /\ comp'[c].read = comp[c].read
  BY <1>2, <1>5 DEF Computing
<1>7. UNCHANGED <<reads, posted, log, delivered, st, me, heap, promise, unread, lastReads, posts>>
  BY DEF UnreadAnswer, server
<1>8. ASSUME ~Awaiting PROVE Computed(c)'
  <2> DEFINE mark == heap[comp[c].object]
  <2>1. comp[c].read = {} /\ (comp[c].pc = "nothing" => mark = Unset \/ mark # reads[Current])
    BY <1>1, <1>2, <1>8 DEF Computed
  <2>2. from = mark \/ (from = Unset /\ mark # reads[Current])
    BY <1>1, <1>4, <2>1
  <2>3. heap'[comp'[c].object] = mark /\ reads'[Current'] = reads[Current]
    BY <1>6, <1>7 DEF Current
  <2>4. pc = "posts" => init' # "no"
    BY <1>3, <1>4
  <2> HIDE DEF mark
  <2> QED BY <1>4, <1>6, <2>1, <2>2, <2>3, <2>4 DEF Computed
<1>9. Calm /\ Framed' /\ CoreIsRight'
  BY <1>1, <1>4, <1>5, <1>6, <1>7, <1>8, CoreMoves
<1>10. \A d \in Computes : comp'[d].read \subseteq 1..posted
  BY <1>2, <1>5, <1>6 DEF NoneSeenBefore
<1> QED BY <1>7, <1>9, <1>10, SeenStays DEF Framed, Ledger

\* While a computation is under way and the event loop idle, what is cached is what was processed.
LEMMA CachedIsProcessed ==
    ASSUME Steady, Idle, promise # 0, init = "yes"
    PROVE  posts = Processed
<1>1. Basics /\ NoneSeenBefore /\ OneAtATime /\ AllCachedOrCome /\ \A m \in Messages : st[m].pc # "dropped"
  BY SteadyFacts DEF Ledger
<1>2. ASSUME NEW n \in posts PROVE n \in Processed
  <2>1. n \in 1..posted /\ Post(n) \in Messages /\ Post(n).type = "post"
    BY <1>1, PostsAreMessages DEF NoneSeenBefore
  <2>2. ASSUME Post(n) \in Published PROVE st[Post(n)].pc = "done"
    <3>1. st[Post(n)].pc \in PostStages \ (EarlyStages \cup {"dropped", "waiting", "counting"})
      BY <1>1, <2>1, <2>2 DEF NoneSeenBefore, OneAtATime, Basics, Staged, StagedMessage, Fits
    <3>2. st[Post(n)].pc # "init"
      <4>1. ASSUME st[Post(n)].pc = "init" PROVE FALSE
        <5>1. Post(n) \in Arrived
          BY <1>1, <2>1, <4>1 DEF Basics, Staged, StagedMessage
        <5> QED BY <4>1, <5>1 DEF Idle, Ready
      <4> QED BY <4>1
    <3> QED BY <3>1, <3>2 DEF PostStages, EarlyStages
  <2> QED BY <2>1, <2>2 DEF Processed
<1>3. ASSUME NEW n \in Processed PROVE n \in posts
  BY <1>1, <1>3 DEF Processed, AllCachedOrCome, CachedOrComes, Post
<1> QED BY <1>2, <1>3

\* A computation that cuts the unread posts out of the cache.
LEMMA PostsReadKeeps ==
    ASSUME Steady, NEW c \in Computes, PostsRead(c)
    PROVE  Ledger'
<1>1. comp[c].pc = "posts" /\ comp[c].pc \in InCore /\ init # "pending" /\ Idle
  BY DEF PostsRead, InCore
<1>2. /\ Basics /\ NoneSeenBefore /\ (~Awaiting => Computed(c)) /\ comp \in [Computes -> Computing]
      /\ comp[c] \in Computing
  BY <1>1, CoreFacts
<1>3. init # "failed" /\ OneAtATime /\ MarksAreBehind /\ posted \in Nat /\ c # 0
  BY <1>2, SteadyFacts, Values DEF Ledger
<1>4. comp[c].from # Unset /\ comp[c].from \in Int /\ comp[c].from + 1 \in 1..posted
  <2>1. comp[c].from # Unset
    BY <1>1, <1>2 DEF Basics, Staged, StagedComputation
  <2> QED BY <1>1, <1>2, <1>3, <2>1, Values DEF MarksAreBehind, IsMark
<1> DEFINE first == FirstUnread(comp[c].from)
           latest == CHOOSE n \in posts : \A k \in posts : k <= n
           pc == IF posts = {} \/ first \in posts THEN "count" ELSE "page"
           read == IF posts = {} THEN {} ELSE IF first \in posts THEN {n \in posts : n >= first} ELSE first..latest
<1>5. first = comp[c].from + 1
  BY DEF FirstUnread
<1>6. comp' = [comp EXCEPT ![c] = [[comp[c] EXCEPT !.pc = pc] EXCEPT !.read = read]]
  <2>1. CASE posts = {}
    <3>1. comp' = [comp EXCEPT ![c].pc = "count", ![c].read = {}]
      BY <2>1 DEF PostsRead
    <3> QED BY <2>1, <3>1
  <2>2. CASE posts # {}
    <3>1. comp' = [comp EXCEPT ![c].pc = IF first \in posts THEN "count" ELSE "page",
                               ![c].read = IF first \in posts THEN {n \in posts : n >= first} ELSE first..latest]
      BY <1>3, <2>2 DEF PostsRead
    <3>2. pc = (IF first \in posts THEN "count" ELSE "page")
      BY <2>2
    <3>3. read = (IF first \in posts THEN {n \in posts : n >= first} ELSE first..latest)
      BY <2>2
    <3> HIDE DEF pc, read, first, latest
    <3> QED BY <3>1, <3>2, <3>3
  <2> QED BY <2>1, <2>2
<1>7. posts # {} => latest \in posts /\ \A k \in posts : k <= latest
  <2>1. posts # {} => \E n \in posts : \A k \in posts : k <= n
    BY <1>2, <1>3, HasLast DEF NoneSeenBefore
  <2> QED BY <2>1
<1>8. pc \in {"count", "page"} /\ pc \in InCore /\ read \subseteq 1..posted
  <2>1. pc \in {"count", "page"} /\ pc \in InCore
    BY DEF InCore
  <2>2. posts \subseteq 1..posted
    BY <1>2 DEF NoneSeenBefore
  <2>3. posts # {} => first..latest \subseteq 1..posted
    <3>1. first \in Int /\ 1 <= first
      BY <1>3, <1>4, <1>5
    <3> HIDE DEF latest, first
    <3>2. posts # {} => latest \in 1..posted
      BY <1>7, <2>2
    <3> QED BY <1>3, <3>1, <3>2
  <2> HIDE DEF latest, first
  <2> QED BY <2>1, <2>2, <2>3
<1>9. /\ comp'[c] = [[comp[c] EXCEPT !.pc = pc] EXCEPT !.read = read]
      /\ \A d \in Computes \ {c} : comp'[d] = comp[d]
  <2> HIDE DEF pc, read
  <2> QED BY <1>2, <1>6
<1>10. /\ comp'[c].pc = pc /\ comp'[c].read = read /\ comp'[c].object = comp[c].object
       /\ comp'[c].from = comp[c].from
  <2> HIDE DEF pc, read
  <2> QED BY <1>2, <1>9 DEF Computing
<1>11. UNCHANGED <<reads, posted, log, delivered, st, me, heap, promise, unread, lastReads, posts, init>>
  BY DEF PostsRead, server, cached
<1>12. ASSUME ~Awaiting PROVE Computed(c)'
  <2>1. init = "yes" /\ comp[c].from = heap[comp[c].object]
    <3>1. init # "no" /\ comp[c].from = heap[comp[c].object]
      BY <1>1, <1>2, <1>4, <1>12 DEF Computed
    <3>2. init \in {"no", "pending", "yes", "failed"}
      BY <1>2, Typed DEF Basics, Types, Others
    <3> QED BY <1>1, <1>3, <3>1, <3>2
  <2>2. promise # 0
    BY <1>1, <1>3 DEF OneAtATime
  <2>3. posts = Processed /\ Processed' = Processed
    BY <1>1, <1>2, <1>11, <2>1, <2>2, CachedIsProcessed, ProcessedStays
  <2>4. Processed \subseteq 1..posted
    BY DEF Processed
  <2>5. CASE posts = {}
    <3>1. Above(Processed, comp[c].from) = {}
      BY <2>3, <2>5 DEF Above
    <3>2. pc = "count" /\ read = {}
      BY <2>5
    <3> HIDE DEF pc, read
    <3> QED BY <1>4, <1>10, <1>11, <2>1, <2>3, <3>1, <3>2 DEF Computed
  <2>6. CASE posts # {} /\ first \in posts
    <3>1. Above(Processed, comp[c].from) = {n \in posts : n >= first}
      <4> DEFINE from == comp[c].from
      <4>1. from \in Int /\ \A n \in posts : n \in Int
        BY <1>3, <1>4, <2>3, <2>4
      <4> HIDE DEF from
      <4>2. \A n \in posts : n > from <=> n >= from + 1
        BY <4>1
      <4>3. Above(Processed, from) = {n \in posts : n >= from + 1}
        BY <2>3, <4>2 DEF Above
      <4> QED BY <1>5, <4>3 DEF from
    <3>2. pc = "count" /\ read = Above(Processed, comp[c].from)
      BY <2>6, <3>1
    <3> HIDE DEF pc, read
    <3> QED BY <1>4, <1>10, <1>11, <2>1, <2>3, <3>2 DEF Computed
  <2>7. CASE posts # {} /\ first \notin posts
    <3>1. pc = "page" /\ read = first..latest
      BY <2>7
    <3>2. latest \in Int /\ first \in Int /\ \A k \in posts : k \in Int /\ k <= latest
      <4>1. first \in Int /\ \A k \in posts : k \in Int
        BY <1>3, <1>4, <1>5, <2>3, <2>4
      <4> HIDE DEF latest, first
      <4> QED BY <1>7, <2>7, <4>1
    <3> HIDE DEF pc, read, latest
    <3>3. first \in read \/ (read = {} /\ Above(Processed, comp[c].from) = {})
      <4>1. CASE first <= latest
        BY <3>1, <3>2, <4>1
      <4>2. CASE latest < first
        <5>1. read = {}
          BY <3>1, <3>2, <4>2
        <5>2. Above(Processed, comp[c].from) = {}
          BY <1>4, <1>5, <2>3, <3>2, <4>2 DEF Above
        <5> QED BY <5>1, <5>2
      <4> QED BY <3>2, <4>1, <4>2
    <3> QED BY <1>4, <1>5, <1>10, <1>11, <2>1, <2>3, <2>7, <3>1, <3>3 DEF Computed
  <2> QED BY <2>5, <2>6, <2>7
<1> HIDE DEF pc, read
<1>13. Calm /\ Framed' /\ CoreIsRight'
  BY <1>1, <1>8, <1>9, <1>10, <1>11, <1>12, CoreMoves
<1>14. \A d \in Computes : comp'[d].read \subseteq 1..posted
  BY <1>2, <1>8, <1>9, <1>10 DEF NoneSeenBefore
<1> QED BY <1>11, <1>13, <1>14, SeenStays DEF Framed, Ledger

\* A computation that fetches the page in between.
LEMMA PageAnswerKeeps ==
    ASSUME Steady, Smooth', NEW c \in Computes, PageAnswer(c)
    PROVE  Ledger'
<1>1. comp[c].pc = "page" /\ comp[c].pc \in InCore
  BY DEF PageAnswer, InCore
<1>2. /\ Basics /\ NoneSeenBefore /\ (~Awaiting => Computed(c)) /\ comp \in [Computes -> Computing]
      /\ comp[c] \in Computing
  BY <1>1, CoreFacts
<1>3. comp' = [comp EXCEPT ![c].pc = "count"] /\ CachePosts(comp[c].read)
  BY NothingFails DEF PageAnswer
<1>4. comp'[c] = [comp[c] EXCEPT !.pc = "count"] /\ \A d \in Computes \ {c} : comp'[d] = comp[d]
  BY <1>2, <1>3
<1>5. /\ comp'[c].pc = "count" /\ "count" \in InCore /\ comp'[c].read = comp[c].read
      /\ comp'[c].object = comp[c].object /\ comp'[c].from = comp[c].from
  BY <1>2, <1>4 DEF Computing, InCore
<1>6. UNCHANGED <<reads, posted, log, delivered, st, me, heap, promise, unread, lastReads, init>>
  BY DEF PageAnswer, server
<1>7. comp[c].read \subseteq 1..posted /\ \A d \in Computes : comp'[d].read \subseteq 1..posted
  BY <1>2, <1>4, <1>5 DEF NoneSeenBefore
<1>8. NoneSeenBefore'
  BY <1>3, <1>6, <1>7, CachedAreSeen
<1>9. ASSUME ~Awaiting PROVE Computed(c)'
  <2> DEFINE from == comp[c].from
  <2>1. /\ from = heap[comp[c].object] /\ from # Unset /\ init = "yes" /\ from + 1 \notin posts
        /\ from + 1 \in comp[c].read \/ (comp[c].read = {} /\ Above(Processed, from) = {})
    BY <1>1, <1>2, <1>9 DEF Computed
  <2>2. from + 1 \in 1..posted
    BY <1>2, <2>1, SteadyFacts, Values DEF MarksAreBehind, IsMark
  <2>3. Post(from + 1) \in Published /\ st[Post(from + 1)].pc \in EarlyStages
    BY <2>1, <2>2, SteadyFacts DEF AllCachedOrCome, CachedOrComes, Post, EarlyStages
  <2>4. from + 1 \notin comp[c].read
    <3>1. ASSUME from + 1 \in comp[c].read PROVE FALSE
      <4>1. from + 1 \in posts' /\ posted' = posted /\ st' = st /\ Published' = Published
        BY <1>3, <1>6, <3>1 DEF CachePosts, Published
      <4> QED BY <1>8, <2>3, <4>1 DEF NoneSeenBefore
    <3> QED BY <3>1
  <2>5. Processed' = Processed
    BY <1>2, <1>6, ProcessedStays
  <2> HIDE DEF from
  <2>6. comp'[c].from = from
    BY <1>5 DEF from
  <2> QED BY <1>5, <1>6, <2>1, <2>4, <2>5, <2>6 DEF Computed
<1>10. Calm /\ Framed' /\ CoreIsRight'
  BY <1>1, <1>4, <1>5, <1>6, <1>9, CoreMoves
<1> QED BY <1>8, <1>10 DEF Framed, Ledger

\* A computation that is over leaves the counter, and the mark it is for.
LEMMA ComputeFinishKeeps ==
    ASSUME Steady, NEW c \in Computes, ComputeFinish(c)
    PROVE  Ledger'
<1>1. comp[c].pc = "count" /\ comp[c].pc \in InCore
  BY DEF ComputeFinish, InCore
<1>2. /\ Basics /\ NoneSeenBefore /\ (~Awaiting => Computed(c)) /\ comp \in [Computes -> Computing]
      /\ comp[c] \in Computing /\ Ledger /\ MarksAreBehind
  BY <1>1, CoreFacts, SteadyFacts
<1>3. promise = c /\ c # 0 /\ unread = 0 /\ comp[c].object \in Objects
  BY <1>1, <1>2, Values DEF Ledger, OneAtATime
<1>4. /\ comp' = [comp EXCEPT ![c] = [Idling EXCEPT !.pc = "done"]]
      /\ unread' = Cardinality(comp[c].read) /\ lastReads' = comp[c].object /\ promise' = 0
  <2>1. unread' = 0 + Cardinality(comp[c].read)
    BY <1>3 DEF ComputeFinish
  <2>2. comp[c].read \subseteq 1..posted /\ IsFiniteSet(1..posted)
    <3>1. posted \in Int /\ 1 \in Int
      BY <1>2, Values
    <3>2. IsFiniteSet(1..posted)
      BY <3>1, FS_Interval
    <3> QED BY <1>2, <3>2 DEF NoneSeenBefore
  <2>3. Cardinality(comp[c].read) \in Nat
    BY <2>2, FS_Subset, FS_CardinalityType
  <2>4. unread' = Cardinality(comp[c].read)
    BY <2>1, <2>3
  <2> QED BY <2>4 DEF ComputeFinish
<1>5. comp'[c].pc = "done" /\ comp'[c].read = {} /\ \A d \in Computes \ {c} : comp'[d] = comp[d]
  BY <1>2, <1>4 DEF Idling
<1>6. UNCHANGED <<reads, posted, log, delivered, st, me, heap, posts, init>> /\ Current' = Current
  BY DEF ComputeFinish, server, cached, Current
<1>7. Published' = Published /\ Processed' = Processed
  BY <1>2, <1>6, ProcessedStays
<1>8. \A d \in Computes : comp'[d].pc \notin InCore
  BY <1>2, <1>3, <1>5 DEF Ledger, OneAtATime, InCore
<1>9. \A d \in Computes : comp'[d].pc = "waiting" => comp[d].pc = "waiting" /\ comp'[d] = comp[d]
  BY <1>5
<1>10. \A d \in Computes : comp[d].pc \in InCore \cup {"done"} => comp'[d].pc = "done"
  BY <1>2, <1>3, <1>5 DEF Ledger, OneAtATime
<1>11. Awaiting <=> Awaiting'
  BY <1>1, <1>5, <1>9 DEF Awaiting, InCore
<1>12. Once'
  BY <1>1, <1>2, <1>5, <1>6 DEF Ledger, Once, InCore
<1>13. ShownAreMarks'
  BY <1>2, <1>6 DEF Ledger, ShownAreMarks
<1>14. OneAtATime'
  <2>1. ASSUME NEW d \in Computes, comp'[d].pc = "waiting" PROVE comp'[comp'[d].on].pc \in InCore \cup {"done"}
    <3>1. comp[d].pc = "waiting" /\ comp'[d] = comp[d] /\ comp[d].on \in Computes
      BY <1>2, <1>9, <2>1 DEF Basics, Staged, StagedComputation
    <3> QED BY <1>2, <1>10, <3>1 DEF Ledger, OneAtATime
  <2>2. ASSUME NEW m \in Messages, st'[m].pc = "waiting"
        PROVE  m.type = "me" /\ comp'[st'[m].on].pc \in InCore \cup {"done"}
    <3>1. st[m].pc = "waiting" /\ st'[m] = st[m] /\ st[m].on \in Computes
      BY <1>2, <1>6, <2>2 DEF Basics, Staged, StagedMessage, Fits
    <3> QED BY <1>2, <1>10, <3>1 DEF Ledger, OneAtATime
  <2>3. \A d, e \in Computes : comp'[d].pc = "waiting" /\ comp'[e].pc = "waiting" => d = e
    BY <1>2, <1>9 DEF Ledger, OneAtATime
  <2>4. \A m \in Messages : st'[m].pc = "counting" => promise' = 0 /\ ~st'[m].old
    BY <1>2, <1>4, <1>6 DEF Ledger, OneAtATime
  <2> QED BY <1>4, <1>8, <2>1, <2>2, <2>3, <2>4 DEF OneAtATime
<1>15. NoneSeenBefore'
  BY <1>2, <1>5, <1>6, <1>7 DEF NoneSeenBefore
<1>16. ReadAreDone'
  BY <1>2, <1>6, <1>7 DEF Ledger, ReadAreDone
<1>17. ASSUME NEW o, IsLast(o)' PROVE IsLast(o)
  <2>1. CASE \E d \in Computes : comp'[d].pc = "waiting" /\ comp'[d].object = o
    BY <1>9, <2>1 DEF IsLast
  <2>2. CASE ~Awaiting' /\ lastReads' = o
    BY <1>3, <1>4, <1>11, <2>2 DEF IsLast
  <2>3. CASE \E d \in Computes : promise' = d /\ comp'[d].object = o
    BY <1>2, <1>4, <2>3, Values
  <2> QED BY <1>17, <2>1, <2>2, <2>3 DEF IsLast
<1>18. MarkIsTheUsers'
  BY <1>2, <1>6, <1>17 DEF Ledger, MarkIsTheUsers
<1>19. ShownAreOld'
  BY <1>2, <1>6 DEF Ledger, ShownAreOld
<1>20. NotOvertaken' /\ WaitsBehind'
  BY <1>2, <1>4, <1>6 DEF Ledger, NotOvertaken, WaitsBehind
<1>21. InTurn'
  BY <1>2, <1>3, <1>6, <1>7 DEF Ledger, InTurn
<1>22. CoreIsRight'
  BY <1>8 DEF CoreIsRight
<1>23. CounterIsRight'
  <2> SUFFICES ASSUME ~Awaiting
               PROVE  /\ heap[comp[c].object] = Unset => unread' = 0
                      /\ heap[comp[c].object] # Unset /\ heap[comp[c].object] = reads[Current]
                            => unread' = Cardinality(Above(Processed, heap[comp[c].object]))
    BY <1>4, <1>6, <1>7, <1>11 DEF CounterIsRight
  <2> DEFINE mark == heap[comp[c].object]
  <2>1. /\ comp[c].from = mark \/ (comp[c].from = Unset /\ mark # reads[Current])
        /\ comp[c].read = IF comp[c].from = Unset THEN {} ELSE Above(Processed, comp[c].from)
    BY <1>1, <1>2 DEF Computed
  <2> HIDE DEF mark
  <2>2. mark = Unset => unread' = 0
    BY <1>4, <2>1, FS_EmptySet
  <2>3. mark # Unset /\ mark = reads[Current] => unread' = Cardinality(Above(Processed, mark))
    BY <1>4, <2>1
  <2> QED BY <2>2, <2>3 DEF mark
<1> QED BY <1>12, <1>13, <1>14, <1>15, <1>16, <1>18, <1>19, <1>20, <1>21, <1>22, <1>23 DEF Ledger

--------------------------------------------------------------------------------
(* A computation that starts. *)

\* When a computation starts and overlaps nothing, every post that has come is counted.
LEMMA StartsAlone ==
    ASSUME Steady, Smooth', NEW c \in Computes, NEW object \in Objects, StartCore(c, object),
           comp[c].pc \notin InCore
    PROVE  /\ comp'[c] = [Idling EXCEPT !.pc = "unread", !.object = object]
           /\ comp'[c].pc = "unread" /\ comp'[c].object = object /\ comp'[c].read = {}
           /\ \A d \in Computes \ {c} : comp'[d] = comp[d] /\ comp[d].pc \notin InCore \cup {"waiting"}
           /\ promise = 0 /\ promise' = c /\ unread' = 0
           /\ \A m \in Arrived : m.type = "post" => st[m].pc = "done"
<1>1. Basics /\ OneAtATime /\ comp \in [Computes -> Computing]
  BY SteadyFacts, Typed DEF Basics, Types, Others, Ledger
<1>2. comp' = [comp EXCEPT ![c] = [Idling EXCEPT !.pc = "unread", !.object = object]] /\ promise' = c /\ unread' = 0
  BY DEF StartCore, ResetCounters
<1>3. comp'[c] = [Idling EXCEPT !.pc = "unread", !.object = object] /\ \A d \in Computes \ {c} : comp'[d] = comp[d]
  BY <1>1, <1>2
<1>4. comp'[c].pc = "unread" /\ comp'[c].object = object /\ comp'[c].read = {}
  BY <1>3 DEF Idling
<1> DEFINE u == \E d \in Computes \ {c} : comp[d].pc \in InCore \cup {"waiting"}
           w == \E m \in Arrived : st[m].pc \notin Ended /\ m.type = "post"
<1>5. overlap' = overlap \cup When(u, "computation") \cup When(w, "update") /\ overlap' = {}
  BY DEF StartCore, Smooth
<1>6. ~u /\ ~w
  <2> HIDE DEF u, w
  <2> QED BY <1>5 DEF When
<1>7. \A d \in Computes \ {c} : comp[d].pc \notin InCore \cup {"waiting"}
  BY <1>6
<1>8. \A m \in Arrived : m.type = "post" => st[m].pc = "done"
  <2> SUFFICES ASSUME NEW m \in Arrived, m.type = "post" PROVE st[m].pc = "done"
    OBVIOUS
  <2>1. st[m].pc \in Ended
    BY <1>6
  <2>2. st[m].pc # "none" /\ m \in Messages
    BY <1>1, OfKind DEF Basics, Staged, StagedMessage
  <2> QED BY <2>1, <2>2, SteadyFacts DEF Ended
<1>9. promise = 0
  BY <1>1, <1>7, Values DEF OneAtATime
<1> QED BY <1>2, <1>3, <1>4, <1>7, <1>8, <1>9

\* Then nothing is left to count, so that what Ledger says of such posts holds.
LEMMA AllCounted ==
    ASSUME Basics, ServerOrder, \A m \in Arrived : m.type = "post" => st[m].pc = "done"
    PROVE  /\ \A i \in 1..delivered : log[i].type = "post" => st[log[i]].pc = "done"
           /\ \A k, n \in 1..posted :
                ~(k < n /\ Post(k) \in Published /\ st[Post(k)].pc # "done"
                        /\ Post(n) \in Published /\ st[Post(n)].pc = "done")
<1>1. \A i \in 1..delivered : log[i].type = "post" => st[log[i]].pc = "done"
  BY Places DEF Basics
<1>2. ASSUME NEW k \in 1..posted, NEW n \in 1..posted, k < n, Post(k) \in Published, st[Post(k)].pc # "done",
             st[Post(n)].pc = "done"
      PROVE  FALSE
  <2>1. Post(k) \in Messages /\ Post(k).type = "post" /\ Post(k).n = k
    BY PostsAreMessages
  <2>2. Post(n) \in Messages /\ Post(n).type = "post" /\ Post(n).n = n
    BY PostsAreMessages
  <2>3. Post(n) \in Arrived
    BY <1>2, <2>2 DEF Basics, Staged, StagedMessage
  <2>4. PICK j \in 1..delivered : log[j] = Post(n)
    BY <2>3, Places DEF Basics
  <2>5. PICK i \in 1..Len(log) : log[i] = Post(k)
    BY <1>2, Numbers DEF Published, Basics
  <2>6. i \in 1..delivered
    BY <1>2, <2>1, <2>2, <2>4, <2>5, EarlierCameFirst
  <2>7. st[log[i]].pc = "done"
    BY <1>1, <2>1, <2>5, <2>6
  <2> QED BY <1>2, <2>5, <2>7
<1> QED BY <1>1, <1>2

\* A computation that goes on after the one it waited for.
LEMMA ComputeResumesKeeps ==
    ASSUME Steady, Smooth', NEW c \in Computes, ComputeResumes(c)
    PROVE  Ledger'
<1>1. comp[c].pc = "waiting" /\ Settles(comp[c].on) /\ comp[c].pc \notin InCore
  BY DEF ComputeResumes, InCore
<1>2. /\ Basics /\ ServerOrder /\ Ledger /\ OneAtATime /\ \A d \in Computes : comp[d].pc # "failed"
      /\ comp[c].object \in Objects
  BY SteadyFacts, Values DEF Ledger
<1>3. comp[c].on \in Computes
  BY <1>1, <1>2 DEF Basics, Staged, StagedComputation
<1>4. comp[comp[c].on].pc = "done"
  BY <1>1, <1>2, <1>3 DEF Settles
<1> DEFINE object == comp[c].object
<1>5. StartCore(c, object) /\ UNCHANGED <<reads, posted, log, delivered, st, me, heap, posts, init, lastReads>>
  BY <1>4 DEF ComputeResumes, server, cached
<1>6. object \in Objects
  BY <1>2
<1> HIDE DEF object
<1>7. /\ comp'[c].pc = "unread" /\ comp'[c].object = object /\ comp'[c].read = {}
      /\ \A d \in Computes \ {c} : comp'[d] = comp[d] /\ comp[d].pc \notin InCore \cup {"waiting"}
      /\ promise = 0 /\ promise' = c /\ unread' = 0
      /\ \A m \in Arrived : m.type = "post" => st[m].pc = "done"
  BY <1>1, <1>5, <1>6, StartsAlone
<1>8. /\ \A i \in 1..delivered : log[i].type = "post" => st[log[i]].pc = "done"
      /\ \A k, n \in 1..posted :
                ~(k < n /\ Post(k) \in Published /\ st[Post(k)].pc # "done"
                        /\ Post(n) \in Published /\ st[Post(n)].pc = "done")
  BY <1>2, <1>7, AllCounted
<1>9. Current' = Current /\ Published' = Published /\ c \in Nat /\ c # 0
  BY <1>2, <1>5, Values DEF Current, Published
<1>10. ~Awaiting'
  BY <1>7 DEF Awaiting
<1>11. Once'
  BY <1>1, <1>2, <1>5, <1>7 DEF Ledger, Once
<1>12. ShownAreMarks'
  BY <1>2, <1>5 DEF Ledger, ShownAreMarks
<1>13. OneAtATime'
  <2>1. ASSUME NEW m \in Messages, st[m].pc = "waiting"
        PROVE  m.type = "me" /\ comp'[st[m].on].pc \in InCore \cup {"done"}
    <3>1. st[m].on \in Computes /\ comp[st[m].on].pc \in InCore \cup {"done"} /\ m.type = "me"
      BY <1>2, <2>1 DEF Basics, Staged, StagedMessage, Fits, OneAtATime
    <3>2. st[m].on # c
      BY <1>1, <3>1
    <3> QED BY <1>7, <3>1, <3>2
  <2>2. ASSUME NEW m \in Messages PROVE st[m].pc # "counting"
    <3>1. ASSUME st[m].pc = "counting" PROVE FALSE
      <4>1. m \in Arrived /\ m.type = "post"
        BY <1>2, <3>1, OfKind DEF Basics, Staged, StagedMessage
      <4> QED BY <1>7, <3>1, <4>1
    <3> QED BY <3>1
  <2>3. comp'[promise'].pc \in InCore /\ unread' = 0
    BY <1>7 DEF InCore
  <2>4. \A d \in Computes : comp'[d].pc \in InCore => promise' = d
    BY <1>7
  <2>5. \A d \in Computes : comp'[d].pc # "waiting"
    BY <1>7
  <2> QED BY <1>5, <2>1, <2>2, <2>3, <2>4, <2>5 DEF OneAtATime
<1>14. NoneSeenBefore'
  BY <1>2, <1>5, <1>7, <1>9 DEF Ledger, NoneSeenBefore
<1>15. ReadAreDone'
  BY <1>2, <1>5, <1>9 DEF Ledger, ReadAreDone
<1>16. MarkIsTheUsers'
  <2>1. ASSUME NEW o, IsLast(o)' PROVE IsLast(o)
    <3>1. o = object
      BY <1>7, <1>9, <1>10, <2>1 DEF IsLast
    <3> QED BY <1>1, <3>1 DEF IsLast, object
  <2> QED BY <1>2, <1>5, <1>9, <2>1 DEF Ledger, MarkIsTheUsers
<1>17. ShownAreOld'
  BY <1>2, <1>5, <1>9 DEF Ledger, ShownAreOld
<1>18. NotOvertaken'
  BY <1>2, <1>5 DEF Ledger, NotOvertaken
<1>19. WaitsBehind'
  BY <1>5, <1>8 DEF WaitsBehind
<1>20. InTurn'
  BY <1>5, <1>8, <1>9 DEF InTurn
<1>21. CoreIsRight'
  <2>1. \A d \in Computes : comp'[d].pc \in InCore => d = c
    BY <1>7
  <2>2. Computed(c)'
    BY <1>7 DEF Computed
  <2> QED BY <2>1, <2>2 DEF CoreIsRight
<1>22. CounterIsRight'
  BY <1>7, <1>9 DEF CounterIsRight
<1> QED BY <1>11, <1>12, <1>13, <1>14, <1>15, <1>16, <1>17, <1>18, <1>19, <1>20, <1>21, <1>22 DEF Ledger

--------------------------------------------------------------------------------
(* What the server adds is nobody's yet. *)

\* A step of the server.
LEMMA ServerKeeps ==
    ASSUME Steady, Basics', ServerPosts \/ ServerMarksRead \/ ServerAddsStream
    PROVE  Ledger'
<1>1. Basics /\ ServerOrder /\ Ledger /\ MarksAreBehind /\ ServerGrows
  BY SteadyFacts, ServerGives
<1>2. UNCHANGED <<delivered, st, me, posts, init, heap, comp, promise, unread, lastReads>>
  BY <1>1, ServerSteps DEF cached, counters
<1>3. /\ posted \in Nat /\ Current \in Nat /\ 1 <= Current /\ Len(log) \in Nat /\ Len(log') \in Nat
      /\ posted' \in {posted, posted + 1} /\ Current' \in {Current, Current + 1}
      /\ delivered \in Nat /\ delivered <= Len(log) /\ Len(log) <= Len(log')
      /\ me.version \in 1..Current /\ lastReads \in Objects
      /\ \A c \in Computes : comp[c].object \in Objects
      /\ \A i \in 1..Len(log) : log'[i] = log[i]
  <2>1. me.version <= Current
    BY SteadyFacts
  <2> QED BY <1>1, <2>1, Values DEF ServerGrows
<1>4. /\ \A v \in 1..Current : /\ Through(reads', posted', v) = Through(reads, posted, v) /\ reads'[v] = reads[v]
                               /\ Through(reads, posted, v) \in 0..posted
      /\ \A n \in 1..posted : n \in 1..posted' /\ (Post(n) \in Published' <=> Post(n) \in Published)
  <2>1. \A v \in 1..Current : /\ Through(reads', posted', v) = Through(reads, posted, v)
                              /\ Through(reads, posted, v) \in 0..posted
    BY <1>1, ThroughStays DEF ServerOrder, ThroughGrows
  <2>2. \A v \in 1..Current : reads'[v] = reads[v]
    BY <1>1 DEF ServerGrows
  <2>3. \A n \in 1..posted : n \in 1..posted'
    BY <1>3
  <2>4. \A n \in 1..posted : Post(n) \in Published' <=> Post(n) \in Published
    BY <1>1, PublishedStays
  <2> QED BY <2>1, <2>2, <2>3, <2>4
<1>5. posted' = posted + 1 => Post(posted + 1) \in Published' /\ st[Post(posted + 1)].pc = "none"
  <2> SUFFICES ASSUME posted' = posted + 1 PROVE Post(posted + 1) \in Published' /\ st[Post(posted + 1)].pc = "none"
    OBVIOUS
  <2>1. PICK i \in 1..Len(log') : log'[i] = Post(posted + 1)
    BY <1>1 DEF ServerGrows
  <2>2. log'[i].type = "post" /\ log'[i].n = posted + 1
    BY <2>1, Kinds DEF Post
  <2>3. ASSUME i \in 1..Len(log) PROVE FALSE
    <3>1. log[i].type = "post" /\ log[i].n = posted + 1
      BY <1>3, <2>2, <2>3
    <3>2. Logged
      BY <1>1 DEF Basics
    <3>3. log[i].n <= posted
      BY <2>3, <3>1, <3>2 DEF Logged
    <3> QED BY <1>3, <3>1, <3>3
  <2>4. i \in (Len(log) + 1)..Len(log')
    BY <1>3, <2>3
  <2>5. st'[log'[i]].pc = "none"
    BY <1>1, <1>2, <2>4, NewsIsQuiet
  <2> QED BY <1>1, <1>2, <2>1, <2>5, PublishedStays
<1>6. \A n \in 1..posted' : n \in 1..posted \/ (n = posted + 1 /\ posted' = posted + 1)
  BY <1>3
<1>7. Processed' = Processed
  BY <1>2, <1>4, <1>5, <1>6 DEF Processed
<1>8. \A k : IsMark(k, posted) => IsMark(k, posted')
  BY <1>3 DEF IsMark
<1>9. ASSUME NEW k \in Int, IsMark(k, posted), k # Unset, k = reads'[Current']
      PROVE  Current' = Current
  <2>1. k # posted
    BY <1>3, <1>9 DEF IsMark
  <2> QED BY <1>1, <1>3, <1>9, <2>1 DEF ServerGrows
<1>10. \A o \in Objects : IsMark(heap[o], posted) /\ heap[o] \in Int
  BY <1>1, Values DEF MarksAreBehind
<1>11. \A o \in Objects : heap[o] # Unset /\ heap[o] = reads'[Current'] => Current' = Current /\ heap[o] = reads[Current]
  <2>1. Current \in 1..Current
    BY <1>3
  <2> QED BY <1>4, <1>9, <1>10, <2>1
<1>12. Once' /\ OneAtATime'
  BY <1>1, <1>2 DEF Ledger, Once, OneAtATime
<1>13. ShownAreMarks'
  BY <1>1, <1>2, <1>8 DEF Ledger, ShownAreMarks
<1>14. NoneSeenBefore'
  <2>1. posts \subseteq 1..posted' /\ \A c \in Computes : comp[c].read \subseteq 1..posted'
    BY <1>1, <1>4 DEF Ledger, NoneSeenBefore
  <2> QED BY <1>1, <1>2, <1>4, <2>1 DEF Ledger, NoneSeenBefore
<1>15. ReadAreDone'
  <2> SUFFICES ASSUME NEW n \in 1..posted', n <= Through(reads', posted', me.version), Post(n) \in Published'
               PROVE  st[Post(n)].pc = "done"
    BY <1>2 DEF ReadAreDone
  <2>1. n \in 1..posted /\ n <= Through(reads, posted, me.version)
    BY <1>3, <1>4
  <2> QED BY <1>1, <1>4, <2>1 DEF Ledger, ReadAreDone
<1>16. MarkIsTheUsers'
  <2>1. \A o : IsLast(o)' => IsLast(o)
    BY <1>2 DEF IsLast, Awaiting
  <2> QED BY <1>1, <1>2, <1>3, <1>4, <2>1 DEF Ledger, MarkIsTheUsers
<1>17. ShownAreOld'
  <2> SUFFICES ASSUME NEW v \in 1..Current', reads'[v] # Unset, v > me.version, st[Post(reads'[v] + 1)].pc # "done"
               PROVE  /\ \A o \in Objects : heap[o] # reads'[v]
                      /\ \A m \in Messages : st[m].shown # reads'[v]
    BY <1>2 DEF ShownAreOld
  <2>1. CASE v \in 1..Current
    BY <1>1, <1>4, <2>1 DEF Ledger, ShownAreOld
  <2>2. CASE v \notin 1..Current
    <3>1. v = Current' /\ Current' # Current
      BY <1>3, <2>2
    <3>2. \A m \in Messages : IsMark(st[m].shown, posted) /\ st[m].shown \in Int
      BY <1>1, Values DEF Ledger, ShownAreMarks
    <3> QED BY <1>9, <1>10, <3>1, <3>2
  <2> QED BY <2>1, <2>2
<1>18. \A i \in 1..Len(log') : st[log'[i]].pc # "none" => i \in 1..Len(log)
  <2> SUFFICES ASSUME NEW i \in 1..Len(log'), i \notin 1..Len(log) PROVE st[log'[i]].pc = "none"
    OBVIOUS
  <2>1. i \in (Len(log) + 1)..Len(log')
    BY <1>3
  <2> QED BY <1>1, <1>2, <2>1, NewsIsQuiet
<1>19. NotOvertaken'
  <2> SUFFICES ASSUME NEW i \in 1..Len(log'), NEW j \in 1..Len(log'), i < j, log'[i].type = "me",
                      log'[j].type = "post", st[log'[j]].pc = "done"
               PROVE  st[log'[i]].pc \in PassedStages
    BY <1>2 DEF NotOvertaken
  <2>1. j \in 1..Len(log)
    BY <1>18
  <2>2. i \in 1..Len(log)
    BY <1>3, <2>1
  <2> QED BY <1>1, <1>3, <2>1, <2>2 DEF Ledger, NotOvertaken
<1>20. WaitsBehind'
  <2>1. \A i \in 1..delivered : log'[i] = log[i]
    BY <1>3
  <2> QED BY <1>1, <1>2, <2>1 DEF Ledger, WaitsBehind
<1>21. InTurn'
  <2> SUFFICES ASSUME NEW k \in 1..posted', NEW n \in 1..posted', k < n, Post(k) \in Published',
                      st[Post(k)].pc # "done", Post(n) \in Published', st[Post(n)].pc = "done"
               PROVE  promise = 0 /\ ~Awaiting /\ heap[lastReads] # Unset
    BY <1>2 DEF InTurn, Awaiting
  <2>1. n \in 1..posted
    BY <1>5, <1>6
  <2>2. k \in 1..posted
    BY <1>3, <2>1
  <2> QED BY <1>1, <1>4, <2>1, <2>2 DEF Ledger, InTurn
<1>22. CoreIsRight'
  <2> SUFFICES ASSUME ~Awaiting, NEW c \in Computes, comp[c].pc \in InCore PROVE Computed(c)'
    BY <1>2 DEF CoreIsRight, Awaiting
  <2>1. Computed(c) /\ comp[c].object \in Objects
    BY <1>1, <1>3 DEF Ledger, CoreIsRight
  <2>2. \/ heap[comp[c].object] = Unset \/ heap[comp[c].object] = reads[Current]
        \/ heap[comp[c].object] # reads'[Current']
    BY <1>11, <2>1
  <2>3. heap[comp[c].object] # Unset /\ heap[comp[c].object] # reads[Current]
            => heap[comp[c].object] # reads'[Current']
    BY <1>11, <2>1
  <2>4. comp[c].pc = "nothing" => heap[comp[c].object] = Unset \/ heap[comp[c].object] # reads'[Current']
    BY <2>1, <2>3 DEF Computed
  <2>5. comp[c].pc \in {"posts", "page", "count"} =>
            \/ comp[c].from = heap[comp[c].object]
            \/ comp[c].from = Unset /\ heap[comp[c].object] # reads'[Current']
    BY <2>1, <2>3 DEF Computed
  <2> QED BY <1>2, <1>7, <2>1, <2>4, <2>5 DEF Computed
<1>23. CounterIsRight'
  <2> SUFFICES ASSUME ~Awaiting, promise = 0
               PROVE  /\ heap[lastReads] = Unset => unread = 0
                      /\ heap[lastReads] # Unset /\ heap[lastReads] = reads'[Current'] /\ me.version >= Current' - 1
                            => unread = Cardinality(Above(Processed, heap[lastReads]))
    BY <1>2, <1>7 DEF CounterIsRight, Awaiting
  <2>1. heap[lastReads] # Unset /\ heap[lastReads] = reads'[Current'] => Current' = Current /\ heap[lastReads] = reads[Current]
    BY <1>3, <1>11
  <2> QED BY <1>1, <2>1 DEF Ledger, CounterIsRight
<1> QED BY <1>12, <1>13, <1>14, <1>15, <1>16, <1>17, <1>19, <1>20, <1>21, <1>22, <1>23 DEF Ledger

--------------------------------------------------------------------------------
(* A post is counted. *)

\* The posts above a mark can be counted.
LEMMA AboveIsFinite ==
    ASSUME Basics, NEW k
    PROVE  IsFiniteSet(Above(Processed, k))
<1>1. posted \in Int /\ 1 \in Int
  BY Values
<1>2. IsFiniteSet(1..posted)
  BY <1>1, FS_Interval
<1>3. Above(Processed, k) \subseteq 1..posted
  BY DEF Above, Processed
<1> QED BY <1>2, <1>3, FS_Subset

\* What a message that is processed at the end of an idle event loop tells.
LEMMA CountedPost ==
    ASSUME Steady, NEW m \in Arrived, Count(m)
    PROVE  /\ Idle /\ m.type = "post" /\ m = Post(m.n) /\ m.n \in 1..posted /\ m \in Published /\ m \in Messages
           /\ st[m].pc = "counting" /\ ~st[m].old /\ st'[m].pc = "done" /\ st'[m].shown \in {st[m].shown, Unset}
           /\ \A o \in Messages \ {m} : st'[o] = st[o]
           /\ promise = 0 /\ ~Awaiting /\ \A o \in Messages : st[o].pc # "waiting"
           /\ unread' = unread + 1
           /\ heap'[lastReads] = IF heap[lastReads] = Unset THEN m.n - 1 ELSE heap[lastReads]
           /\ \A o \in Objects \ {lastReads} : heap'[o] = heap[o]
           /\ UNCHANGED <<reads, posted, log, delivered, me, posts, init, comp, promise, lastReads>>
<1>1. Basics /\ Ordered /\ Ledger /\ OneAtATime /\ failures = 0 /\ NoneFailed /\ m \in Messages
  BY SteadyFacts, OfKind DEF Ledger, Steady, Foundations, Lossless
<1>2. Idle /\ st[m].pc = "counting" /\ m.type = "post"
  BY <1>1, OfKind DEF Count
<1>3. Target \in known
  BY <1>1, <1>2, CountedInKnown
<1>4. promise = 0 /\ ~st[m].old
  BY <1>1, <1>2 DEF OneAtATime
<1>5. /\ Move(m, "done") /\ unread' = unread + 1
      /\ heap' = [heap EXCEPT ![lastReads] = IF heap[lastReads] = Unset THEN m.n - 1 ELSE heap[lastReads]]
      /\ UNCHANGED <<reads, posted, log, delivered, me, posts, init, comp, promise, lastReads>>
  BY <1>3, <1>4 DEF Count, server, cached
<1>6. "done" \in Stages
  BY DEF Stages, Ended
<1>7. st'[m].shown \in {st[m].shown, Unset}
  BY <1>1, <1>5, <1>6, MoveShows
<1>8. st'[m].pc = "done" /\ \A o \in Messages \ {m} : st'[o] = st[o]
  BY <1>1, <1>3, CountBasics
<1>9. m.n \in 1..posted /\ m = Post(m.n) /\ m \in Published
  <2>1. PICK i \in 1..Len(log) : m = log[i]
    BY <1>1, Places DEF Basics
  <2>2. m \in Published /\ m.n \in 1..MaxPosts /\ m = Message(m.type, m.n)
    BY <1>1, <1>2, Places, Kinds DEF Basics
  <2>3. m.n <= posted
    BY <1>1, <1>2, <2>1 DEF Basics, Logged
  <2> QED BY <1>1, <1>2, <2>2, <2>3, Bounds, Values DEF Post
<1>10. heap \in [Objects -> Unset..MaxPosts] /\ lastReads \in Objects
  BY <1>1, Typed DEF Basics, Types, Others
<1>11. /\ heap'[lastReads] = IF heap[lastReads] = Unset THEN m.n - 1 ELSE heap[lastReads]
       /\ \A o \in Objects \ {lastReads} : heap'[o] = heap[o]
  BY <1>5, <1>10
<1>12. ~Awaiting /\ \A o \in Messages : st[o].pc # "waiting"
  BY <1>1, <1>2, <1>4, NothingWaits
<1> QED BY <1>1, <1>2, <1>4, <1>5, <1>7, <1>8, <1>9, <1>11, <1>12

\* A post that is counted.
LEMMA CountKeeps ==
    ASSUME Steady, NEW m \in Arrived, Count(m)
    PROVE  Ledger'
<1> DEFINE n == m.n
           h == heap[lastReads]
<1>1. /\ Basics /\ Ordered /\ ServerOrder /\ Ledger /\ MarksAreBehind
      /\ \A o \in Messages : st[o].pc # "dropped"
  BY SteadyFacts
<1>2. /\ Idle /\ m.type = "post" /\ m = Post(n) /\ n \in 1..posted /\ m \in Published /\ m \in Messages
      /\ st[m].pc = "counting" /\ ~st[m].old /\ st'[m].pc = "done" /\ st'[m].shown \in {st[m].shown, Unset}
      /\ \A o \in Messages \ {m} : st'[o] = st[o]
      /\ promise = 0 /\ ~Awaiting /\ \A o \in Messages : st[o].pc # "waiting"
      /\ unread' = unread + 1
      /\ heap'[lastReads] = IF h = Unset THEN n - 1 ELSE h
      /\ \A o \in Objects \ {lastReads} : heap'[o] = heap[o]
  BY CountedPost
<1>3. /\ UNCHANGED <<reads, posted, log, delivered, me, posts, init, comp, promise, lastReads>>
      /\ Current' = Current /\ Published' = Published /\ (Awaiting' <=> Awaiting)
  <2>1. UNCHANGED <<reads, posted, log, delivered, me, posts, init, comp, promise, lastReads>>
    BY CountedPost
  <2> QED BY <2>1 DEF Current, Published, Awaiting
<1>4. /\ posted \in Nat /\ n \in Int /\ 1 <= n /\ h \in Int /\ lastReads \in Objects /\ unread \in Nat
      /\ Current \in Nat /\ me.version \in 1..Current /\ (h # Unset => h + 1 \in 1..posted)
  <2>1. me.version <= Current
    BY SteadyFacts
  <2> QED BY <1>1, <1>2, <2>1, Values DEF MarksAreBehind, IsMark
<1>5. Through(reads, posted, me.version) \in 0..posted /\ n > Through(reads, posted, me.version)
  <2>1. Through(reads, posted, me.version) \in 0..posted
    BY <1>1, <1>4 DEF ServerOrder, ThroughGrows
  <2>2. ~(n <= Through(reads, posted, me.version))
    BY <1>1, <1>2 DEF Ledger, ReadAreDone
  <2> QED BY <1>4, <2>1, <2>2
<1> HIDE DEF n, h
<1>6. heap'[lastReads] # Unset
  BY <1>2, <1>4 DEF Unset
<1>7. \A o \in Messages : st'[o].pc = "done" <=> st[o].pc = "done" \/ o = m
  BY <1>2
<1>8. \A k \in 1..posted : Post(k) \in Messages /\ Post(k).n = k
  BY <1>1, PostsAreMessages
<1>9. Processed' = Processed \cup {n} /\ n \notin Processed
  <2>1. \A k \in 1..posted : Post(k) = m => k = n
    BY <1>8 DEF n
  <2> QED BY <1>2, <1>3, <1>7, <1>8, <2>1 DEF Processed
<1>10. Once'
  <2> SUFFICES ASSUME NEW c \in Computes, comp[c].pc # "none", c # 1 PROVE st'[Me(c)].pc = "done"
    BY <1>3 DEF Once
  <2>1. c \in 2..MaxMe
    BY Bounds DEF Computes
  <2> QED BY <1>1, <1>7, <2>1, Kinds DEF Ledger, Once, Me
<1>11. ShownAreMarks'
  BY <1>1, <1>2, <1>3 DEF Ledger, ShownAreMarks, IsMark
<1>12. OneAtATime'
  <2>1. \A c \in Computes : comp[c].pc # "waiting"
    BY <1>2 DEF Awaiting
  <2>2. \A o \in Messages : st'[o].pc # "waiting" /\ (st'[o].pc = "counting" => ~st'[o].old)
    BY <1>1, <1>2 DEF Ledger, OneAtATime
  <2> QED BY <1>1, <1>2, <1>3, <2>1, <2>2 DEF Ledger, OneAtATime
<1>13. NoneSeenBefore'
  <2> SUFFICES ASSUME NEW k \in posts, Post(k) \in Published PROVE st'[Post(k)].pc \notin EarlyStages
    BY <1>1, <1>3 DEF Ledger, NoneSeenBefore
  <2>1. k \in 1..posted /\ st[Post(k)].pc \notin EarlyStages
    BY <1>1 DEF Ledger, NoneSeenBefore
  <2> QED BY <1>2, <1>8, <2>1 DEF EarlyStages
<1>14. ReadAreDone'
  BY <1>1, <1>3, <1>7, <1>8 DEF Ledger, ReadAreDone
<1>15. \/ h = reads[me.version]
       \/ /\ reads[me.version] = Unset /\ h # Unset
          /\ st[Post(h + 1)].pc = "done" /\ h + 1 > Through(reads, posted, me.version)
  <2>1. IsLast(lastReads)
    BY <1>2 DEF IsLast
  <2> QED BY <1>1, <1>4, <2>1 DEF Ledger, MarkIsTheUsers, h
<1>16. MarkIsTheUsers'
  <2>1. \A o : IsLast(o)' => o = lastReads
    <3>1. 0 \notin Computes
      BY Bounds DEF Computes
    <3> QED BY <1>2, <1>3, <3>1 DEF IsLast, Awaiting
  <2>2. CASE h # Unset
    <3>1. st[Post(h + 1)].pc = "done" => st'[Post(h + 1)].pc = "done"
      BY <1>4, <1>7, <1>8, <2>2
    <3>2. heap'[lastReads] = h
      BY <1>2, <2>2
    <3> QED BY <1>3, <1>15, <2>1, <3>1, <3>2 DEF MarkIsTheUsers
  <2>3. CASE h = Unset
    <3>1. heap'[lastReads] = n - 1 /\ n - 1 + 1 = n
      BY <1>2, <1>4, <2>3
    <3>2. st'[Post(n)].pc = "done"
      BY <1>2
    <3>3. reads[me.version] = Unset
      BY <1>15, <2>3
    <3> QED BY <1>3, <1>5, <1>6, <2>1, <3>1, <3>2, <3>3 DEF MarkIsTheUsers
  <2> QED BY <2>2, <2>3
<1>17. ShownAreOld'
  <2> SUFFICES ASSUME NEW v \in 1..Current, reads[v] # Unset, v > me.version, st'[Post(reads[v] + 1)].pc # "done"
               PROVE  /\ \A o \in Objects : heap'[o] # reads[v]
                      /\ \A o \in Messages : st'[o].shown # reads[v]
    BY <1>3 DEF ShownAreOld
  <2>1. reads[v] + 1 \in 1..posted /\ reads[v] \in Int
    BY <1>1, Values DEF MarksAreBehind, IsMark
  <2>2. st[Post(reads[v] + 1)].pc # "done" /\ Post(reads[v] + 1) # m
    BY <1>7, <1>8, <2>1
  <2>3. /\ \A o \in Objects : heap[o] # reads[v]
        /\ \A o \in Messages : st[o].shown # reads[v]
    BY <1>1, <2>2 DEF Ledger, ShownAreOld
  <2>4. n - 1 # reads[v]
    <3>1. n # reads[v] + 1
      BY <1>2, <2>2
    <3> QED BY <1>4, <2>1, <3>1
  <2>5. heap'[lastReads] # reads[v]
    BY <1>2, <1>4, <2>3, <2>4 DEF h
  <2> QED BY <1>2, <2>3, <2>5
<1>18. NotOvertaken'
  <2> SUFFICES ASSUME NEW i \in 1..Len(log), NEW j \in 1..Len(log), i < j, log[i].type = "me",
                      log[j].type = "post", st'[log[j]].pc = "done"
               PROVE  st'[log[i]].pc \in PassedStages
    BY <1>3 DEF NotOvertaken
  <2>1. log[i] \in Messages /\ log[j] \in Messages /\ log[i] # m
    BY <1>1, <1>2, Places DEF Basics
  <2>2. CASE log[j] # m
    BY <1>1, <1>2, <2>1, <2>2 DEF Ledger, NotOvertaken
  <2>3. CASE log[j] = m
    <3>1. PICK k \in 1..delivered : log[k] = m
      BY <1>1, Places DEF Basics
    <3>2. k = j
      BY <1>1, <2>3, <3>1, Places DEF Basics, Logged
    <3>3. j \in 1..delivered /\ i \in 1..delivered
      BY <1>1, <3>1, <3>2, Values
    <3>4. st[log[i]].pc \notin EarlyStages \cup {"items", "read", "resolving"}
      BY <1>1, <1>2, <2>3, <3>3, NoneBehind
    <3>5. st[log[i]].pc \in MeStages \ {"waiting"}
      BY <1>1, <1>2, <2>1 DEF Basics, Staged, StagedMessage, Fits
    <3>6. st[log[i]].pc \in PassedStages
      BY <3>4, <3>5 DEF MeStages, EarlyStages, PassedStages
    <3> QED BY <1>2, <2>1, <3>6
  <2> QED BY <2>2, <2>3
<1>19. WaitsBehind'
  BY <1>2, <1>3 DEF WaitsBehind
<1>20. InTurn'
  BY <1>2, <1>3, <1>6 DEF InTurn
<1>21. CoreIsRight'
  <2>1. \A c \in Computes : comp[c].pc \notin InCore
    BY <1>1, <1>2, NothingComputes DEF Ledger
  <2> QED BY <1>3, <2>1 DEF CoreIsRight
<1>22. CounterIsRight'
  <2> SUFFICES ASSUME heap'[lastReads] = reads[Current], me.version >= Current - 1
               PROVE  unread' = Cardinality(Above(Processed', heap'[lastReads]))
    BY <1>3, <1>6 DEF CounterIsRight
  <2>1. CASE h # Unset
    <3>1. heap'[lastReads] = h /\ h = reads[Current]
      BY <1>2, <2>1
    <3>2. unread = Cardinality(Above(Processed, h))
      BY <1>1, <1>2, <2>1, <3>1 DEF Ledger, CounterIsRight, h
    <3>3. n > h
      <4>1. CASE reads[me.version] # Unset
        <5>1. Through(reads, posted, me.version) = h + 1
          BY <1>15, <4>1 DEF Through
        <5> QED BY <1>4, <1>5, <5>1
      <4>2. CASE reads[me.version] = Unset
        <5>1. me.version # Current
          BY <2>1, <3>1, <4>2
        <5>2. me.version + 1 = Current /\ me.version < Len(reads)
          BY <1>4, <5>1 DEF Current
        <5>3. Through(reads, posted, me.version) = h
          BY <3>1, <4>2, <5>2 DEF Through
        <5> QED BY <1>5, <5>3
      <4> QED BY <4>1, <4>2
    <3> DEFINE S == Above(Processed, h)
    <3>4. Above(Processed', h) = S \cup {n} /\ n \notin S
      BY <1>9, <3>3 DEF Above
    <3>5. IsFiniteSet(S)
      BY <1>1, AboveIsFinite
    <3> HIDE DEF S
    <3>6. Cardinality(S \cup {n}) = Cardinality(S) + 1
      BY <3>4, <3>5, FS_AddElement
    <3>7. unread = Cardinality(S)
      BY <3>2 DEF S
    <3> QED BY <1>2, <3>1, <3>4, <3>6, <3>7
  <2>2. CASE h = Unset
    <3>1. heap'[lastReads] = n - 1
      BY <1>2, <2>2
    <3>2. unread = 0
      BY <1>1, <1>2, <2>2 DEF Ledger, CounterIsRight, h
    <3>3. ASSUME NEW k \in Processed, k > n PROVE FALSE
      <4>1. k \in 1..posted /\ n \in 1..posted /\ n < k
        BY <1>2, <1>4, <3>3 DEF Processed
      <4>2. Post(k) \in Published
        BY <1>1, <1>2, <4>1, LaterAreMessages
      <4>3. st[Post(k)].pc = "done"
        BY <4>2, <3>3 DEF Processed
      <4>4. Post(n) \in Published /\ st[Post(n)].pc # "done"
        BY <1>2
      <4>5. heap[lastReads] # Unset
        BY <1>1, <4>1, <4>2, <4>3, <4>4 DEF Ledger, InTurn
      <4> QED BY <2>2, <4>5 DEF h
    <3>4. Above(Processed', n - 1) = {n}
      <4>1. \A k \in Processed : k \in Int
        BY <1>4 DEF Processed
      <4>2. \A k \in Processed' : k > n - 1 <=> k = n
        BY <1>4, <1>9, <3>3, <4>1
      <4>3. n \in Processed'
        BY <1>9
      <4> QED BY <4>2, <4>3 DEF Above
    <3>5. Cardinality({n}) = 1
      BY FS_Singleton
    <3>6. unread' = 1
      BY <1>2, <3>2
    <3>7. Above(Processed', heap'[lastReads]) = {n}
      BY <3>1, <3>4
    <3> QED BY <3>5, <3>6, <3>7
  <2> QED BY <2>1, <2>2
<1> QED BY <1>10, <1>11, <1>12, <1>13, <1>14, <1>16, <1>17, <1>18, <1>19, <1>20, <1>21, <1>22 DEF Ledger

--------------------------------------------------------------------------------
(* The user changes. *)

\* What a directive that is applied and an answer that is not late have in common.
UserMoves(m) ==
    /\ m.type = "me" /\ m \in Messages /\ m = Me(m.n) /\ m.n \in 2..Current /\ m.n \in Computes /\ me.version <= m.n
    /\ st[m].pc \in {"resolving", "answered"} /\ (me.version = m.n - 1 \/ Idle)
    /\ st'[m].pc = "done" /\ st'[m].shown \in {st[m].shown, Unset} /\ \A o \in Messages \ {m} : st'[o] = st[o]
    /\ me'.version = m.n /\ me'.object \in Objects
    /\ heap'[me'.object] = reads[m.n] /\ \A o \in Objects \ {me'.object} : heap'[o] = heap[o]
    /\ UNCHANGED <<reads, posted, log, delivered, posts, init, lastReads>>
    /\ comp[m.n].pc = "none"
    /\ \A o \in Messages : o.type = "me" /\ o.n < m.n => st[o].pc \notin {"fetching", "answered"}

\* The mark has not moved, and what it was compared with is what the counters are for.
MarkHolds(m) ==
    UNCHANGED <<comp, promise, unread, overlap>> /\ \A o \in CountedFrom : heap[o] = reads[m.n]

\* The user that is cached moves on, and the mark is compared with the one it had.
LEMMA UserGives ==
    ASSUME Steady, Smooth', ~Late', NEW m \in Arrived,
           (ApplyMe(m) /\ CacheUpdateAction(st[m].seen, m.n) = "update") \/ MeAnswer(m)
    PROVE  UserMoves(m) /\ (Compute(m.n, me'.object) \/ MarkHolds(m))
<1>1. /\ Basics /\ Applicable /\ Ledger /\ m \in Messages /\ ~overtaken /\ ~leapt /\ ~unnoticed
      /\ ~overtaken' /\ ~leapt' /\ ~unnoticed'
  BY SteadyFacts, OfKind DEF Smooth
<1>2. /\ m.type = "me" /\ m.n \in Nat /\ 2 <= m.n /\ m.n \in 2..MaxMe /\ m = Me(m.n)
      /\ st'[m].pc = "done" /\ \A o \in Messages \ {m} : st'[o] = st[o]
  <2>1. m.type = "me" /\ st'[m].pc = "done" /\ \A o \in Messages \ {m} : st'[o] = st[o]
    BY <1>1, ApplyMeBasics, MeAnswerBasics
  <2> QED BY <1>1, <2>1, Kinds, Bounds DEF Me
<1>3. m.n \in Computes /\ m.n \in Objects /\ m.n # 1
  BY <1>2, Bounds DEF Computes, Objects
<1>4. /\ heap \in [Objects -> Unset..MaxPosts] /\ me \in [version : 1..MaxMe, object : Objects \ {0}]
      /\ me.version \in Nat
  BY <1>1, Typed, Values DEF Basics, Types, Others
<1>5. Move(m, "done") /\ ComputeIfMoved(m) /\ UNCHANGED <<reads, posted, log, delivered, posts, init, lastReads>>
  BY DEF ApplyMe, MeAnswer, server
<1>6. st'[m].shown \in {st[m].shown, Unset}
  <2>1. "done" \in Stages
    BY DEF Stages, Ended
  <2> QED BY <1>1, <1>5, <2>1, MoveShows
<1>7. /\ st[m].pc \in {"resolving", "answered"} /\ (me.version = m.n - 1 \/ Idle)
      /\ me.version <= m.n /\ m.n <= Current
      /\ me'.version = m.n /\ me'.object \in Objects
      /\ heap' = [heap EXCEPT ![me'.object] = reads[m.n]]
  <2>1. CASE ApplyMe(m) /\ CacheUpdateAction(st[m].seen, m.n) = "update"
    <3>1. st[m].pc = "resolving" /\ m.n \in 2..Current
      BY <2>1, <1>1, ApplyMeBasics DEF ApplyMe
    <3>2. st[m].seen = m.n - 1
      BY <2>1 DEF CacheUpdateAction
    <3>3. me.version = m.n - 1
      BY <1>1, <1>2, <3>1, <3>2 DEF Applicable
    <3>4. me' = [me EXCEPT !.version = m.n] /\ heap' = [heap EXCEPT ![me.object] = reads[m.n]]
      BY <2>1 DEF ApplyMe
    <3>5. me'.version = m.n /\ me'.object = me.object /\ me.object \in Objects
      BY <1>4, <3>4
    <3>6. m.n <= Current
      BY <1>1, <3>1, Values
    <3> QED BY <1>2, <3>1, <3>3, <3>4, <3>5, <3>6
  <2>2. CASE MeAnswer(m)
    <3>1. /\ st[m].pc = "answered" /\ Idle /\ me' = [version |-> st[m].seen, object |-> m.n]
          /\ heap' = [heap EXCEPT ![m.n] = reads[st[m].seen]]
          /\ overtaken' = (overtaken \/ st[m].seen < me.version)
          /\ leapt' = (leapt \/ st[m].seen > m.n)
      BY <2>2 DEF MeAnswer
    <3>2. st[m].seen \in m.n..Current
      BY <1>1, <2>2, MeAnswerBasics
    <3>3. ~(st[m].seen < me.version) /\ ~(st[m].seen > m.n)
      BY <1>1, <3>1
    <3>4. st[m].seen = m.n /\ me.version <= m.n /\ m.n <= Current
      BY <1>1, <1>2, <1>4, <3>2, <3>3, Values
    <3> QED BY <1>3, <3>1, <3>4
  <2> QED BY <2>1, <2>2
<1>8. m.n \in 2..Current
  BY <1>1, <1>2, <1>7, Values
<1>9. heap'[me'.object] = reads[m.n] /\ \A o \in Objects \ {me'.object} : heap'[o] = heap[o]
  BY <1>4, <1>7
<1>10. comp[m.n].pc = "none"
  <2>1. st[m].pc # "done"
    BY <1>7
  <2> QED BY <1>1, <1>2, <1>3, <2>1 DEF Ledger, Once
<1>11. ASSUME NEW o \in Messages, o.type = "me", o.n < m.n PROVE st[o].pc \notin {"fetching", "answered"}
  <2>1. o # m /\ st'[o] = st[o]
    BY <1>2, <1>11
  <2> QED BY <1>7, <1>11, <2>1 DEF Late
<1>12. UserMoves(m)
  BY <1>1, <1>2, <1>3, <1>5, <1>6, <1>7, <1>8, <1>9, <1>10, <1>11 DEF UserMoves
<1>13. Compute(m.n, me'.object) \/ MarkHolds(m)
  <2> DEFINE moved == heap'[me'.object] # st[m].shown
             u == ~moved /\ \E o \in CountedFrom : heap[o] # st[m].shown
  <2>1. /\ IF moved THEN Compute(m.n, me'.object) ELSE UNCHANGED <<comp, promise, unread, overlap>>
        /\ unnoticed' = (unnoticed \/ u)
    BY <1>5 DEF ComputeIfMoved
  <2>2. ~u
    <3> HIDE DEF u
    <3> QED BY <1>1, <2>1
  <2>3. CASE moved
    <3> HIDE DEF u
    <3> QED BY <2>1, <2>3
  <2>4. CASE ~moved
    <3>1. st[m].shown = reads[m.n] /\ \A o \in CountedFrom : heap[o] = st[m].shown
      BY <1>9, <2>2, <2>4
    <3>2. UNCHANGED <<comp, promise, unread, overlap>>
      <4> HIDE DEF u
      <4> QED BY <2>1, <2>4
    <3> QED BY <3>1, <3>2 DEF MarkHolds
  <2> QED BY <2>3, <2>4
<1> QED BY <1>12, <1>13

\* What a change of the user keeps, whether it starts a computation or not.
LEMMA UserMovesKeeps ==
    ASSUME Steady, NEW m \in Arrived, UserMoves(m)
    PROVE  /\ ShownAreMarks' /\ ShownAreOld' /\ NotOvertaken'
           /\ Published' = Published /\ Processed' = Processed /\ Current' = Current
           /\ \A o \in Messages : o.type = "post" => st'[o] = st[o]
           /\ \A o \in Messages : st'[o].pc \in {"counting", "waiting"} => st'[o] = st[o]
           /\ posts' \subseteq 1..posted' /\ \A k \in posts' : Post(k) \in Published' => st'[Post(k)].pc \notin EarlyStages
           /\ \A o \in Messages : st[o].pc = "done" => st'[o].pc = "done"
<1>1. Basics /\ ServerOrder /\ Ledger /\ MarksAreBehind
  BY SteadyFacts
<1>2. UNCHANGED <<reads, posted, log, delivered, posts, init, lastReads>> /\ Current' = Current /\ Published' = Published
  BY DEF UserMoves, Current, Published
<1>3. /\ m.type = "me" /\ st'[m].pc = "done" /\ st'[m].shown \in {st[m].shown, Unset}
      /\ \A o \in Messages \ {m} : st'[o] = st[o]
  BY DEF UserMoves
<1>4. \A o \in Messages : o.type = "post" => st'[o] = st[o]
  BY <1>3
<1>5. \A k \in 1..posted : st'[Post(k)] = st[Post(k)]
  BY <1>1, <1>4, PostsAreMessages
<1>6. Processed' = Processed
  BY <1>1, <1>2, <1>5, ProcessedStays
<1>7. \A o \in Messages : st'[o].pc \in {"counting", "waiting"} => st'[o] = st[o]
  BY <1>3
<1>8. ShownAreMarks'
  BY <1>1, <1>2, <1>3 DEF Ledger, ShownAreMarks, IsMark
<1>9. NotOvertaken'
  <2>1. \A i \in 1..Len(log) : log[i] \in Messages
    BY <1>1, Places DEF Basics
  <2> QED BY <1>1, <1>2, <1>3, <2>1 DEF Ledger, NotOvertaken, PassedStages
<1>10. ShownAreOld'
  <2> SUFFICES ASSUME NEW v \in 1..Current, reads[v] # Unset, v > me'.version, st'[Post(reads[v] + 1)].pc # "done"
               PROVE  /\ \A o \in Objects : heap'[o] # reads[v]
                      /\ \A o \in Messages : st'[o].shown # reads[v]
    BY <1>2 DEF ShownAreOld
  <2>1. m.n \in 1..Current /\ m.n < v /\ v > me.version
    <3>1. me'.version = m.n /\ m.n \in 2..Current /\ me.version <= m.n
      BY DEF UserMoves
    <3> QED BY <1>1, <3>1, Values
  <2>2. reads[v] + 1 \in 1..posted
    BY <1>1 DEF MarksAreBehind, IsMark
  <2>3. /\ \A o \in Objects : heap[o] # reads[v]
        /\ \A o \in Messages : st[o].shown # reads[v]
    BY <1>1, <1>5, <2>1, <2>2 DEF Ledger, ShownAreOld
  <2>4. reads[m.n] # reads[v]
    BY <1>1, <2>1, MarksGrow, Values
  <2>5. \A o \in Objects : heap'[o] = reads[m.n] \/ heap'[o] = heap[o]
    BY DEF UserMoves
  <2> QED BY <1>3, <2>3, <2>4, <2>5
<1>11. posts' \subseteq 1..posted' /\ \A k \in posts' : Post(k) \in Published' => st'[Post(k)].pc \notin EarlyStages
  BY <1>1, <1>2, <1>5 DEF Ledger, NoneSeenBefore
<1> QED BY <1>2, <1>3, <1>4, <1>6, <1>7, <1>8, <1>9, <1>10, <1>11

\* A change of the user that starts a computation: nothing overlaps it.
LEMMA UserStartsKeeps ==
    ASSUME Steady, Smooth', NEW m \in Arrived, UserMoves(m), StartCore(m.n, me'.object)
    PROVE  Ledger'
<1> DEFINE c == m.n
           object == me'.object
<1>1. /\ Basics /\ ServerOrder /\ Ledger /\ OneAtATime
  BY SteadyFacts DEF Ledger
<1>2. /\ m.type = "me" /\ m \in Messages /\ m = Me(c) /\ c \in 2..Current /\ c \in Computes /\ object \in Objects
      /\ me'.version = c /\ heap'[object] = reads[c] /\ comp[c].pc = "none" /\ st'[m].pc = "done"
      /\ UNCHANGED <<reads, posted, log, delivered, posts, init, lastReads>>
  BY DEF UserMoves
<1>3. c # 0 /\ c \in Nat
  BY <1>1, <1>2, Values
<1>4. /\ ShownAreMarks' /\ ShownAreOld' /\ NotOvertaken'
      /\ Published' = Published /\ Processed' = Processed /\ Current' = Current
      /\ \A o \in Messages : o.type = "post" => st'[o] = st[o]
      /\ \A o \in Messages : st'[o].pc \in {"counting", "waiting"} => st'[o] = st[o]
      /\ posts' \subseteq 1..posted' /\ \A k \in posts' : Post(k) \in Published' => st'[Post(k)].pc \notin EarlyStages
      /\ \A o \in Messages : st[o].pc = "done" => st'[o].pc = "done"
  BY UserMovesKeeps
<1>5. StartCore(c, object)
  OBVIOUS
<1> HIDE DEF c, object
<1>6. /\ comp'[c].pc = "unread" /\ comp'[c].object = object /\ comp'[c].read = {}
      /\ \A d \in Computes \ {c} : comp'[d] = comp[d] /\ comp[d].pc \notin InCore \cup {"waiting"}
      /\ promise = 0 /\ promise' = c /\ unread' = 0
      /\ \A o \in Arrived : o.type = "post" => st[o].pc = "done"
  BY <1>2, <1>5, StartsAlone DEF InCore
<1>7. /\ \A i \in 1..delivered : log[i].type = "post" => st[log[i]].pc = "done"
      /\ \A k, n \in 1..posted :
                ~(k < n /\ Post(k) \in Published /\ st[Post(k)].pc # "done"
                        /\ Post(n) \in Published /\ st[Post(n)].pc = "done")
  BY <1>1, <1>6, AllCounted
<1>8. ~Awaiting'
  BY <1>6 DEF Awaiting
<1>9. \A k \in 1..posted : st'[Post(k)] = st[Post(k)]
  BY <1>1, <1>4, PostsAreMessages
<1>10. Once'
  <2> SUFFICES ASSUME NEW d \in Computes, comp'[d].pc # "none", d # 1 PROVE st'[Me(d)].pc = "done"
    BY DEF Once
  <2>1. CASE d = c
    BY <1>2, <2>1
  <2>2. CASE d # c
    <3>1. d \in 2..MaxMe
      BY Bounds DEF Computes
    <3> QED BY <1>1, <1>4, <1>6, <2>2, <3>1, Kinds DEF Ledger, Once, Me
  <2> QED BY <2>1, <2>2
<1>11. OneAtATime'
  <2>1. ASSUME NEW o \in Messages, st'[o].pc = "waiting"
        PROVE  o.type = "me" /\ comp'[st'[o].on].pc \in InCore \cup {"done"}
    <3>1. st'[o] = st[o]
      BY <1>4, <2>1
    <3>2. st[o].on \in Computes /\ comp[st[o].on].pc \in InCore \cup {"done"} /\ o.type = "me"
      BY <1>1, <2>1, <3>1 DEF Basics, Staged, StagedMessage, Fits, OneAtATime
    <3>3. st[o].on # c
      BY <1>2, <3>2 DEF InCore
    <3> QED BY <1>6, <3>1, <3>2, <3>3
  <2>2. ASSUME NEW o \in Messages PROVE st'[o].pc # "counting"
    <3>1. ASSUME st'[o].pc = "counting" PROVE FALSE
      <4>1. st[o].pc = "counting"
        BY <1>4, <3>1
      <4>2. o \in Arrived /\ o.type = "post"
        BY <1>1, <4>1, OfKind DEF Basics, Staged, StagedMessage
      <4> QED BY <1>6, <4>1, <4>2
    <3> QED BY <3>1
  <2>3. comp'[promise'].pc \in InCore /\ unread' = 0
    BY <1>6 DEF InCore
  <2>4. \A d \in Computes : comp'[d].pc \in InCore => promise' = d
    BY <1>6
  <2>5. \A d \in Computes : comp'[d].pc # "waiting"
    BY <1>6
  <2> QED BY <2>1, <2>2, <2>3, <2>4, <2>5 DEF OneAtATime
<1>12. NoneSeenBefore'
  <2>1. \A d \in Computes : comp'[d].read \subseteq 1..posted
    BY <1>1, <1>6 DEF Ledger, NoneSeenBefore
  <2> QED BY <1>2, <1>4, <2>1 DEF NoneSeenBefore
<1>13. ReadAreDone'
  <2> SUFFICES ASSUME NEW n \in 1..posted, n <= Through(reads, posted, c), Post(n) \in Published
               PROVE  st[Post(n)].pc = "done"
    BY <1>2, <1>4, <1>9 DEF ReadAreDone
  <2>1. PICK j \in 1..delivered : log[j] = m
    BY <1>1, Places DEF Basics
  <2>2. log[j].type = "me" /\ log[j].n = c
    BY <1>2, <2>1 DEF c
  <2>3. PICK i \in 1..delivered : log[i] = Post(n)
    BY <1>1, <2>2, PostsComeFirst
  <2> QED BY <1>1, <1>7, <2>3, PostsAreMessages
<1>14. MarkIsTheUsers'
  <2>1. ASSUME NEW o, IsLast(o)' PROVE o = object
    BY <1>3, <1>6, <1>8, <2>1 DEF IsLast
  <2> QED BY <1>2, <2>1 DEF MarkIsTheUsers
<1>15. WaitsBehind'
  <2>1. \A i \in 1..delivered : log[i].type = "post" => st'[log[i]].pc = "done"
    BY <1>1, <1>4, <1>7, Places DEF Basics
  <2> QED BY <1>2, <2>1 DEF WaitsBehind
<1>16. InTurn'
  BY <1>2, <1>4, <1>7, <1>9 DEF InTurn
<1>17. CoreIsRight'
  <2>1. \A d \in Computes : comp'[d].pc \in InCore => d = c
    BY <1>6
  <2>2. Computed(c)'
    BY <1>6 DEF Computed
  <2> QED BY <2>1, <2>2 DEF CoreIsRight
<1>18. CounterIsRight'
  BY <1>3, <1>6 DEF CounterIsRight
<1> QED BY <1>4, <1>10, <1>11, <1>12, <1>13, <1>14, <1>15, <1>16, <1>17, <1>18 DEF Ledger

\* While a computation is under way, nothing precedes a user that changes but what is done.
LEMMA DoneBefore ==
    ASSUME Steady, NEW m \in Arrived, UserMoves(m), promise # 0
    PROVE  /\ \A i, j \in 1..delivered : i < j /\ log[i].type = "post" /\ log[j] = m => st[log[i]].pc = "done"
           /\ \A n \in 1..posted :
                n <= Through(reads, posted, m.n) /\ Post(n) \in Published => st[Post(n)].pc = "done"
<1>1. Basics /\ ServerOrder /\ WaitsBehind
  BY SteadyFacts DEF Ledger
<1>2. m.type = "me" /\ st[m].pc \in {"resolving", "answered"}
  BY DEF UserMoves
<1>3. ASSUME NEW i \in 1..delivered, NEW j \in 1..delivered, i < j, log[i].type = "post", log[j] = m
      PROVE  st[log[i]].pc = "done"
  BY <1>1, <1>2, <1>3 DEF WaitsBehind, EarlyStages
<1>4. ASSUME NEW n \in 1..posted, n <= Through(reads, posted, m.n), Post(n) \in Published
      PROVE  st[Post(n)].pc = "done"
  <2>1. PICK j \in 1..delivered : log[j] = m
    BY <1>1, Places DEF Basics
  <2>2. PICK i \in 1..delivered : i < j /\ log[i] = Post(n)
    BY <1>1, <1>2, <1>4, <2>1, PostsComeFirst
  <2>3. log[i].type = "post"
    BY <1>1, <2>2, PostsAreMessages
  <2> QED BY <1>3, <2>1, <2>2, <2>3
<1> QED BY <1>3, <1>4

\* A change of the user during a computation: the next one waits for it.
LEMMA UserQueuesKeeps ==
    ASSUME Steady, Smooth', NEW m \in Arrived, UserMoves(m), Compute(m.n, me'.object), promise # 0
    PROVE  Ledger'
<1> DEFINE c == m.n
           object == me'.object
<1>1. /\ Basics /\ ServerOrder /\ Ledger /\ OneAtATime /\ \A d \in Computes : comp[d].pc # "failed"
  BY SteadyFacts DEF Ledger
<1>2. /\ m.type = "me" /\ m \in Messages /\ m = Me(c) /\ c \in 2..Current /\ c \in Computes /\ object \in Objects
      /\ me'.version = c /\ heap'[object] = reads[c] /\ comp[c].pc = "none" /\ st'[m].pc = "done"
      /\ st[m].pc \in {"resolving", "answered"} /\ \A o \in Messages \ {m} : st'[o] = st[o]
      /\ UNCHANGED <<reads, posted, log, delivered, posts, init, lastReads>>
  BY DEF UserMoves
<1>3. promise \in Computes /\ comp[promise].pc \in InCore /\ unread = 0 /\ comp[promise].pc # "failed"
  BY <1>1, Values DEF OneAtATime
<1>4. /\ ShownAreMarks' /\ ShownAreOld' /\ NotOvertaken'
      /\ Published' = Published /\ Processed' = Processed /\ Current' = Current
      /\ \A o \in Messages : o.type = "post" => st'[o] = st[o]
      /\ \A o \in Messages : st'[o].pc \in {"counting", "waiting"} => st'[o] = st[o]
      /\ posts' \subseteq 1..posted' /\ \A k \in posts' : Post(k) \in Published' => st'[Post(k)].pc \notin EarlyStages
      /\ \A o \in Messages : st[o].pc = "done" => st'[o].pc = "done"
  BY UserMovesKeeps
<1>5. /\ \A i, j \in 1..delivered : i < j /\ log[i].type = "post" /\ log[j] = m => st[log[i]].pc = "done"
      /\ \A n \in 1..posted :
                n <= Through(reads, posted, c) /\ Post(n) \in Published => st[Post(n)].pc = "done"
  BY DoneBefore
<1>6. Compute(c, object)
  OBVIOUS
<1> HIDE DEF c, object
<1>7. /\ comp' = [comp EXCEPT ![c] = [[[comp[c] EXCEPT !.pc = "waiting"] EXCEPT !.on = promise] EXCEPT !.object = object]]
      /\ promise' = promise /\ unread' = unread
      /\ overlap' = overlap \cup When(Awaiting, "computation")
  <2>1. /\ comp' = [comp EXCEPT ![c].pc = IF comp[promise].pc = "failed" THEN "dropped" ELSE "waiting",
                               ![c].on = promise, ![c].object = object]
        /\ overlap' = overlap \cup When(Awaiting, "computation") /\ UNCHANGED <<promise, unread>>
    BY <1>6 DEF Compute, Awaiting
  <2>2. (IF comp[promise].pc = "failed" THEN "dropped" ELSE "waiting") = "waiting"
    BY <1>3
  <2> QED BY <2>1, <2>2
<1>8. ~Awaiting
  BY <1>7 DEF Smooth, When
<1>9. /\ comp'[c] = [[[comp[c] EXCEPT !.pc = "waiting"] EXCEPT !.on = promise] EXCEPT !.object = object]
      /\ \A d \in Computes \ {c} : comp'[d] = comp[d]
  <2>1. comp \in [Computes -> Computing]
    BY <1>1, Typed DEF Basics, Types, Others
  <2> QED BY <1>2, <1>7, <2>1
<1>10. comp'[c].pc = "waiting" /\ comp'[c].on = promise /\ comp'[c].object = object /\ comp'[c].read = comp[c].read
  <2> DEFINE x == [comp[c] EXCEPT !.pc = "waiting"]
             y == [x EXCEPT !.on = promise]
  <2>1. comp[c] \in Computing /\ promise \in 0..MaxMe
    BY <1>1, <1>2, Typed DEF Basics, Types, Others
  <2>2. x \in Computing /\ x.pc = "waiting" /\ x.read = comp[c].read
    BY <2>1 DEF Computing
  <2>3. comp'[c] = [y EXCEPT !.object = object]
    BY <1>9
  <2> HIDE DEF x
  <2>4. y \in Computing /\ y.pc = "waiting" /\ y.on = promise /\ y.read = comp[c].read
    BY <2>1, <2>2 DEF Computing
  <2> HIDE DEF y
  <2> QED BY <2>3, <2>4 DEF Computing
<1>11. Awaiting' /\ \A d \in Computes : comp'[d].pc = "waiting" => d = c
  <2>1. \A d \in Computes \ {c} : comp'[d] = comp[d]
    BY <1>9
  <2>2. \A d \in Computes : comp[d].pc # "waiting"
    BY <1>8 DEF Awaiting
  <2>3. comp'[c].pc = "waiting" /\ c \in Computes
    BY <1>2, <1>10
  <2> QED BY <2>1, <2>2, <2>3 DEF Awaiting
<1>12. \A k \in 1..posted : st'[Post(k)] = st[Post(k)]
  BY <1>1, <1>4, PostsAreMessages
<1>13. \A d \in Computes : comp[d].pc \in InCore \cup {"done"} => comp'[d] = comp[d]
  BY <1>2, <1>9 DEF InCore
<1>14. Once'
  <2> SUFFICES ASSUME NEW d \in Computes, comp'[d].pc # "none", d # 1 PROVE st'[Me(d)].pc = "done"
    BY DEF Once
  <2>1. CASE d = c
    BY <1>2, <2>1
  <2>2. CASE d # c
    <3>1. d \in 2..MaxMe
      BY Bounds DEF Computes
    <3> QED BY <1>1, <1>4, <1>9, <2>2, <3>1, Kinds DEF Ledger, Once, Me
  <2> QED BY <2>1, <2>2
<1>15. OneAtATime'
  <2>1. ASSUME NEW o \in Messages, st'[o].pc = "waiting"
        PROVE  o.type = "me" /\ comp'[st'[o].on].pc \in InCore \cup {"done"}
    <3>1. st'[o] = st[o]
      BY <1>4, <2>1
    <3>2. st[o].on \in Computes /\ comp[st[o].on].pc \in InCore \cup {"done"} /\ o.type = "me"
      BY <1>1, <2>1, <3>1 DEF Basics, Staged, StagedMessage, Fits, OneAtATime
    <3> QED BY <1>13, <3>1, <3>2
  <2>2. \A o \in Messages : st'[o].pc = "counting" => promise' = 0 /\ ~st'[o].old
    BY <1>1, <1>4, <1>7 DEF OneAtATime
  <2>3. comp'[promise'].pc \in InCore /\ unread' = 0
    BY <1>3, <1>7, <1>13
  <2>4. \A d \in Computes : comp'[d].pc \in InCore => promise' = d
    BY <1>1, <1>7, <1>9, <1>10 DEF OneAtATime, InCore
  <2>5. \A d \in Computes : comp'[d].pc = "waiting" => comp'[comp'[d].on].pc \in InCore \cup {"done"}
    BY <1>3, <1>10, <1>11, <1>13
  <2> QED BY <1>11, <2>1, <2>2, <2>3, <2>4, <2>5 DEF OneAtATime
<1>16. NoneSeenBefore'
  <2>1. \A d \in Computes : comp'[d].read \subseteq 1..posted
    BY <1>1, <1>9, <1>10 DEF Ledger, NoneSeenBefore
  <2> QED BY <1>2, <1>4, <2>1 DEF NoneSeenBefore
<1>17. ReadAreDone'
  BY <1>2, <1>4, <1>5, <1>12 DEF ReadAreDone
<1>18. MarkIsTheUsers'
  <2>1. ASSUME NEW o, IsLast(o)' PROVE o = object
    BY <1>10, <1>11, <2>1 DEF IsLast
  <2> QED BY <1>2, <2>1 DEF MarkIsTheUsers
<1>19. WaitsBehind'
  <2> SUFFICES ASSUME NEW i \in 1..delivered, NEW j \in 1..delivered, i < j, log[i].type = "post",
                      st'[log[i]].pc # "done", log[j].type = "me"
               PROVE  st'[log[j]].pc \in EarlyStages \/ (st'[log[j]].pc = "waiting" /\ st'[log[j]].on = promise)
    BY <1>2, <1>7 DEF WaitsBehind
  <2>1. log[i] \in Messages /\ log[j] \in Messages
    BY <1>1, Places DEF Basics
  <2>2. st[log[i]].pc # "done"
    BY <1>4, <2>1
  <2>3. log[j] # m
    BY <1>5, <2>2
  <2> QED BY <1>1, <1>2, <1>3, <2>1, <2>2, <2>3, Values DEF Ledger, WaitsBehind
<1>20. InTurn'
  <2> SUFFICES ASSUME NEW k \in 1..posted, NEW n \in 1..posted, k < n, Post(k) \in Published, st[Post(k)].pc # "done",
                      Post(n) \in Published, st[Post(n)].pc = "done"
               PROVE  FALSE
    BY <1>2, <1>4, <1>12 DEF InTurn
  <2> QED BY <1>1 DEF Ledger, InTurn
<1>21. CoreIsRight' /\ CounterIsRight'
  BY <1>11 DEF CoreIsRight, CounterIsRight
<1> QED BY <1>4, <1>14, <1>15, <1>16, <1>17, <1>18, <1>19, <1>20, <1>21 DEF Ledger

\* The mark of the counters is that of the new user already.
LEMMA StaysTheSame ==
    ASSUME Steady, NEW m \in Arrived, UserMoves(m), MarkHolds(m)
    PROVE  /\ \A o \in Objects : IsLast(o) => heap[o] = reads[m.n] /\ heap'[o] = reads[m.n]
           /\ \A c \in Computes : comp[c].pc \in InCore => heap'[comp[c].object] = heap[comp[c].object]
           /\ heap[lastReads] = reads[m.n] /\ heap'[lastReads] = reads[m.n]
           /\ \E o \in Objects : IsLast(o)
<1>1. Basics /\ OneAtATime
  BY SteadyFacts DEF Ledger
<1>2. /\ lastReads \in Objects /\ (promise # 0 => promise \in Computes)
      /\ \A c \in Computes : comp[c].object \in Objects
  BY <1>1, Values
<1>3. \A o \in CountedFrom : heap[o] = reads[m.n]
  BY DEF MarkHolds
<1>4. \A o \in CountedFrom : o \in Objects => heap'[o] = reads[m.n]
  BY <1>3 DEF UserMoves
<1>5. lastReads \in CountedFrom /\ \A c \in Computes : comp[c].pc \in InCore \cup {"waiting"} => comp[c].object \in CountedFrom
  BY DEF CountedFrom
<1>6. ASSUME NEW o \in Objects, IsLast(o) PROVE o \in CountedFrom
  <2>1. CASE \E c \in Computes : comp[c].pc = "waiting" /\ comp[c].object = o
    BY <1>5, <2>1
  <2>2. CASE \E c \in Computes : promise = c /\ comp[c].object = o
    <3>1. promise # 0 /\ comp[promise].object = o
      BY <1>1, <2>2, Values
    <3>2. comp[promise].pc \in InCore
      BY <1>1, <3>1 DEF OneAtATime
    <3> QED BY <1>2, <1>5, <3>1, <3>2
  <2>3. CASE lastReads = o
    BY <1>5, <2>3
  <2> QED BY <1>6, <2>1, <2>2, <2>3 DEF IsLast
<1>7. \E o \in Objects : IsLast(o)
  <2>1. CASE Awaiting
    BY <1>2, <2>1 DEF Awaiting, IsLast
  <2>2. CASE ~Awaiting /\ promise # 0
    BY <1>2, <2>2 DEF IsLast
  <2>3. CASE ~Awaiting /\ promise = 0
    BY <1>2, <2>3 DEF IsLast
  <2> QED BY <2>1, <2>2, <2>3
<1> QED BY <1>2, <1>3, <1>4, <1>5, <1>6, <1>7

\* A user that is newer than the cached one, and of which the mark is set already without a
\* computation, is the next: of the others the messages would still be on their way.
LEMMA NoGap ==
    ASSUME Steady, NEW m \in Arrived, UserMoves(m), MarkHolds(m), promise = 0, me.version < m.n
    PROVE  /\ reads[m.n] # Unset /\ me.version = m.n - 1
           /\ reads[m.n - 1] = Unset /\ st[Post(reads[m.n] + 1)].pc = "done"
<1> DEFINE x == m.n
           v == me.version
           k == reads[x]
<1>1. /\ Basics /\ Ordered /\ ServerOrder /\ Ledger /\ MarksAreBehind
      /\ \A o \in Messages : /\ st[o].pc # "dropped"
                             /\ o.type = "me" /\ st[o].pc = "done" => o.n <= v
  BY SteadyFacts
<1>2. /\ m.type = "me" /\ m \in Messages /\ x \in 2..Current /\ (v = x - 1 \/ Idle)
      /\ st[m].pc \in {"resolving", "answered"}
      /\ \A o \in Messages : o.type = "me" /\ o.n < x => st[o].pc \notin {"fetching", "answered"}
  BY DEF UserMoves
<1>3. PICK o \in Objects : IsLast(o) /\ heap[o] = k
  BY StaysTheSame
<1>4. /\ v \in Nat /\ 1 <= v /\ v < x /\ x \in Nat /\ Current \in Nat /\ x <= Current /\ 2 <= x /\ k \in Int
      /\ x - 1 \in 1..Current /\ x \in 1..Current
  BY <1>1, <1>2, Values
<1>5. reads[x - 1] = Unset <=> k # Unset
  BY <1>1, <1>2 DEF ServerOrder, Alternates
<1>6. ASSUME NEW w \in 2..Current, v < w, w < x PROVE Me(w) \in Messages /\ Me(w).type = "me" /\ Me(w).n = w
                                                   /\ st[Me(w)].pc \notin {"done", "dropped", "fetching", "answered"}
                                                   /\ \E i \in 1..Len(log) : log[i] = Me(w)
  <2>1. \E i \in 1..Len(log) : log[i] = Me(w)
    BY <1>1 DEF Basics, Logged, Me
  <2>2. Me(w) \in Messages /\ Me(w).type = "me" /\ Me(w).n = w
    BY <1>1, <2>1, Places, Kinds DEF Basics, Me
  <2>3. w \in Nat
    BY <1>4
  <2> QED BY <1>1, <1>2, <1>4, <1>6, <2>1, <2>2, <2>3
<1>7. PICK j \in 1..delivered : log[j] = m
  BY <1>1, Places DEF Basics
<1> HIDE DEF x, v, k
<1>8. k # Unset
  <2> SUFFICES ASSUME k = Unset PROVE FALSE
    OBVIOUS
  <2>1. reads[v] = Unset
    BY <1>1, <1>3 DEF Ledger, MarkIsTheUsers, v
  <2>2. v # x - 1
    BY <1>5, <2>1
  <2>3. Idle /\ v + 1 \in 2..Current /\ v < v + 1 /\ v + 1 < x
    BY <1>2, <1>4, <2>2
  <2> DEFINE o1 == Me(v + 1)
  <2>4. /\ o1 \in Messages /\ o1.type = "me" /\ o1.n = v + 1
        /\ st[o1].pc \notin {"done", "dropped", "fetching", "answered"}
        /\ \E i \in 1..Len(log) : log[i] = o1
    BY <1>6, <2>3
  <2> HIDE DEF o1
  <2>5. PICK i \in 1..Len(log) : log[i] = o1
    BY <2>4
  <2>6. i < j /\ i \in 1..delivered
    BY <1>1, <1>2, <1>7, <2>3, <2>4, <2>5, EarlierCameFirst DEF x
  <2>7. st[o1].pc \notin EarlyStages \cup {"items", "read", "resolving"}
    BY <1>1, <1>2, <1>7, <2>3, <2>5, <2>6, NoneBehind
  <2>8. st[o1].pc # "waiting"
    BY <1>1, <2>3, <2>4, NothingWaits DEF Ledger
  <2>9. st[o1].pc \in MeStages
    BY <1>1, <2>4 DEF Basics, Staged, StagedMessage, Fits
  <2> QED BY <2>4, <2>7, <2>8, <2>9 DEF MeStages, EarlyStages
<1>9. reads[x - 1] = Unset
  BY <1>5, <1>8
<1>10. k + 1 \in 1..posted
  BY <1>1, <1>4, <1>8 DEF MarksAreBehind, IsMark, k
<1>11. Post(k + 1) \in Messages /\ Post(k + 1).type = "post" /\ Post(k + 1).n = k + 1
  BY <1>1, <1>10, PostsAreMessages
<1>12. st[Post(k + 1)].pc = "done"
  <2> SUFFICES ASSUME st[Post(k + 1)].pc # "done" PROVE FALSE
    OBVIOUS
  <2>1. x > v
    BY <1>4
  <2>2. heap[o] # k
    BY <1>1, <1>4, <1>8, <2>1 DEF Ledger, ShownAreOld, k, v
  <2> QED BY <1>3, <2>2
<1>13. v = x - 1
  <2> SUFFICES ASSUME v # x - 1 PROVE FALSE
    OBVIOUS
  <2>1. x - 1 \in 2..Current /\ v < x - 1 /\ x - 1 < x
    BY <1>4
  <2> DEFINE o1 == Me(x - 1)
  <2>2. /\ o1 \in Messages /\ o1.type = "me" /\ o1.n = x - 1
        /\ st[o1].pc \notin {"done", "dropped", "fetching", "answered"}
        /\ \E i \in 1..Len(log) : log[i] = o1
    BY <1>6, <2>1
  <2> HIDE DEF o1
  <2>3. PICK i \in 1..Len(log) : log[i] = o1
    BY <2>2
  <2>4. Post(k + 1) \in Arrived
    BY <1>1, <1>11, <1>12 DEF Basics, Staged, StagedMessage
  <2>5. PICK p \in 1..delivered : log[p] = Post(k + 1)
    BY <1>1, <2>4, Places DEF Basics
  <2>6. p \in 1..Len(log) /\ p \in Int /\ i \in Int
    BY <1>1, Values
  <2>7. Through(reads, posted, x - 1) = k
    <3>1. x - 1 < Len(reads) /\ x - 1 + 1 = x
      BY <1>4 DEF Current
    <3> QED BY <1>9, <3>1 DEF Through, k
  <2>8. ~(p < i)
    <3>1. ~(k + 1 <= k)
      BY <1>4
    <3> QED BY <1>1, <1>11, <2>2, <2>3, <2>5, <2>6, <2>7, <3>1 DEF ServerOrder, InLogOrder
  <2>9. p # i
    BY <1>11, <2>2, <2>3, <2>5
  <2>10. i < p
    BY <2>6, <2>8, <2>9
  <2>11. st[o1].pc \in PassedStages
    BY <1>1, <1>11, <1>12, <2>2, <2>3, <2>5, <2>6, <2>10 DEF Ledger, NotOvertaken
  <2> QED BY <2>2, <2>11 DEF PassedStages
<1> QED BY <1>8, <1>9, <1>12, <1>13 DEF x, v, k

\* A change of the user that leaves the mark where it was.
LEMMA UserStaysKeeps ==
    ASSUME Steady, NEW m \in Arrived, UserMoves(m), MarkHolds(m)
    PROVE  Ledger'
<1> DEFINE x == m.n
<1>1. /\ Basics /\ ServerOrder /\ Ledger /\ OneAtATime
  BY SteadyFacts DEF Ledger
<1>2. /\ m.type = "me" /\ m \in Messages /\ x \in 2..Current /\ me'.version = x /\ me.version <= x
      /\ st'[m].pc = "done" /\ \A o \in Messages \ {m} : st'[o] = st[o]
      /\ UNCHANGED <<reads, posted, log, delivered, posts, init, lastReads, comp, promise, unread>>
  BY DEF UserMoves, MarkHolds
<1>3. /\ ShownAreMarks' /\ ShownAreOld' /\ NotOvertaken'
      /\ Published' = Published /\ Processed' = Processed /\ Current' = Current
      /\ \A o \in Messages : o.type = "post" => st'[o] = st[o]
      /\ \A o \in Messages : st'[o].pc \in {"counting", "waiting"} => st'[o] = st[o]
      /\ posts' \subseteq 1..posted' /\ \A k \in posts' : Post(k) \in Published' => st'[Post(k)].pc \notin EarlyStages
      /\ \A o \in Messages : st[o].pc = "done" => st'[o].pc = "done"
  BY UserMovesKeeps
<1>4. /\ \A o \in Objects : IsLast(o) => heap[o] = reads[x] /\ heap'[o] = reads[x]
      /\ \A c \in Computes : comp[c].pc \in InCore => heap'[comp[c].object] = heap[comp[c].object]
      /\ heap[lastReads] = reads[x] /\ heap'[lastReads] = reads[x]
  BY StaysTheSame
<1>5. promise # 0 =>
      /\ \A i, j \in 1..delivered : i < j /\ log[i].type = "post" /\ log[j] = m => st[log[i]].pc = "done"
      /\ \A n \in 1..posted :
                n <= Through(reads, posted, x) /\ Post(n) \in Published => st[Post(n)].pc = "done"
  BY DoneBefore
<1>6. promise = 0 /\ me.version < x =>
           /\ reads[x] # Unset /\ me.version = x - 1
           /\ reads[x - 1] = Unset /\ st[Post(reads[x] + 1)].pc = "done"
  BY NoGap
<1> HIDE DEF x
<1>7. /\ me.version \in Nat /\ x \in Nat /\ 2 <= x /\ x <= Current /\ Current \in Nat /\ x \in 1..Current
      /\ \A v \in 1..Current : reads[v] \in Int
  BY <1>1, <1>2, Values
<1>8. \A k \in 1..posted : st'[Post(k)] = st[Post(k)]
  BY <1>1, <1>3, PostsAreMessages
<1>9. Awaiting' <=> Awaiting
  BY <1>2 DEF Awaiting
<1>10. Once'
  <2> SUFFICES ASSUME NEW d \in Computes, comp[d].pc # "none", d # 1 PROVE st'[Me(d)].pc = "done"
    BY <1>2 DEF Once
  <2>1. d \in 2..MaxMe
    BY Bounds DEF Computes
  <2> QED BY <1>1, <1>3, <2>1, Kinds DEF Ledger, Once, Me
<1>11. OneAtATime'
  <2>1. \A o \in Messages : st'[o].pc = "waiting" => o.type = "me" /\ comp[st'[o].on].pc \in InCore \cup {"done"}
    BY <1>1, <1>3 DEF OneAtATime
  <2>2. \A o \in Messages : st'[o].pc = "counting" => promise = 0 /\ ~st'[o].old
    BY <1>1, <1>3 DEF OneAtATime
  <2> QED BY <1>1, <1>2, <2>1, <2>2 DEF OneAtATime
<1>12. NoneSeenBefore'
  BY <1>1, <1>2, <1>3 DEF Ledger, NoneSeenBefore
<1>13. ReadAreDone'
  <2> SUFFICES ASSUME NEW n \in 1..posted, n <= Through(reads, posted, x), Post(n) \in Published
               PROVE  st[Post(n)].pc = "done"
    BY <1>2, <1>3, <1>8 DEF ReadAreDone
  <2>1. CASE promise # 0
    BY <1>5, <2>1
  <2>2. CASE me.version = x
    BY <1>1, <2>2 DEF Ledger, ReadAreDone
  <2>3. CASE promise = 0 /\ me.version < x
    <3>1. Through(reads, posted, x) = reads[x] + 1
      BY <1>6, <2>3 DEF Through
    <3>2. Through(reads, posted, me.version) = reads[x]
      <4>1. me.version < Len(reads) /\ me.version + 1 = x /\ reads[me.version] = Unset
        BY <1>6, <1>7, <2>3 DEF Current
      <4> QED BY <4>1 DEF Through
    <3>3. n <= reads[x] \/ n = reads[x] + 1
      BY <1>7, <3>1
    <3>4. CASE n <= reads[x]
      BY <1>1, <3>2, <3>4 DEF Ledger, ReadAreDone
    <3>5. CASE n = reads[x] + 1
      BY <1>6, <2>3, <3>5
    <3> QED BY <3>3, <3>4, <3>5
  <2> QED BY <1>2, <1>7, <2>1, <2>2, <2>3
<1>14. MarkIsTheUsers'
  <2>1. \A o : IsLast(o)' => IsLast(o)
    BY <1>2 DEF IsLast, Awaiting
  <2> QED BY <1>2, <1>4, <2>1 DEF MarkIsTheUsers
<1>15. WaitsBehind'
  <2> SUFFICES ASSUME promise # 0, NEW i \in 1..delivered, NEW j \in 1..delivered, i < j, log[i].type = "post",
                      st'[log[i]].pc # "done", log[j].type = "me"
               PROVE  st'[log[j]].pc \in EarlyStages \/ (st'[log[j]].pc = "waiting" /\ st'[log[j]].on = promise)
    BY <1>2 DEF WaitsBehind
  <2>1. log[i] \in Messages /\ log[j] \in Messages
    BY <1>1, Places DEF Basics
  <2>2. st[log[i]].pc # "done"
    BY <1>3, <2>1
  <2>3. log[j] # m
    BY <1>5, <2>2
  <2> QED BY <1>1, <1>2, <2>1, <2>2, <2>3 DEF Ledger, WaitsBehind
<1>16. InTurn'
  BY <1>1, <1>2, <1>3, <1>4, <1>8, <1>9 DEF Ledger, InTurn
<1>17. CoreIsRight'
  <2> SUFFICES ASSUME ~Awaiting, NEW c \in Computes, comp[c].pc \in InCore PROVE Computed(c)'
    BY <1>2, <1>9 DEF CoreIsRight
  <2>1. Computed(c) /\ heap'[comp[c].object] = heap[comp[c].object]
    BY <1>1, <1>4 DEF Ledger, CoreIsRight
  <2> QED BY <1>2, <1>3, <2>1 DEF Computed
<1>18. CounterIsRight'
  <2> SUFFICES ASSUME ~Awaiting, promise = 0
               PROVE  /\ reads[x] = Unset => unread = 0
                      /\ reads[x] # Unset /\ reads[x] = reads[Current] /\ x >= Current - 1
                            => unread = Cardinality(Above(Processed, reads[x]))
    BY <1>2, <1>3, <1>4, <1>9 DEF CounterIsRight
  <2>1. reads[x] = Unset => unread = 0
    BY <1>1, <1>4 DEF Ledger, CounterIsRight
  <2>2. ASSUME reads[x] # Unset, reads[x] = reads[Current] PROVE unread = Cardinality(Above(Processed, reads[x]))
    <3>1. x = Current
      <4>1. ASSUME x < Current PROVE FALSE
        <5>1. Current \in 1..Current
          BY <1>7
        <5>2. reads[x] < reads[Current]
          BY <1>1, <1>7, <2>2, <4>1, <5>1, MarksGrow
        <5> QED BY <1>7, <2>2, <5>2
      <4> QED BY <1>7, <4>1
    <3>2. me.version >= Current - 1
      BY <1>2, <1>6, <1>7, <3>1
    <3> QED BY <1>1, <1>4, <2>2, <3>2 DEF Ledger, CounterIsRight
  <2> QED BY <2>1, <2>2
<1> QED BY <1>3, <1>10, <1>11, <1>12, <1>13, <1>14, <1>15, <1>16, <1>17, <1>18 DEF Ledger

\* A change of the user, whatever it does to the counter.
LEMMA UserChangesKeeps ==
    ASSUME Steady, Smooth', ~Late', NEW m \in Arrived, ApplyMe(m) \/ MeAnswer(m)
    PROVE  Ledger'
<1>1. CASE ApplyMe(m) /\ CacheUpdateAction(st[m].seen, m.n) # "update"
  BY <1>1, UserSkips
<1>2. CASE (ApplyMe(m) /\ CacheUpdateAction(st[m].seen, m.n) = "update") \/ MeAnswer(m)
  <2>1. UserMoves(m) /\ (Compute(m.n, me'.object) \/ MarkHolds(m))
    BY <1>2, UserGives
  <2>2. CASE MarkHolds(m)
    BY <2>1, <2>2, UserStaysKeeps
  <2>3. CASE Compute(m.n, me'.object) /\ promise # 0
    BY <2>1, <2>3, UserQueuesKeeps
  <2>4. CASE Compute(m.n, me'.object) /\ promise = 0
    <3>1. StartCore(m.n, me'.object)
      BY <2>4 DEF Compute
    <3> QED BY <2>1, <3>1, UserStartsKeeps
  <2> QED BY <2>1, <2>2, <2>3, <2>4
<1> QED BY <1>1, <1>2

--------------------------------------------------------------------------------
(* Every step, and the theorem. *)

\* At the start the invariant holds.
LEMMA InitKept == Init => Kept
<1> SUFFICES ASSUME Init PROVE Kept
  OBVIOUS
<1>1. PICK streams \in 0..MaxStreams :
        /\ log = [i \in 1..streams |-> Message("stream", i)]
        /\ delivered = streams
        /\ st = [m \in Messages |->
                    [Quiet EXCEPT !.pc = IF m.type = "stream" /\ m.n <= streams
                                         THEN "done" ELSE "none"]]
        /\ posted \in IF streams >= Target THEN {0, 1} ELSE {0}
        /\ reads \in IF posted = 1 THEN {<<Unset>>, <<0>>} ELSE {<<Unset>>}
  BY DEF Init
<1>2. Basics
  BY InitBasics
<1>3. streams \in Nat /\ Len(log) = streams /\ \A i \in 1..Len(log) : log[i].type = "stream"
  <2>1. streams \in Nat
    BY <1>1, Bounds
  <2> QED BY <1>1, <2>1, Kinds
<1>4. posted \in {0, 1} /\ Current = 1 /\ Len(reads) = 1 /\ (reads[1] = Unset \/ (reads[1] = 0 /\ posted = 1))
  BY <1>1 DEF Current
<1>5. /\ me.version = 1 /\ posts = {} /\ promise = 1 /\ unread = 0 /\ heap[1] = reads[1] /\ 1 \in Computes /\ 1 \in Objects
      /\ comp[1].pc = "unread" /\ comp[1].object = 1
      /\ \A c \in Computes : comp[c].read = {} /\ (c # 1 => comp[c].pc = "none")
  <2>1. 1 \in Computes /\ 1 \in Objects
    BY Bounds DEF Computes, Objects
  <2> QED BY <2>1 DEF Init, Idling
<1>6. \A n : Post(n) \notin Published
  BY <1>2, <1>3, Numbers, Kinds DEF Published, Post, Basics
<1>7. Through(reads, posted, 1) = posted /\ reads[1] \in {Unset, 0} /\ Unset # 0
  BY <1>4 DEF Through, Unset
<1>8. \A m \in Messages : st[m].pc \in {"none", "done"} /\ st[m].shown = Unset
  BY <1>1 DEF Quiet
<1>9. ServerOrder
  <2>1. 2..Current = {} /\ \A v \in 1..Current : v = 1
    BY <1>4
  <2>2. Alternates
    BY <2>1 DEF Alternates
  <2>3. ThroughGrows
    BY <1>4, <1>7, <2>1 DEF ThroughGrows
  <2>4. PublishedAfterFirst
    BY <1>4, <1>6, <1>7 DEF PublishedAfterFirst
  <2>5. InLogOrder
    BY <1>3 DEF InLogOrder
  <2> QED BY <2>2, <2>3, <2>4, <2>5 DEF ServerOrder
<1>10. ~Awaiting /\ \A c \in Computes : comp[c].pc \in InCore => c = 1
  BY <1>5 DEF Awaiting, InCore
<1>11. Once /\ ShownAreMarks
  BY <1>5, <1>8 DEF Once, ShownAreMarks, IsMark
<1>12. OneAtATime
  <2>1. comp[promise].pc \in InCore /\ unread = 0
    BY <1>5 DEF InCore
  <2>2. \A c \in Computes : comp[c].pc # "waiting"
    BY <1>5
  <2>3. \A m \in Messages : st[m].pc \notin {"waiting", "counting"}
    BY <1>8
  <2> QED BY <1>5, <1>10, <2>1, <2>2, <2>3 DEF OneAtATime
<1>13. NoneSeenBefore /\ ReadAreDone
  BY <1>5, <1>6 DEF NoneSeenBefore, ReadAreDone
<1>14. MarkIsTheUsers
  <2>1. \A o : IsLast(o) => o = 1
    BY <1>5, <1>10 DEF IsLast, Awaiting
  <2> QED BY <1>5, <2>1 DEF MarkIsTheUsers
<1>15. ShownAreOld
  BY <1>4, <1>5 DEF ShownAreOld
<1>16. NotOvertaken /\ WaitsBehind /\ InTurn
  <2>1. \A i \in 1..delivered : log[i].type = "stream"
    BY <1>1, <1>3
  <2> QED BY <1>3, <1>6, <2>1 DEF NotOvertaken, WaitsBehind, InTurn
<1>17. CoreIsRight /\ CounterIsRight
  BY <1>5, <1>10 DEF CoreIsRight, Computed, CounterIsRight
<1> QED BY <1>9, <1>11, <1>12, <1>13, <1>14, <1>15, <1>16, <1>17 DEF Kept, Ledger

\* Only a step of the server changes what the server has.
LEMMA OnlyTheServerAdds ==
    ASSUME Basics, [Next]_vars, ~(ServerPosts \/ ServerMarksRead \/ ServerAddsStream)
    PROVE  UNCHANGED <<reads, posted, log>>
<1>1. CASE UNCHANGED vars \/ Deliver \/ InitAnswer
  BY <1>1 DEF vars, server, Deliver, InitAnswer
<1>2. ASSUME NEW m \in Arrived, MessageStep(m) PROVE UNCHANGED <<reads, posted, log>>
  BY <1>2 DEF MessageStep, server, Release, Resume, ResolveStream, StreamAnswer, ResolvePost, StorePost, Count,
              UpdateFails, GetLastReads, GetLastReadItems, ReadMe, ApplyMe, ServerAnswersMe, MeAnswer, MeFetchFails
<1>3. ASSUME NEW c \in Computes, ComputeStep(c) PROVE UNCHANGED <<reads, posted, log>>
  BY <1>3 DEF ComputeStep, server, ComputeResumes, ServerAnswersUnread, UnreadAnswer, PostsRead, PageAnswer,
              ComputeFinish, ComputeFails
<1> QED BY <1>1, <1>2, <1>3 DEF Next

\* The order of what the server has stays what it is.
LEMMA NextKeepsOrder ==
    ASSUME Basics, Basics', ServerOrder, [Next]_vars
    PROVE  ServerOrder'
<1>1. CASE ServerPosts \/ ServerMarksRead \/ ServerAddsStream
  BY <1>1, ServerGives, ServerKeepsOrder
<1>2. CASE ~(ServerPosts \/ ServerMarksRead \/ ServerAddsStream)
  <2>1. UNCHANGED <<reads, posted, log>>
    BY <1>2, OnlyTheServerAdds
  <2> QED BY <2>1 DEF ServerOrder, Alternates, ThroughGrows, PublishedAfterFirst, InLogOrder, Current, Published
<1> QED BY <1>1, <1>2

\* Every step keeps the invariant.
LEMMA NextKeeps ==
    ASSUME Foundations, Foundations', Kept, [Next]_vars
    PROVE  Kept'
<1>1. Basics /\ Basics' /\ UserKept /\ ServerOrder
  BY DEF Foundations, Kept
<1>2. ServerOrder'
  BY <1>1, NextKeepsOrder
<1>3. SUFFICES ASSUME Smooth', ~Late' PROVE Ledger'
  BY <1>2 DEF Kept
<1>4. Smooth
  BY <1>1, <1>3, FlagsStay
<1>5. ~Late
  BY <1>1, <1>3, LateStays
<1>6. Steady
  BY <1>1, <1>4, <1>5 DEF Steady, Kept
<1>7. CASE UNCHANGED vars
  <2>1. UNCHANGED <<reads, posted, log, delivered, st, me, heap, comp, promise, unread, lastReads, posts, init>>
    BY <1>7 DEF vars, server, cached, counters
  <2>2. Calm
    BY <1>1, <2>1, Values DEF Calm, SameCore, GoesOn
  <2> QED BY <1>6, <2>1, <2>2, QuietStep
<1>8. CASE ServerPosts \/ ServerMarksRead \/ ServerAddsStream
  BY <1>1, <1>6, <1>8, ServerKeeps
<1>9. CASE Deliver \/ InitAnswer
  BY <1>3, <1>6, <1>9, DeliverKeeps, InitAnswerKeeps
<1>10. ASSUME NEW m \in Arrived, MessageStep(m) PROVE Ledger'
  <2>1. CASE Release(m) \/ ResolveStream(m) \/ StreamAnswer(m)
    BY <1>6, <2>1, ReleaseKeeps, StreamKeeps
  <2>2. CASE GetLastReads(m) \/ GetLastReadItems(m) \/ Resume(m) \/ ReadMe(m) \/ ServerAnswersMe(m)
    BY <1>6, <2>2, UserWaits, UserReads
  <2>3. CASE ApplyMe(m) \/ MeAnswer(m)
    BY <1>3, <1>6, <2>3, UserChangesKeeps
  <2>4. CASE ResolvePost(m) \/ StorePost(m)
    BY <1>3, <1>6, <2>4, PostKeeps
  <2>5. CASE Count(m)
    BY <1>6, <2>5, CountKeeps
  <2>6. CASE UpdateFails(m) \/ MeFetchFails(m)
    BY <1>3, <1>6, <2>6, NothingFails DEF UpdateFails, MeFetchFails
  <2> QED BY <1>10, <2>1, <2>2, <2>3, <2>4, <2>5, <2>6 DEF MessageStep
<1>11. ASSUME NEW c \in Computes, ComputeStep(c) PROVE Ledger'
  <2>1. CASE ComputeResumes(c) \/ PageAnswer(c)
    BY <1>3, <1>6, <2>1, ComputeResumesKeeps, PageAnswerKeeps
  <2>2. CASE ServerAnswersUnread(c) \/ UnreadAnswer(c) \/ PostsRead(c) \/ ComputeFinish(c)
    BY <1>6, <2>2, ServerAnswersUnreadKeeps, UnreadAnswerKeeps, PostsReadKeeps, ComputeFinishKeeps
  <2>3. CASE ComputeFails(c)
    BY <1>3, <1>6, <2>3, NothingFails DEF ComputeFails
  <2> QED BY <1>11, <2>1, <2>2, <2>3 DEF ComputeStep
<1> QED BY <1>7, <1>8, <1>9, <1>10, <1>11 DEF Next

\* When everything is processed, the counter is of what was posted since the mark of the user.
LEMMA SettledCounter == Foundations /\ Kept /\ UserIsCurrent => UnreadsAreExact
<1> SUFFICES ASSUME Foundations, Kept, UserIsCurrent, Settled, failures = 0, overlap = {}, ~ahead, ~overtaken,
                    ~leapt, ~unnoticed, ~piled
             PROVE  unread = Truth
  BY DEF UnreadsAreExact
<1> DEFINE h == heap[lastReads]
<1>1. /\ delivered = Len(log)
      /\ \A m \in Messages : st[m].pc \in Ended
      /\ \A c \in Computes : comp[c].pc \in Ended \cup {"failed"}
  BY DEF Settled, Busy
<1>2. Steady
  <2>1. ~Late
    BY <1>1 DEF Late, Ended
  <2> QED BY <2>1 DEF Smooth, Steady, Kept
<1>3. /\ Basics /\ ServerOrder /\ Ledger /\ OneAtATime /\ MarksAreBehind /\ \A m \in Messages : st[m].pc # "dropped"
      /\ me.version = Current
  BY <1>2, SteadyFacts DEF UserIsCurrent, Ledger
<1>4. /\ posted \in Nat /\ Current \in Nat /\ 1 <= Current /\ lastReads \in Objects /\ h \in Int
      /\ (h # Unset => h + 1 \in 1..posted)
  BY <1>3, Values DEF MarksAreBehind, IsMark
<1>5. promise = 0 /\ ~Awaiting
  <2>1. \A c \in Computes : comp[c].pc \notin InCore \cup {"waiting"}
    BY <1>1 DEF Ended, InCore
  <2> QED BY <1>3, <2>1, Values DEF OneAtATime, Awaiting
<1>6. Processed = 1..posted
  <2> SUFFICES ASSUME NEW n \in 1..posted, Post(n) \in Published PROVE st[Post(n)].pc = "done"
    BY DEF Processed
  <2>1. Post(n) \in Messages
    BY <1>3, PostsAreMessages
  <2>2. Post(n) \in Arrived
    BY <1>1, <1>3, Numbers DEF Published, Arrived, Basics
  <2>3. st[Post(n)].pc # "none"
    BY <1>3, <2>1, <2>2 DEF Basics, Staged, StagedMessage
  <2> QED BY <1>1, <1>3, <2>1, <2>3 DEF Ended
<1>7. h = reads[Current]
  <2>1. \/ h = reads[Current]
        \/ reads[Current] = Unset /\ h # Unset /\ h + 1 > Through(reads, posted, Current)
    <3>1. IsLast(lastReads)
      BY <1>5 DEF IsLast
    <3> QED BY <1>3, <1>4, <3>1 DEF Ledger, MarkIsTheUsers
  <2>2. reads[Current] = Unset => Through(reads, posted, Current) = posted
    BY <1>4 DEF Through, Current
  <2> HIDE DEF h
  <2> QED BY <1>4, <2>1, <2>2
<1>8. CASE h = Unset
  <2>1. unread = 0
    BY <1>3, <1>5, <1>8 DEF Ledger, CounterIsRight
  <2> QED BY <1>7, <1>8, <2>1 DEF Truth
<1>9. CASE h # Unset
  <2>1. me.version >= Current - 1
    BY <1>3, <1>4
  <2>2. unread = Cardinality(Above(1..posted, h))
    BY <1>3, <1>5, <1>6, <1>7, <1>9, <2>1 DEF Ledger, CounterIsRight
  <2> HIDE DEF h
  <2>3. h \in Int /\ posted \in Int /\ h + 1 \in Int /\ 1 <= h + 1 /\ h + 1 <= posted
    BY <1>4, <1>9
  <2>4. Above(1..posted, h) = (h + 1)..posted
    BY <2>3 DEF Above
  <2>5. Cardinality((h + 1)..posted) = IF h + 1 > posted THEN 0 ELSE posted - (h + 1) + 1
    BY <2>3, FS_Interval
  <2>6. unread = posted - h
    BY <2>2, <2>3, <2>4, <2>5
  <2> QED BY <1>7, <1>9, <2>6 DEF Truth
<1> QED BY <1>8, <1>9

\* Once everything is processed the counter is the number of unread posts: for any number of
\* posts, changes of the user and streams, whatever was blocked, fetched and computed in
\* between, as long as none of what UnreadsAreExact names has happened (unreads.ts).
THEOREM CounterIsExact == Spec => []UnreadsAreExact
<1>1. Init => Foundations /\ Kept
  BY InitBasics, InitInOrder, InitLossless, InitUserKept, InitMarks, InitKept DEF Foundations
<1>2. Foundations /\ Kept /\ [Next]_vars => Foundations' /\ Kept'
  <2> SUFFICES ASSUME Foundations, Kept, [Next]_vars PROVE Foundations' /\ Kept'
    OBVIOUS
  <2>1. Foundations'
    BY NextBasics, NextInOrder, NextLossless, NextUserKept, NextMarks DEF Foundations
  <2> QED BY <2>1, NextKeeps
<1>3. Foundations /\ Kept /\ UserIsCurrent => UnreadsAreExact
  BY SettledCounter
<1> QED BY <1>1, <1>2, <1>3, UserIsTheServers, PTL DEF Spec

--------------------------------------------------------------------------------
(* That no unread post is missed though updates overlap computations and answers leap: then *)
(* the counter is not exact, but what is unread is counted, or will be.                     *)

\* Nothing of what NoUnreadIsMissed excludes has happened.
Mild ==
    /\ failures = 0 /\ "computation" \notin overlap
    /\ ~ahead /\ ~overtaken /\ ~unnoticed /\ ~piled

\* Where what the user has not read begins, as the server has it.
Mark == reads[Current]

\* One computation is under way, at most one waits for it.
Alone ==
    /\ promise # 0 => comp[promise].pc \in InCore
    /\ \A c \in Computes : comp[c].pc \in InCore => promise = c
    /\ \A c, d \in Computes : comp[c].pc = "waiting" /\ comp[d].pc = "waiting" => c = d
    /\ \A c \in Computes : comp[c].pc = "waiting" => comp[comp[c].on].pc \in InCore \cup {"done"}
    /\ \A m \in Messages : st[m].pc = "waiting" => comp[st[m].on].pc \in InCore \cup {"done"}

\* What is cached is being processed, and no post is taken for one that was seen before.
Fresh ==
    /\ posts \subseteq 1..posted /\ \A c \in Computes : comp[c].read \subseteq 1..posted
    /\ \A n \in posts : Post(n) \in Published => st[Post(n)].pc \notin EarlyStages
    /\ \A m \in Messages : m.type = "post" => ~st[m].old

\* A computation goes for the posts once the stream is initialised, or about to be.
Prepared == \A c \in Computes : comp[c].pc = "posts" => init # "no"

\* No post is done before the processing of a user published earlier has begun.
NoneEarly ==
    \A i, j \in 1..Len(log) :
        i < j /\ log[i].type = "me" /\ log[j].type = "post" /\ st[log[j]].pc = "done"
            => st[log[i]].pc \notin EarlyStages

\* The mark of a version that is not cached yet is nowhere, unless the post it is for has set it.
NewMarkIsNowhere ==
    Mark # Unset /\ me.version < Current /\ st[Post(Mark + 1)].pc # "done"
        => /\ \A o \in Objects : heap[o] # Mark
           /\ \A m \in Messages : st[m].shown # Mark

Support == Once /\ ShownAreMarks /\ Alone /\ Fresh /\ Prepared /\ NoneEarly /\ NewMarkIsNowhere

\* The posts that are processed and not read, and whether a mark leaves them all unread.
Unread == Above(Processed, Mark)
Reaches(h) == h # Unset /\ h <= Mark

\* The computation will have counted a post when it is over.
WillRead(c, n) ==
    \/ comp[c].pc \in {"unread", "something"} /\ Reaches(heap[comp[c].object])
    \/ comp[c].pc = "posts" /\ Reaches(comp[c].from)
    \/ comp[c].pc \in {"page", "count"} /\ n \in comp[c].read

\* Each unread post has been counted, or the computation under way will do so; if one waits for
\* it, that one counts them all.
Counted ==
    \E D \in SUBSET (1..posted) :
        /\ Cardinality(D) <= unread
        /\ \A n \in Unread : n \in D \/ (promise # 0 /\ WillRead(promise, n))
WaitingReaches == \E d \in Computes : comp[d].pc = "waiting" /\ Reaches(heap[comp[d].object])
Covered == IF Awaiting THEN WaitingReaches ELSE Counted

\* A message of the user that may find that the mark has not moved from the server's.
ShownSoon(m) == st[m].pc \in EarlyStages \/ (st[m].pc = "waiting" /\ st[m].next = "items")
OnItsWay(m) == m.type = "me" /\ m.n <= Current /\ st[m].pc # "done"
MayFindIt(m) == OnItsWay(m) /\ (ShownSoon(m) \/ st[m].shown = Mark)

\* When the unread posts must be covered: the user is current, or may become so without a
\* computation, because the mark of the last one is the server's already, or because a post
\* sets it before the message that waits for the computation gets to see it.
MarkMayBeFound == (\E o \in Objects : IsLast(o) /\ heap[o] = Mark) /\ \E m \in Messages : MayFindIt(m)
MarkMayBeSet ==
    /\ ~Awaiting /\ promise # 0 /\ st[Post(Mark + 1)].pc # "done"
    /\ \E m \in Messages : OnItsWay(m) /\ st[m].pc = "waiting" /\ st[m].next = "items" /\ st[m].on = promise
MustBe == me.version = Current \/ MarkMayBeFound \/ MarkMayBeSet

Owed == Mark # Unset /\ MustBe => Covered

Backed == ServerOrder /\ (Mild => Support /\ Owed)

\* The states of which Support and Owed are to be preserved.
Sure == Foundations /\ ServerOrder /\ Mild /\ Support /\ Owed

--------------------------------------------------------------------------------
(* What the proofs of this part keep needing. *)

LEMMA MildStays == Basics /\ [Next]_vars /\ Mild' => Mild
<1> SUFFICES ASSUME Basics, [Next]_vars, Mild' PROVE Mild
  OBVIOUS
<1>1. HistoryGrows /\ failures \in Nat
  BY EveryStepGrows, Typed, Bounds DEF Basics, Types, Others
<1>2. failures' = 0 => failures = 0
  BY <1>1 DEF HistoryGrows, Fail
<1> QED BY <1>1, <1>2 DEF Mild, HistoryGrows

\* What Sure says, to be cited.
LEMMA SureFacts ==
    ASSUME Sure
    PROVE  /\ Basics /\ Ordered /\ NoneFailed /\ ServerOrder /\ Support /\ Owed /\ MarksAreBehind /\ AllCachedOrCome
           /\ Applicable /\ me.version <= Current
           /\ failures = 0 /\ "computation" \notin overlap /\ ~ahead /\ ~overtaken /\ ~unnoticed /\ ~piled
           /\ init # "failed" /\ \A c \in Computes : comp[c].pc # "failed"
           /\ \A m \in Messages : st[m].pc # "dropped"
<1>1. failures = 0 /\ "computation" \notin overlap /\ ~ahead /\ ~overtaken /\ ~unnoticed /\ ~piled
  BY DEF Sure, Mild
<1>2. /\ Basics /\ Ordered /\ NoneFailed /\ ServerOrder /\ Support /\ Owed /\ MarksAreBehind /\ AllCachedOrCome
      /\ Applicable /\ me.version <= Current
  BY <1>1 DEF Sure, Foundations, InOrder, UserKept, Lossless
<1>3. init # "failed" /\ \A c \in Computes : comp[c].pc # "failed"
  BY <1>1, <1>2 DEF NoneFailed
<1>4. \A m \in Messages : st[m].pc # "dropped"
  BY <1>1 DEF Sure, Foundations, Lossless, NoneDropped
<1> QED BY <1>1, <1>2, <1>3, <1>4

\* The mark of the server is a number, and the post after it is there.
LEMMA MarkFacts ==
    ASSUME Basics, MarksAreBehind
    PROVE  /\ Current \in 1..Current /\ Mark \in Int
           /\ Mark # Unset => Mark + 1 \in 1..posted /\ Post(Mark + 1) \in Messages /\ Post(Mark + 1).type = "post"
<1>1. Current \in 1..Current /\ Mark \in Int
  BY Values DEF Mark
<1>2. Mark # Unset => Mark + 1 \in 1..posted
  BY <1>1 DEF MarksAreBehind, IsMark, Mark
<1> QED BY <1>1, <1>2, PostsAreMessages

\* As long as the processing of a change of the user has not begun, and the post after the mark
\* is not done, there is nothing to count.
LEMMA NothingToCount ==
    ASSUME Basics, ServerOrder, MarksAreBehind, NoneEarly, Mark # Unset, st[Post(Mark + 1)].pc # "done",
           NEW m \in Messages, m.type = "me", m.n <= Current, st[m].pc \in EarlyStages
    PROVE  Unread = {}
<1>1. /\ Current \in Nat /\ Current \in 1..Current /\ posted \in Nat /\ Mark \in Int /\ Mark + 1 \in 1..posted
      /\ m.n \in 2..Current /\ m = Me(m.n) /\ 2 <= Current
  <2>1. m.n \in 2..MaxMe /\ m = Message("me", m.n)
    BY Kinds
  <2>2. Current \in Nat /\ posted \in Nat /\ MaxMe \in Nat
    BY Values, Bounds
  <2>3. m.n \in 2..Current /\ 2 <= Current
    BY <2>1, <2>2
  <2> QED BY <2>1, <2>2, <2>3, MarkFacts DEF Me
<1>2. Through(reads, posted, Current) = Mark + 1
  BY DEF Through, Mark
<1>3. Post(Mark + 1) \in Published
  <2>1. Current - 1 \in 1..Current /\ Current \in 2..Current /\ 1 \in 1..Current /\ 1 <= Current - 1
    BY <1>1
  <2>2. reads[Current - 1] = Unset
    BY <2>1 DEF ServerOrder, Alternates, Mark
  <2>3. Through(reads, posted, Current - 1) = Mark
    <3>1. Current - 1 < Len(reads) /\ Current - 1 + 1 = Current
      BY <1>1 DEF Current
    <3> QED BY <2>2, <3>1 DEF Through, Mark
  <2>4. Through(reads, posted, 1) <= Mark /\ Through(reads, posted, 1) \in 0..posted
    BY <2>1, <2>3 DEF ServerOrder, ThroughGrows
  <2>5. Mark + 1 > Through(reads, posted, 1)
    BY <1>1, <2>4
  <2> QED BY <1>1, <2>5 DEF ServerOrder, PublishedAfterFirst
<1> SUFFICES ASSUME NEW n \in Unread PROVE FALSE
  OBVIOUS
<1>4. n \in 1..posted /\ n > Mark /\ (Post(n) \in Published => st[Post(n)].pc = "done")
  BY DEF Unread, Above, Processed
<1>5. n > Mark + 1
  <2>1. n # Mark + 1
    BY <1>3, <1>4
  <2> QED BY <1>1, <1>4, <2>1
<1>6. Post(n) \in Published
  BY <1>1, <1>3, <1>4, <1>5, LaterAreMessages
<1>7. PICK j \in 1..Len(log) : log[j] = Post(n)
  BY <1>6, Numbers DEF Published, Basics
<1>8. log[j].type = "post" /\ log[j].n = n /\ st[log[j]].pc = "done"
  BY <1>4, <1>6, <1>7, PostsAreMessages
<1>9. PICK i \in 1..Len(log) : log[i] = m
  BY <1>1 DEF Basics, Logged, Me
<1>10. Through(reads, posted, m.n) <= Mark + 1 /\ Through(reads, posted, m.n) \in 0..posted
  <2>1. m.n \in 1..Current /\ m.n <= Current
    BY <1>1
  <2> QED BY <1>1, <1>2, <2>1 DEF ServerOrder, ThroughGrows
<1>11. ~(n <= Through(reads, posted, m.n))
  BY <1>1, <1>4, <1>5, <1>10
<1>12. ~(j < i)
  BY <1>8, <1>9, <1>11 DEF ServerOrder, InLogOrder
<1>13. i # j
  BY <1>8, <1>9
<1>14. i < j
  BY <1>12, <1>13, Values
<1> QED BY <1>8, <1>9, <1>14 DEF NoneEarly

\* When there is nothing to count, nothing is missing.
LEMMA NothingCovers ==
    ASSUME Basics, Unread = {}
    PROVE  Counted
<1>1. {} \in SUBSET (1..posted) /\ Cardinality({}) = 0 /\ 0 <= unread
  BY FS_EmptySet, Values
<1> QED BY <1>1 DEF Counted

--------------------------------------------------------------------------------
(* The steps that leave the user, the marks and the counter alone. *)

\* A message goes on, without a post being counted; it asks for the mark of the counter, or
\* waits to do so, only if it had not done so before.
Proceeds(m) ==
    /\ st'[m].pc \in EarlyStages => st[m].pc \in EarlyStages
    /\ st[m].pc = "done" => st'[m].pc = "done"
    /\ m.type = "post" => ~st'[m].old /\ (st'[m].pc = "done" => st[m].pc = "done")
    /\ st'[m].pc = "waiting" =>
        \/ st'[m] = st[m]
        \/ promise # 0 /\ st'[m].on = promise /\ (st'[m].next = "items" => st[m].pc \in EarlyStages)
    /\ st'[m].shown \in {st[m].shown, Unset} \/ (st'[m].shown = heap[lastReads] /\ ShownSoon(m))

Onward ==
    /\ UNCHANGED <<reads, posted, log, me, heap, promise, unread, lastReads>>
    /\ \A c \in Computes : SameCore(c)
    /\ \A m \in Messages : Proceeds(m)

\* What the computation under way would read, it still does.
ReadsOn ==
    ~Awaiting /\ Mark # Unset /\ promise # 0 =>
        \A n \in Unread : WillRead(promise, n) => WillRead(promise, n)'

\* A step that goes onward leaves what was processed ...
LEMMA OnwardProcessed ==
    ASSUME Basics, Onward
    PROVE  /\ Published' = Published /\ Processed' = Processed /\ Mark' = Mark /\ Unread' = Unread
           /\ Current' = Current
           /\ \A n \in 1..posted : st'[Post(n)].pc = "done" <=> st[Post(n)].pc = "done"
<1>1. \A n \in 1..posted : st'[Post(n)].pc = "done" <=> st[Post(n)].pc = "done"
  BY PostsAreMessages DEF Onward, Proceeds
<1>2. Published' = Published /\ Processed' = Processed
  BY <1>1, ProcessedStays DEF Onward
<1>3. Mark' = Mark /\ Current' = Current
  BY DEF Onward, Mark, Current
<1> QED BY <1>1, <1>2, <1>3 DEF Unread

\* All of Support but what is said of the cached posts and of the initialisation.
Framework == Once /\ ShownAreMarks /\ Alone /\ NoneEarly /\ NewMarkIsNowhere

\* ... keeps that ...
LEMMA OnwardKeeps ==
    ASSUME Sure, Onward
    PROVE  /\ Framework' /\ \A m \in Messages : m.type = "post" => ~st'[m].old
           /\ Awaiting' <=> Awaiting
           /\ \A o : IsLast(o)' => IsLast(o)
           /\ \A c \in Computes : comp[c].pc = "waiting" \/ comp'[c].pc = "waiting" => comp'[c] = comp[c]
<1>1. /\ Basics /\ Support /\ MarksAreBehind
      /\ reads' = reads /\ posted' = posted /\ log' = log /\ me' = me /\ heap' = heap /\ promise' = promise
      /\ unread' = unread /\ lastReads' = lastReads
  BY SureFacts DEF Onward
<1>2. /\ Published' = Published /\ Processed' = Processed /\ Mark' = Mark /\ Current' = Current
      /\ \A n \in 1..posted : st'[Post(n)].pc = "done" <=> st[Post(n)].pc = "done"
  BY <1>1, OnwardProcessed
<1>3. \A c \in Computes : SameCore(c)
  BY DEF Onward
<1>4. \A m \in Messages : Proceeds(m)
  BY DEF Onward
<1>5. \A i \in 1..Len(log) : log[i] \in Messages
  BY <1>1, Places DEF Basics
<1>6. lastReads \in Objects /\ (promise # 0 => promise \in Computes)
  BY <1>1, Values
<1>7. \A c \in Computes : comp[c].pc = "waiting" \/ comp'[c].pc = "waiting" => comp'[c] = comp[c]
  BY <1>3 DEF SameCore, InCore
<1>8. Awaiting' <=> Awaiting
  BY <1>7 DEF Awaiting
<1>9. \A c \in Computes : comp[c].pc \in InCore => comp'[c].pc \in InCore /\ comp'[c].object = comp[c].object
  BY <1>3 DEF SameCore
<1>10. Once'
  <2> SUFFICES ASSUME NEW c \in Computes, comp'[c].pc # "none", c # 1 PROVE st'[Me(c)].pc = "done"
    BY DEF Once
  <2>1. comp[c].pc # "none"
    BY <1>3 DEF SameCore, InCore
  <2>2. st[Me(c)].pc = "done"
    BY <1>1, <2>1 DEF Support, Once
  <2>3. c \in 2..MaxMe
    BY Bounds DEF Computes
  <2>4. Me(c) \in Messages
    BY <2>3, Kinds DEF Me
  <2> QED BY <1>4, <2>2, <2>4 DEF Proceeds
<1>11. ShownAreMarks'
  <2> SUFFICES ASSUME NEW m \in Messages PROVE IsMark(st'[m].shown, posted)
    BY <1>1 DEF ShownAreMarks
  <2>1. IsMark(st[m].shown, posted) /\ IsMark(heap[lastReads], posted) /\ IsMark(Unset, posted)
    BY <1>1, <1>6 DEF Support, ShownAreMarks, MarksAreBehind, IsMark
  <2> QED BY <1>4, <2>1 DEF Proceeds
<1>12. Alone'
  <2>1. promise' # 0 => comp'[promise'].pc \in InCore
    BY <1>1, <1>6, <1>9 DEF Support, Alone
  <2>2. \A c \in Computes : comp'[c].pc \in InCore => promise' = c
    BY <1>1, <1>3 DEF SameCore, Support, Alone
  <2>3. \A c, d \in Computes : comp'[c].pc = "waiting" /\ comp'[d].pc = "waiting" => c = d
    BY <1>1, <1>7 DEF Support, Alone
  <2>4. \A c \in Computes : comp[c].pc \in InCore \cup {"done"} => comp'[c].pc \in InCore \cup {"done"}
    BY <1>3 DEF SameCore
  <2>5. ASSUME NEW c \in Computes, comp'[c].pc = "waiting" PROVE comp'[comp'[c].on].pc \in InCore \cup {"done"}
    <3>1. comp[c].pc = "waiting" /\ comp'[c] = comp[c]
      BY <1>7, <2>5
    <3>2. comp[c].on \in Computes
      BY <1>1, <3>1 DEF Basics, Staged, StagedComputation
    <3> QED BY <1>1, <2>4, <3>1, <3>2 DEF Support, Alone
  <2>6. ASSUME NEW m \in Messages, st'[m].pc = "waiting" PROVE comp'[st'[m].on].pc \in InCore \cup {"done"}
    <3>1. CASE st'[m] = st[m]
      <4>1. st[m].on \in Computes
        BY <1>1, <2>6, <3>1 DEF Basics, Staged, StagedMessage, Fits
      <4> QED BY <1>1, <2>4, <2>6, <3>1, <4>1 DEF Support, Alone
    <3>2. CASE promise # 0 /\ st'[m].on = promise
      BY <1>1, <1>6, <2>1, <3>2
    <3> QED BY <1>4, <2>6, <3>1, <3>2 DEF Proceeds
  <2> QED BY <2>1, <2>2, <2>3, <2>5, <2>6 DEF Alone
<1>13. NoneEarly'
  BY <1>1, <1>4, <1>5 DEF Support, NoneEarly, Proceeds
<1>14. NewMarkIsNowhere'
  <2> SUFFICES ASSUME Mark # Unset, me.version < Current, st'[Post(Mark + 1)].pc # "done"
               PROVE  /\ \A o \in Objects : heap[o] # Mark
                      /\ \A m \in Messages : st'[m].shown # Mark
    BY <1>1, <1>2 DEF NewMarkIsNowhere
  <2>1. Mark + 1 \in 1..posted
    BY <1>1, MarkFacts
  <2>2. /\ \A o \in Objects : heap[o] # Mark
        /\ \A m \in Messages : st[m].shown # Mark
    BY <1>1, <1>2, <2>1 DEF Support, NewMarkIsNowhere
  <2> QED BY <1>4, <1>6, <2>2 DEF Proceeds
<1>15. ASSUME NEW o, IsLast(o)' PROVE IsLast(o)
  <2>1. CASE \E c \in Computes : comp'[c].pc = "waiting" /\ comp'[c].object = o
    BY <1>7, <2>1 DEF IsLast
  <2>2. CASE ~Awaiting' /\ \E c \in Computes : promise' = c /\ comp'[c].object = o
    <3>1. PICK c \in Computes : promise = c /\ comp'[c].object = o
      BY <1>1, <2>2
    <3>2. comp[c].pc \in InCore
      BY <1>1, <1>6, <3>1, Values DEF Support, Alone
    <3> QED BY <1>8, <1>9, <2>2, <3>1, <3>2 DEF IsLast
  <2>3. CASE ~Awaiting' /\ promise' = 0 /\ lastReads' = o
    BY <1>1, <1>8, <2>3 DEF IsLast
  <2> QED BY <1>15, <2>1, <2>2, <2>3 DEF IsLast
<1>16. \A m \in Messages : m.type = "post" => ~st'[m].old
  BY <1>4 DEF Proceeds
<1> QED BY <1>7, <1>8, <1>10, <1>11, <1>12, <1>13, <1>14, <1>15, <1>16 DEF Framework

\* ... and what is owed, if the computation reads on.
LEMMA OnwardCovers ==
    ASSUME Sure, Onward, ReadsOn
    PROVE  Owed'
<1>1. /\ Basics /\ Support /\ Owed /\ MarksAreBehind /\ ServerOrder
      /\ me' = me /\ heap' = heap /\ promise' = promise /\ unread' = unread /\ posted' = posted
  BY SureFacts DEF Onward
<1>2. /\ Mark' = Mark /\ Current' = Current /\ Unread' = Unread
      /\ \A n \in 1..posted : st'[Post(n)].pc = "done" <=> st[Post(n)].pc = "done"
  BY <1>1, OnwardProcessed
<1>3. \A m \in Messages : Proceeds(m)
  BY DEF Onward
<1>4. /\ Awaiting' <=> Awaiting
      /\ \A o : IsLast(o)' => IsLast(o)
      /\ \A c \in Computes : comp[c].pc = "waiting" \/ comp'[c].pc = "waiting" => comp'[c] = comp[c]
  BY OnwardKeeps
<1> SUFFICES ASSUME Mark # Unset, MustBe' PROVE Covered'
  BY <1>2 DEF Owed
<1>5. Mark + 1 \in 1..posted
  BY <1>1, MarkFacts
<1>6. ASSUME Covered PROVE Covered'
  <2>1. CASE Awaiting
    <3>1. WaitingReaches'
      BY <1>1, <1>2, <1>4, <1>6, <2>1 DEF Covered, WaitingReaches, Reaches
    <3> QED BY <1>4, <2>1, <3>1 DEF Covered
  <2>2. CASE ~Awaiting
    <3>1. PICK D \in SUBSET (1..posted) :
            /\ Cardinality(D) <= unread
            /\ \A n \in Unread : n \in D \/ (promise # 0 /\ WillRead(promise, n))
      BY <1>6, <2>2 DEF Covered, Counted
    <3>2. \A n \in Unread : n \in D \/ (promise # 0 /\ WillRead(promise, n)')
      BY <2>2, <3>1 DEF ReadsOn
    <3>3. \A n \in Unread' : n \in D \/ (promise' # 0 /\ WillRead(promise, n)')
      BY <1>1, <1>2, <3>2
    <3>4. Cardinality(D) <= unread' /\ D \in SUBSET (1..posted')
      BY <1>1, <3>1
    <3>5. Counted'
      BY <3>3, <3>4 DEF Counted
    <3> QED BY <1>4, <2>2, <3>5 DEF Covered
  <2> QED BY <2>1, <2>2
<1>7. ASSUME NEW m \in Messages, MayFindIt(m)' PROVE MayFindIt(m)
  <2>1. OnItsWay(m)
    BY <1>2, <1>3, <1>7 DEF MayFindIt, OnItsWay, Proceeds
  <2>2. ASSUME ShownSoon(m)' PROVE ShownSoon(m)
    BY <1>3, <2>2 DEF ShownSoon, Proceeds
  <2>3. ASSUME st'[m].shown = Mark PROVE ShownSoon(m) \/ st[m].shown = Mark
    BY <1>3, <2>3 DEF Proceeds
  <2> QED BY <1>2, <1>7, <2>1, <2>2, <2>3 DEF MayFindIt
<1>8. CASE me'.version = Current'
  BY <1>1, <1>2, <1>6, <1>8 DEF Owed, MustBe
<1>9. CASE MarkMayBeFound'
  <2>1. MarkMayBeFound
    BY <1>1, <1>2, <1>4, <1>7, <1>9 DEF MarkMayBeFound
  <2> QED BY <1>1, <1>6, <2>1 DEF Owed, MustBe
<1>10. CASE MarkMayBeSet'
  <2>1. ~Awaiting /\ promise # 0 /\ st[Post(Mark + 1)].pc # "done"
    BY <1>1, <1>2, <1>4, <1>5, <1>10 DEF MarkMayBeSet
  <2>2. PICK m \in Messages : OnItsWay(m)' /\ st'[m].pc = "waiting" /\ st'[m].next = "items" /\ st'[m].on = promise
    BY <1>1, <1>10 DEF MarkMayBeSet
  <2>3. OnItsWay(m)
    BY <1>2, <1>3, <2>2 DEF OnItsWay, Proceeds
  <2>4. CASE st'[m] = st[m]
    <3>1. MarkMayBeSet
      BY <2>1, <2>2, <2>3, <2>4 DEF MarkMayBeSet
    <3> QED BY <1>1, <1>6, <3>1 DEF Owed, MustBe
  <2>5. CASE st[m].pc \in EarlyStages
    <3>1. Unread = {}
      BY <1>1, <2>1, <2>3, <2>5, NothingToCount DEF OnItsWay, Support
    <3>2. Covered
      BY <1>1, <2>1, <3>1, NothingCovers DEF Covered
    <3> QED BY <1>6, <3>2
  <2> QED BY <1>3, <2>2, <2>4, <2>5 DEF Proceeds
<1> QED BY <1>8, <1>9, <1>10 DEF MustBe

\* Cached posts stay fresh if they are not added to.
LEMMA FreshStays ==
    ASSUME Sure, Onward, posts' = posts, \A c \in Computes : comp'[c].read \subseteq 1..posted
    PROVE  Fresh'
<1>1. Basics /\ Fresh
  BY SureFacts DEF Support
<1>2. posted' = posted /\ Published' = Published
  BY <1>1, OnwardProcessed DEF Onward
<1>3. ASSUME NEW n \in posts, Post(n) \in Published PROVE st'[Post(n)].pc \notin EarlyStages
  <2>1. Post(n) \in Messages
    BY <1>1, <1>3, PostsAreMessages
  <2>2. Proceeds(Post(n)) /\ st[Post(n)].pc \notin EarlyStages
    BY <1>1, <1>3, <2>1 DEF Onward, Fresh
  <2> QED BY <2>2 DEF Proceeds
<1>4. \A m \in Messages : m.type = "post" => ~st'[m].old
  BY OnwardKeeps
<1> QED BY <1>1, <1>2, <1>3, <1>4 DEF Fresh

\* A computation that does not go on reads on.
LEMMA SameReadsOn ==
    ASSUME Sure, Onward, comp' = comp
    PROVE  ReadsOn
<1>1. Mark' = Mark /\ UNCHANGED <<comp, heap, promise>>
  BY SureFacts, OnwardProcessed DEF Onward
<1>2. \A n \in Unread : WillRead(promise, n) => WillRead(promise, n)'
  BY <1>1 DEF WillRead, Reaches
<1> QED BY <1>2 DEF ReadsOn

\* A step onward that leaves the computations and the cached posts keeps everything.
LEMMA OnwardQuietly ==
    ASSUME Sure, Onward, UNCHANGED <<comp, posts>>, init' = "no" => init = "no"
    PROVE  Support' /\ Owed'
<1>1. Fresh /\ Prepared
  BY SureFacts DEF Support
<1>2. \A c \in Computes : comp'[c].read \subseteq 1..posted
  BY <1>1 DEF Fresh
<1>3. Prepared'
  BY <1>1 DEF Prepared
<1> QED BY <1>2, <1>3, OnwardKeeps, OnwardCovers, SameReadsOn, FreshStays DEF Framework, Support

\* The same of a step of one message.
LEMMA OneProceeds ==
    ASSUME Sure, NEW m \in Arrived, Proceeds(m), \A o \in Messages \ {m} : st'[o] = st[o],
           UNCHANGED <<reads, posted, log, me, heap, comp, promise, unread, lastReads>>
    PROVE  Onward
<1>1. Fresh
  BY SureFacts DEF Support
<1>2. \A o \in Messages : Proceeds(o)
  BY <1>1 DEF Proceeds, Fresh
<1>3. \A c \in Computes : SameCore(c)
  BY DEF SameCore
<1> QED BY <1>2, <1>3 DEF Onward

\* What is awaited is a computation under way: nobody is dropped.
LEMMA AwaitIs ==
    ASSUME Sure, NEW m \in Messages, NEW next \in {"counting", "items", "read"}
    PROVE  LET r == AwaitCompute(m, next)
           IN  /\ r \in Progress /\ r.shown = st[m].shown
               /\ r.pc = next \/ (r.pc = "waiting" /\ promise # 0 /\ r.on = promise /\ r.next = next)
<1>1. Basics /\ (promise # 0 => promise \in Computes) /\ \A c \in Computes : comp[c].pc # "failed"
  BY SureFacts, Values
<1>2. st[m] \in Progress /\ AwaitCompute(m, next) \in Progress
  BY <1>1, Typed, Awaited DEF Basics, Types
<1>3. CASE promise = 0
  BY <1>2, <1>3 DEF AwaitCompute, Progress
<1>4. CASE promise # 0
  <2>1. AwaitCompute(m, next) = [st[m] EXCEPT !.pc = "waiting", !.on = promise, !.next = next]
    BY <1>1, <1>4 DEF AwaitCompute
  <2> QED BY <1>2, <1>4, <2>1 DEF Progress
<1> QED BY <1>3, <1>4

\* A message that moves was not done: a post then is not either, and is not taken for an old one.
LEMMA MoveProceeds ==
    ASSUME Sure, NEW m \in Messages, NEW pc \in Stages, Move(m, pc), pc # "waiting", st[m].pc # "done",
           pc \in EarlyStages => st[m].pc \in EarlyStages, m.type = "post" => pc # "done"
    PROVE  Proceeds(m)
<1>1. Basics /\ Fresh
  BY SureFacts DEF Support
<1>2. st \in [Messages -> Progress] /\ st[m] \in Progress
  BY <1>1, Typed DEF Basics, Types
<1>3. st'[m].shown \in {st[m].shown, Unset} /\ st'[m].pc = pc
  BY <1>1, MoveShows
<1>4. m.type = "post" => ~st'[m].old
  <2>1. st'[m] = IF pc \in Ended THEN [Quiet EXCEPT !.pc = pc] ELSE [st[m] EXCEPT !.pc = pc]
    BY <1>2 DEF Move
  <2>2. [Quiet EXCEPT !.pc = pc].old = FALSE /\ [st[m] EXCEPT !.pc = pc].old = st[m].old
    BY <1>2 DEF Quiet, Progress
  <2> QED BY <1>1, <2>1, <2>2 DEF Fresh
<1> QED BY <1>3, <1>4 DEF Proceeds

\* Blocked messages that become ready, and messages of a stream.
LEMMA BlockersGoOn ==
    ASSUME Sure, NEW m \in Arrived, Release(m) \/ ResolveStream(m) \/ StreamAnswer(m)
    PROVE  Support' /\ Owed'
<1>1. Basics /\ m \in Messages
  BY SureFacts, OfKind
<1>2. \A o \in Messages \ {m} : st'[o] = st[o]
  BY <1>1, ReleaseBasics, ResolveStreamBasics, StreamAnswerBasics
<1>3. "ready" \in Stages /\ "done" \in Stages /\ "fetching" \in Stages
  BY DEF Stages, Ended
<1>4. CASE Release(m)
  <2>1. st[m].pc = "blocked" /\ Move(m, "ready")
    BY <1>4 DEF Release
  <2>2. Proceeds(m)
    BY <1>1, <1>3, <2>1, MoveProceeds DEF EarlyStages
  <2>3. UNCHANGED <<reads, posted, log, me, heap, comp, promise, unread, lastReads, posts, init>>
    BY <1>4 DEF Release, server, cached, counters
  <2> QED BY <1>1, <1>2, <2>2, <2>3, OneProceeds, OnwardQuietly
<1>5. CASE ResolveStream(m) \/ StreamAnswer(m)
  <2>1. m.type = "stream" /\ st[m].pc \in {"ready", "fetching"}
    BY <1>5 DEF ResolveStream, StreamAnswer
  <2>2. Move(m, "done") \/ Move(m, "fetching")
    BY <1>5 DEF ResolveStream, StreamAnswer, FinishStream
  <2>3. Proceeds(m)
    BY <1>1, <1>3, <2>1, <2>2, MoveProceeds DEF EarlyStages
  <2>4. UNCHANGED <<reads, posted, log, me, heap, comp, promise, unread, lastReads, posts, init>>
    BY <1>5 DEF ResolveStream, StreamAnswer, server, cached, counters
  <2> QED BY <1>1, <1>2, <2>3, <2>4, OneProceeds, OnwardQuietly
<1> QED BY <1>4, <1>5

\* A message that goes on when what it awaited is over.
LEMMA WaitersGoOn ==
    ASSUME Sure, NEW m \in Arrived, Resume(m)
    PROVE  Support' /\ Owed'
<1>1. Basics /\ Fresh /\ m \in Messages /\ st \in [Messages -> Progress] /\ st[m] \in Progress
  BY SureFacts, OfKind, Typed DEF Basics, Types, Support
<1>2. \A o \in Messages \ {m} : st'[o] = st[o]
  BY <1>1, ResumeBasics
<1>3. UNCHANGED <<reads, posted, log, me, heap, comp, promise, unread, lastReads, posts, init>>
  BY DEF Resume, server, cached, counters
<1>4. lastReads \in Objects /\ heap[lastReads] \in Unset..MaxPosts
  BY <1>1, Values, Typed DEF Basics, Types, Others
<1>5. /\ st[m].pc = "waiting" /\ Settles(st[m].on) /\ st[m].on \in Computes
      /\ st[m].next \in {"counting", "items", "read"}
  BY <1>1, OfKind DEF Resume, Basics, Staged, StagedMessage, Fits
<1>6. comp[st[m].on].pc # "failed"
  BY <1>5, SureFacts
<1> DEFINE shown == IF st[m].next = "items" THEN heap[lastReads] ELSE st[m].shown
<1>7. st' = [st EXCEPT ![m] = [st[m] EXCEPT !.pc = st[m].next, !.on = 0, !.next = "none", !.shown = shown]]
  BY <1>6 DEF Resume
<1>8. shown = st[m].shown \/ (shown = heap[lastReads] /\ ShownSoon(m))
  BY <1>5 DEF ShownSoon
<1> HIDE DEF shown
<1>9. st'[m].pc = st[m].next /\ st'[m].shown = shown /\ st'[m].old = st[m].old
  <2>1. st'[m] = [st[m] EXCEPT !.pc = st[m].next, !.on = 0, !.next = "none", !.shown = shown]
    BY <1>1, <1>7
  <2> QED BY <1>1, <2>1 DEF Progress
<1>10. Proceeds(m)
  BY <1>1, <1>5, <1>8, <1>9 DEF Proceeds, EarlyStages, Fresh
<1> QED BY <1>1, <1>2, <1>3, <1>10, OneProceeds, OnwardQuietly

\* A message of the user, until it is applied.
LEMMA UsersGoOn ==
    ASSUME Sure, NEW m \in Arrived, GetLastReads(m) \/ GetLastReadItems(m) \/ ReadMe(m) \/ ServerAnswersMe(m)
    PROVE  Support' /\ Owed'
<1>1. Basics /\ m \in Messages /\ st \in [Messages -> Progress] /\ st[m] \in Progress
  BY SureFacts, OfKind, Typed DEF Basics, Types
<1>2. m.type = "me" /\ \A o \in Messages \ {m} : st'[o] = st[o]
  BY <1>1, GetBasics, ReadMeBasics, ServerAnswersMeBasics
<1>3. UNCHANGED <<reads, posted, log, me, heap, comp, promise, unread, lastReads, posts, init>>
  BY DEF GetLastReads, GetLastReadItems, ReadMe, ServerAnswersMe, server, cached, counters
<1>4. Proceeds(m)
  <2>1. CASE GetLastReads(m)
    <3> DEFINE r == AwaitCompute(m, "items")
    <3>1. r \in Progress /\ (r.pc = "items" \/ (r.pc = "waiting" /\ promise # 0 /\ r.on = promise))
      BY <1>1, AwaitIs
    <3>2. st' = [st EXCEPT ![m] = [r EXCEPT !.shown = heap[lastReads]]] /\ st[m].pc = "ready"
      BY <2>1 DEF GetLastReads
    <3> HIDE DEF r
    <3>3. st'[m].pc = r.pc /\ st'[m].on = r.on /\ st'[m].shown = heap[lastReads]
      BY <1>1, <3>1, <3>2 DEF Progress
    <3> QED BY <1>2, <3>1, <3>2, <3>3 DEF Proceeds, EarlyStages, ShownSoon
  <2>2. CASE GetLastReadItems(m)
    <3> DEFINE r == AwaitCompute(m, "read")
    <3>1. /\ r \in Progress /\ r.shown = st[m].shown
          /\ r.pc = "read" \/ (r.pc = "waiting" /\ promise # 0 /\ r.on = promise /\ r.next = "read")
      BY <1>1, AwaitIs
    <3>2. st' = [st EXCEPT ![m] = r] /\ st[m].pc = "items"
      BY <2>2 DEF GetLastReadItems
    <3> HIDE DEF r
    <3>3. st'[m] = r
      BY <1>1, <3>2
    <3> QED BY <1>2, <3>1, <3>2, <3>3 DEF Proceeds, EarlyStages
  <2>3. CASE ReadMe(m)
    <3>1. st' = [st EXCEPT ![m] = [[st[m] EXCEPT !.pc = "resolving"] EXCEPT !.seen = me.version]] /\ st[m].pc = "read"
      BY <1>1, <2>3 DEF ReadMe
    <3>2. st'[m].pc = "resolving" /\ st'[m].shown = st[m].shown
      BY <1>1, <3>1 DEF Progress
    <3> QED BY <1>2, <3>1, <3>2 DEF Proceeds, EarlyStages
  <2>4. CASE ServerAnswersMe(m)
    <3>1. st' = [st EXCEPT ![m] = [[st[m] EXCEPT !.pc = "answered"] EXCEPT !.seen = Current]] /\ st[m].pc = "fetching"
      BY <1>1, <2>4 DEF ServerAnswersMe
    <3>2. st'[m].pc = "answered" /\ st'[m].shown = st[m].shown
      BY <1>1, <3>1 DEF Progress
    <3> QED BY <1>2, <3>1, <3>2 DEF Proceeds, EarlyStages
  <2> QED BY <2>1, <2>2, <2>3, <2>4
<1> QED BY <1>1, <1>2, <1>3, <1>4, OneProceeds, OnwardQuietly

\* A directive that is skipped, or of which the server is asked.
LEMMA UserGoesOn ==
    ASSUME Sure, NEW m \in Arrived, ApplyMe(m), CacheUpdateAction(st[m].seen, m.n) # "update"
    PROVE  Support' /\ Owed'
<1>1. Basics /\ m \in Messages
  BY SureFacts, OfKind
<1>2. /\ \A o \in Messages \ {m} : st'[o] = st[o]
      /\ m.type = "me" /\ st[m].pc = "resolving" /\ (Move(m, "fetching") \/ Move(m, "done"))
  BY <1>1, ApplyMeBasics DEF ApplyMe
<1>3. "done" \in Stages /\ "fetching" \in Stages
  BY DEF Stages, Ended
<1>4. Proceeds(m)
  BY <1>1, <1>2, <1>3, MoveProceeds DEF EarlyStages
<1>5. UNCHANGED <<reads, posted, log, me, heap, comp, promise, unread, lastReads, posts, init>>
  BY DEF ApplyMe, server
<1> QED BY <1>1, <1>2, <1>4, <1>5, OneProceeds, OnwardQuietly

\* While Mild holds no request fails.
LEMMA NoneFails ==
    ASSUME Sure, Mild', Fail
    PROVE  FALSE
<1>1. failures = 0 /\ failures' = 0 /\ failures' = failures + 1
  BY SureFacts DEF Mild, Fail
<1> QED BY <1>1

\* A message of a post, until it is counted.
LEMMA PostsGoOn ==
    ASSUME Sure, NEW m \in Arrived, ResolvePost(m) \/ StorePost(m)
    PROVE  Support' /\ Owed'
<1>1. /\ Basics /\ Fresh /\ Prepared /\ init # "failed" /\ m \in Messages
      /\ st \in [Messages -> Progress] /\ st[m] \in Progress
  BY SureFacts, OfKind, Typed DEF Support, Basics, Types
<1>2. m.type = "post" /\ st[m].pc \in {"ready", "init"}
  BY <1>1, OfKind DEF ResolvePost, StorePost
<1>3. m.n \in 1..posted /\ m = Post(m.n) /\ m \in Published
  <2>1. PICK i \in 1..Len(log) : m = log[i]
    BY <1>1, Places DEF Basics
  <2>2. m \in Published /\ m.n \in 1..MaxPosts /\ m = Message(m.type, m.n)
    BY <1>1, <1>2, Places, Kinds DEF Basics
  <2>3. m.n <= posted
    BY <1>1, <1>2, <2>1 DEF Basics, Logged
  <2> QED BY <1>1, <1>2, <2>2, <2>3, Bounds, Values DEF Post
<1>4. UNCHANGED <<reads, posted, log, me, heap, comp, promise, unread, lastReads>>
  BY DEF ResolvePost, StorePost, server, counters
<1>5. ASSUME StartUpdate(m, FALSE), posts' = posts \cup {m.n}, init' = init PROVE Support' /\ Owed'
  <2> DEFINE r == AwaitCompute(m, "counting")
  <2>1. /\ r \in Progress /\ r.shown = st[m].shown
        /\ r.pc = "counting" \/ (r.pc = "waiting" /\ promise # 0 /\ r.on = promise /\ r.next = "counting")
    BY <1>1, AwaitIs
  <2>2. st' = [st EXCEPT ![m] = [r EXCEPT !.old = FALSE]]
    BY <1>5 DEF StartUpdate
  <2> HIDE DEF r
  <2>3. st'[m] = [r EXCEPT !.old = FALSE] /\ \A o \in Messages \ {m} : st'[o] = st[o]
    BY <1>1, <2>2
  <2>4. /\ st'[m].pc = r.pc /\ st'[m].shown = r.shown /\ ~st'[m].old
        /\ st'[m].on = r.on /\ st'[m].next = r.next
    BY <2>1, <2>3 DEF Progress
  <2>5. Proceeds(m)
    BY <1>2, <2>1, <2>4 DEF Proceeds, EarlyStages
  <2>6. Onward
    BY <1>1, <1>4, <2>3, <2>5, OneProceeds
  <2>7. Fresh'
    <3>1. posted' = posted /\ Published' = Published /\ comp' = comp
      BY <1>1, <1>4, <2>6, OnwardProcessed
    <3>2. ASSUME NEW n \in posts', Post(n) \in Published PROVE st'[Post(n)].pc \notin EarlyStages
      <4>1. CASE n = m.n
        BY <1>3, <2>1, <2>4, <4>1 DEF EarlyStages
      <4>2. CASE n \in posts
        <5>1. Post(n) \in Messages
          BY <1>1, <3>2, PostsAreMessages
        <5>2. st[Post(n)].pc \notin EarlyStages
          BY <1>1, <3>2, <4>2 DEF Fresh
        <5> QED BY <2>6, <5>1, <5>2 DEF Onward, Proceeds
      <4> QED BY <1>5, <3>2, <4>1, <4>2
    <3>3. \A o \in Messages : o.type = "post" => ~st'[o].old
      BY <2>6, OnwardKeeps
    <3> QED BY <1>1, <1>3, <1>5, <3>1, <3>2, <3>3 DEF Fresh
  <2>8. Prepared'
    BY <1>1, <1>4, <1>5 DEF Prepared
  <2> QED BY <1>4, <2>6, <2>7, <2>8, OnwardKeeps, OnwardCovers, SameReadsOn DEF Framework, Support
<1>6. CASE ResolvePost(m) /\ m.n \in posts
  <2>1. st[m].pc = "ready"
    BY <1>6 DEF ResolvePost
  <2> QED BY <1>1, <1>3, <1>6, <2>1 DEF Fresh, EarlyStages
<1>7. CASE ResolvePost(m) /\ m.n \notin posts /\ init = "yes"
  BY <1>5, <1>7 DEF ResolvePost
<1>8. CASE ResolvePost(m) /\ m.n \notin posts /\ init # "yes"
  <2>1. /\ Move(m, "init") /\ posts' = posts /\ st[m].pc = "ready"
        /\ init' = IF init = "no" THEN "pending" ELSE init
    BY <1>1, <1>8 DEF ResolvePost
  <2>2. "init" \in Stages
    BY DEF Stages
  <2>3. Proceeds(m)
    BY <1>1, <2>1, <2>2, MoveProceeds DEF EarlyStages
  <2>4. \A o \in Messages \ {m} : st'[o] = st[o]
    BY <1>1, <1>8, ResolvePostBasics
  <2> QED BY <1>4, <2>1, <2>3, <2>4, OneProceeds, OnwardQuietly
<1>9. CASE StorePost(m)
  BY <1>1, <1>5, <1>9 DEF StorePost
<1> QED BY <1>6, <1>7, <1>8, <1>9

\* A batch that is delivered.
LEMMA BatchGoesOn ==
    ASSUME Sure, Deliver
    PROVE  Support' /\ Owed'
<1>1. Basics /\ Fresh
  BY SureFacts DEF Support
<1>2. st \in [Messages -> Progress]
  BY <1>1, Typed DEF Basics, Types
<1>3. PICK size \in 1..MaxBatch :
        LET batch == (delivered + 1)..(delivered + size)
        IN  /\ batch \in SUBSET (1..Len(log))
            /\ \A i \in batch :
                LET b == BlockedBy(batch, i)
                IN  st'[log[i]].pc = IF b = 0 THEN "ready" ELSE "blocked"
            /\ \A m \in Messages : m \notin {log[i] : i \in batch} => st'[m] = st[m]
  BY <1>1, DeliverGives
<1> DEFINE batch == (delivered + 1)..(delivered + size)
<1>4. \A m \in Messages : st'[m].shown = st[m].shown /\ st'[m].old = st[m].old
  <2>1. PICK s \in 1..MaxBatch :
          st' = [m \in Messages |->
                  IF m \in {log[i] : i \in (delivered + 1)..(delivered + s)}
                  THEN LET b == BlockedBy((delivered + 1)..(delivered + s), Position(m))
                       IN  [st[m] EXCEPT !.pc = IF b = 0 THEN "ready" ELSE "blocked", !.on = b]
                  ELSE st[m]]
    BY DEF Deliver
  <2> DEFINE new == {log[i] : i \in (delivered + 1)..(delivered + s)}
             by == [m \in Messages |-> BlockedBy((delivered + 1)..(delivered + s), Position(m))]
  <2>2. \A m \in Messages : by[m] = BlockedBy((delivered + 1)..(delivered + s), Position(m))
    OBVIOUS
  <2> HIDE DEF by
  <2>3. st' = [m \in Messages |-> IF m \in new
                             THEN [st[m] EXCEPT !.pc = IF by[m] = 0 THEN "ready" ELSE "blocked", !.on = by[m]]
                             ELSE st[m]]
    BY <2>1, <2>2
  <2> HIDE DEF new
  <2> QED BY <1>2, <2>3 DEF Progress
<1>5. \A i \in batch : st'[log[i]].pc \in {"ready", "blocked"} /\ st[log[i]].pc = "none" /\ log[i] \in Messages
  <2>1. \A i \in batch : st'[log[i]].pc \in {"ready", "blocked"}
    BY <1>3
  <2>2. \A i \in batch : i \in 1..Len(log) /\ i \notin 1..delivered
    BY <1>1, <1>3, Values
  <2>3. \A i \in batch : log[i] \notin Arrived /\ log[i] \in Messages
    BY <1>1, <2>2, Places, Values DEF Basics, Logged
  <2>4. \A i \in batch : st[log[i]].pc = "none"
    BY <1>1, <2>3 DEF Basics, Staged, StagedMessage
  <2> QED BY <2>1, <2>3, <2>4
<1> HIDE DEF batch
<1>6. \A m \in Messages : Proceeds(m)
  <2> SUFFICES ASSUME NEW m \in Messages PROVE Proceeds(m)
    OBVIOUS
  <2>1. CASE \E i \in batch : m = log[i]
    BY <1>1, <1>4, <1>5, <2>1 DEF Proceeds, EarlyStages, Fresh
  <2>2. CASE ~\E i \in batch : m = log[i]
    <3>1. st'[m] = st[m]
      BY <1>3, <2>2 DEF batch
    <3> QED BY <1>1, <3>1 DEF Proceeds, Fresh
  <2> QED BY <2>1, <2>2
<1>7. UNCHANGED <<reads, posted, log, me, heap, comp, promise, unread, lastReads, posts, init>>
  BY DEF Deliver, server, cached, counters
<1>8. Onward
  BY <1>6, <1>7 DEF Onward, SameCore
<1> QED BY <1>7, <1>8, OnwardQuietly

\* What a request caches is of messages that have come, or will not.
LEMMA FreshGrows ==
    ASSUME Sure, Mild', NEW answer \in SUBSET (1..posted), CachePosts(answer), UNCHANGED <<posted, log, st>>,
           \A c \in Computes : comp'[c].read \subseteq 1..posted
    PROVE  Fresh'
<1>1. Basics /\ Fresh
  BY SureFacts DEF Support
<1>2. \A n \in answer : Post(n) \in Published => st[Post(n)].pc \notin EarlyStages
  <2> DEFINE u == \E n \in answer : Post(n) \in Published /\ st[Post(n)].pc \in EarlyStages
  <2>1. ahead' = (ahead \/ u) /\ ~ahead'
    BY DEF CachePosts, Mild, Post, EarlyStages
  <2>2. ~u
    <3> HIDE DEF u
    <3> QED BY <2>1
  <2> QED BY <2>2
<1>3. posts' = posts \cup answer /\ Published' = Published
  BY DEF CachePosts, Published
<1> QED BY <1>1, <1>2, <1>3 DEF Fresh

\* The answer that initialises a stream.
LEMMA InitGoesOn ==
    ASSUME Sure, Mild', InitAnswer
    PROVE  Support' /\ Owed'
<1>1. Basics /\ Fresh /\ Prepared
  BY SureFacts DEF Support
<1>2. init = "pending" /\ init' = "yes" /\ CachePosts(1..posted)
  BY NoneFails DEF InitAnswer
<1>3. UNCHANGED <<reads, posted, log, st, me, heap, comp, promise, unread, lastReads>>
  BY DEF InitAnswer, server, counters
<1>4. Onward
  BY <1>1, <1>3 DEF Onward, SameCore, Proceeds, Fresh
<1>5. \A c \in Computes : comp'[c].read \subseteq 1..posted
  BY <1>1, <1>3 DEF Fresh
<1>6. Fresh' /\ Prepared'
  BY <1>1, <1>2, <1>3, <1>5, FreshGrows DEF Prepared
<1> QED BY <1>3, <1>4, <1>6, OnwardKeeps, OnwardCovers, SameReadsOn DEF Framework, Support

--------------------------------------------------------------------------------
(* The computation under way. *)

\* A computation that reads on keeps everything, if the cached posts are fresh.
LEMMA CoreGoesOn ==
    ASSUME Sure, NEW c \in Computes, comp[c].pc \in InCore, comp'[c].pc \in InCore,
           comp'[c].object = comp[c].object, \A d \in Computes \ {c} : comp'[d] = comp[d],
           UNCHANGED <<reads, posted, log, st, me, heap, promise, unread, lastReads>>,
           Fresh', init' = "no" => init = "no", comp'[c].pc = "posts" => init' # "no",
           Mark # Unset => \A n \in Unread : WillRead(c, n) => WillRead(c, n)'
    PROVE  Support' /\ Owed'
<1>1. Basics /\ Alone /\ Fresh /\ Prepared
  BY SureFacts DEF Support
<1>2. Onward
  BY <1>1 DEF Onward, SameCore, Proceeds, Fresh
<1>3. promise = c
  BY <1>1 DEF Alone
<1>4. ReadsOn
  BY <1>3 DEF ReadsOn
<1>5. Prepared'
  BY <1>1 DEF Prepared
<1> QED BY <1>2, <1>4, <1>5, OnwardKeeps, OnwardCovers DEF Framework, Support

\* What is known of the computation under way.
LEMMA CoreIs ==
    ASSUME Sure, NEW c \in Computes
    PROVE  /\ Basics /\ Fresh /\ Prepared /\ comp \in [Computes -> Computing] /\ comp[c] \in Computing
           /\ \A d \in Computes : comp[d].read \subseteq 1..posted
           /\ posted \in Nat /\ Mark \in Int
  BY SureFacts, Typed, Values, MarkFacts DEF Support, Fresh, Basics, Types, Others

\* The server's answer to a computation.
LEMMA AskingGoesOn ==
    ASSUME Sure, NEW c \in Computes, ServerAnswersUnread(c)
    PROVE  Support' /\ Owed'
<1>1. comp[c].pc = "unread" /\ comp[c].pc \in InCore
  BY DEF ServerAnswersUnread, InCore
<1>2. /\ Basics /\ Fresh /\ comp \in [Computes -> Computing] /\ comp[c] \in Computing
      /\ \A d \in Computes : comp[d].read \subseteq 1..posted
  BY CoreIs
<1> DEFINE pc == IF reads[Current] = Unset THEN "nothing" ELSE "something"
<1>3. comp' = [comp EXCEPT ![c] = [comp[c] EXCEPT !.pc = pc]]
  BY DEF ServerAnswersUnread
<1>4. pc \in InCore /\ pc \in {"nothing", "something"}
  BY DEF InCore
<1>5. Mark # Unset => pc = "something"
  BY DEF Mark
<1> HIDE DEF pc
<1>6. comp'[c] = [comp[c] EXCEPT !.pc = pc] /\ \A d \in Computes \ {c} : comp'[d] = comp[d]
  BY <1>2, <1>3
<1>7. comp'[c].pc = pc /\ comp'[c].object = comp[c].object /\ comp'[c].read = comp[c].read
  BY <1>2, <1>6 DEF Computing
<1>8. UNCHANGED <<reads, posted, log, st, me, heap, promise, unread, lastReads, posts, init>>
  BY DEF ServerAnswersUnread, server, cached
<1>9. \A d \in Computes : comp'[d].read \subseteq 1..posted
  BY <1>2, <1>6, <1>7
<1>10. Onward
  BY <1>1, <1>2, <1>4, <1>6, <1>7, <1>8 DEF Onward, SameCore, Proceeds, Fresh
<1>11. Fresh'
  BY <1>8, <1>9, <1>10, FreshStays
<1>12. ASSUME Mark # Unset, NEW n \in Unread, WillRead(c, n) PROVE WillRead(c, n)'
  <2>1. Reaches(heap[comp[c].object])
    BY <1>1, <1>12 DEF WillRead
  <2>2. Mark' = Mark
    BY <1>8 DEF Mark, Current
  <2>3. Reaches(heap[comp[c].object])'
    BY <1>7, <1>8, <2>1, <2>2 DEF Reaches
  <2> QED BY <1>5, <1>7, <1>12, <2>3 DEF WillRead
<1> QED BY <1>1, <1>4, <1>6, <1>7, <1>8, <1>11, <1>12, CoreGoesOn

\* A computation that reads the answer.
LEMMA AnswerGoesOn ==
    ASSUME Sure, NEW c \in Computes, UnreadAnswer(c)
    PROVE  Support' /\ Owed'
<1>1. comp[c].pc \in {"nothing", "something"} /\ comp[c].pc \in InCore
  BY DEF UnreadAnswer, InCore
<1>2. /\ Basics /\ Fresh /\ comp \in [Computes -> Computing] /\ comp[c] \in Computing
      /\ \A d \in Computes : comp[d].read \subseteq 1..posted
  BY CoreIs
<1> DEFINE from == IF comp[c].pc = "nothing" THEN Unset ELSE heap[comp[c].object]
           pc == IF from = Unset THEN "count" ELSE "posts"
<1>3. /\ comp' = [comp EXCEPT ![c] = [[comp[c] EXCEPT !.pc = pc] EXCEPT !.from = from]]
      /\ init' = IF from # Unset /\ init = "no" THEN "pending" ELSE init
  BY DEF UnreadAnswer
<1>4. /\ pc \in InCore /\ pc \in {"count", "posts"} /\ (pc = "count" <=> from = Unset)
      /\ comp[c].pc = "something" => from = heap[comp[c].object]
  BY DEF InCore
<1> HIDE DEF pc, from
<1>5. comp'[c] = [[comp[c] EXCEPT !.pc = pc] EXCEPT !.from = from] /\ \A d \in Computes \ {c} : comp'[d] = comp[d]
  BY <1>2, <1>3
<1>6. /\ comp'[c].pc = pc /\ comp'[c].object = comp[c].object /\ comp'[c].from = from
      /\ comp'[c].read = comp[c].read
  BY <1>2, <1>5 DEF Computing
<1>7. UNCHANGED <<reads, posted, log, st, me, heap, promise, unread, lastReads, posts>>
  BY DEF UnreadAnswer, server
<1>8. \A d \in Computes : comp'[d].read \subseteq 1..posted
  BY <1>2, <1>5, <1>6
<1>9. Onward
  BY <1>1, <1>2, <1>4, <1>5, <1>6, <1>7 DEF Onward, SameCore, Proceeds, Fresh
<1>10. Fresh'
  BY <1>7, <1>8, <1>9, FreshStays
<1>11. ASSUME Mark # Unset, NEW n \in Unread, WillRead(c, n) PROVE WillRead(c, n)'
  <2>1. comp[c].pc = "something" /\ Reaches(heap[comp[c].object])
    BY <1>1, <1>11 DEF WillRead
  <2>2. Mark' = Mark
    BY <1>7 DEF Mark, Current
  <2>3. pc = "posts" /\ Reaches(comp[c].from)'
    BY <1>4, <1>6, <2>1, <2>2 DEF Reaches
  <2> QED BY <1>6, <2>3 DEF WillRead
<1>12. (init' = "no" => init = "no") /\ (pc = "posts" => init' # "no")
  BY <1>3, <1>4
<1> QED BY <1>1, <1>4, <1>5, <1>6, <1>7, <1>10, <1>11, <1>12, CoreGoesOn

\* A computation that cuts the unread posts out of the cache.
LEMMA ReadingGoesOn ==
    ASSUME Sure, NEW c \in Computes, PostsRead(c)
    PROVE  Support' /\ Owed'
<1>1. comp[c].pc = "posts" /\ comp[c].pc \in InCore /\ init # "pending"
  BY DEF PostsRead, InCore
<1>2. /\ Basics /\ Fresh /\ Prepared /\ comp \in [Computes -> Computing] /\ comp[c] \in Computing
      /\ \A d \in Computes : comp[d].read \subseteq 1..posted
      /\ posted \in Nat /\ Mark \in Int
  BY CoreIs
<1>3. init = "yes" /\ MarksAreBehind /\ AllCachedOrCome
  <2>1. init # "failed" /\ init # "no" /\ MarksAreBehind /\ AllCachedOrCome
    BY <1>1, <1>2, SureFacts DEF Prepared
  <2>2. init \in {"no", "pending", "yes", "failed"}
    BY <1>2, Typed DEF Basics, Types, Others
  <2> QED BY <1>1, <2>1, <2>2
<1>4. comp[c].from # Unset /\ comp[c].from \in Int /\ comp[c].from + 1 \in 1..posted
  <2>1. comp[c].from # Unset
    BY <1>1, <1>2 DEF Basics, Staged, StagedComputation
  <2> QED BY <1>1, <1>2, <1>3, <2>1, Values DEF MarksAreBehind, IsMark
<1> DEFINE first == FirstUnread(comp[c].from)
           latest == CHOOSE n \in posts : \A k \in posts : k <= n
           pc == IF posts = {} \/ first \in posts THEN "count" ELSE "page"
           read == IF posts = {} THEN {} ELSE IF first \in posts THEN {n \in posts : n >= first} ELSE first..latest
<1>5. first = comp[c].from + 1
  BY DEF FirstUnread
<1>6. comp' = [comp EXCEPT ![c] = [[comp[c] EXCEPT !.pc = pc] EXCEPT !.read = read]]
  <2>1. CASE posts = {}
    <3>1. comp' = [comp EXCEPT ![c].pc = "count", ![c].read = {}]
      BY <2>1 DEF PostsRead
    <3> QED BY <2>1, <3>1
  <2>2. CASE posts # {}
    <3>1. comp' = [comp EXCEPT ![c].pc = IF first \in posts THEN "count" ELSE "page",
                               ![c].read = IF first \in posts THEN {n \in posts : n >= first} ELSE first..latest]
      BY <1>3, <2>2 DEF PostsRead
    <3>2. pc = (IF first \in posts THEN "count" ELSE "page")
      BY <2>2
    <3>3. read = (IF first \in posts THEN {n \in posts : n >= first} ELSE first..latest)
      BY <2>2
    <3> HIDE DEF pc, read, first, latest
    <3> QED BY <3>1, <3>2, <3>3
  <2> QED BY <2>1, <2>2
<1>7. posts # {} => latest \in posts /\ \A k \in posts : k <= latest
  <2>1. posts # {} => \E n \in posts : \A k \in posts : k <= n
    BY <1>2, HasLast DEF Fresh
  <2> QED BY <2>1
<1>8. posts \subseteq 1..posted
  BY <1>2 DEF Fresh
<1>9. pc \in {"count", "page"} /\ pc \in InCore /\ read \subseteq 1..posted
  <2>1. pc \in {"count", "page"} /\ pc \in InCore
    BY DEF InCore
  <2>2. posts # {} => first..latest \subseteq 1..posted
    <3>1. first \in Int /\ 1 <= first
      BY <1>2, <1>4, <1>5
    <3> HIDE DEF latest, first
    <3>2. posts # {} => latest \in 1..posted
      BY <1>7, <1>8
    <3> QED BY <1>2, <3>1, <3>2
  <2> HIDE DEF latest, first
  <2> QED BY <1>8, <2>1, <2>2
<1>10. ASSUME NEW n \in Unread, Reaches(comp[c].from) PROVE n \in read
  <2>1. n \in Processed /\ n \in 1..posted /\ n > Mark /\ comp[c].from <= Mark
    BY <1>10 DEF Unread, Above, Processed, Reaches
  <2>2. n \in posts
    BY <1>3, <2>1 DEF Processed, AllCachedOrCome, CachedOrComes, Post
  <2>3. n >= first /\ first \in Int /\ n \in Int
    BY <1>2, <1>4, <1>5, <2>1
  <2>4. n <= latest /\ latest \in Int
    <3>1. latest \in posts /\ n <= latest
      <4> HIDE DEF latest
      <4> QED BY <1>7, <2>2
    <3>2. \A k \in posts : k \in Int
      BY <1>2, <1>8
    <3> HIDE DEF latest
    <3> QED BY <3>1, <3>2
  <2>5. CASE first \in posts
    BY <2>2, <2>3, <2>5
  <2>6. CASE first \notin posts
    <3>1. n \in first..latest
      <4> HIDE DEF latest, first
      <4> QED BY <2>3, <2>4
    <3> QED BY <2>2, <2>6, <3>1
  <2> QED BY <2>5, <2>6
<1> HIDE DEF pc, read
<1>11. /\ comp'[c] = [[comp[c] EXCEPT !.pc = pc] EXCEPT !.read = read]
       /\ \A d \in Computes \ {c} : comp'[d] = comp[d]
  BY <1>2, <1>6
<1>12. comp'[c].pc = pc /\ comp'[c].read = read /\ comp'[c].object = comp[c].object
  BY <1>2, <1>11 DEF Computing
<1>13. UNCHANGED <<reads, posted, log, st, me, heap, promise, unread, lastReads, posts, init>>
  BY DEF PostsRead, server, cached
<1>14. \A d \in Computes : comp'[d].read \subseteq 1..posted
  BY <1>2, <1>9, <1>11, <1>12
<1>15. Onward
  BY <1>1, <1>2, <1>9, <1>11, <1>12, <1>13 DEF Onward, SameCore, Proceeds, Fresh
<1>16. Fresh'
  BY <1>13, <1>14, <1>15, FreshStays
<1>17. ASSUME NEW n \in Unread, WillRead(c, n) PROVE WillRead(c, n)'
  <2>1. Reaches(comp[c].from)
    BY <1>1, <1>17 DEF WillRead
  <2>2. n \in comp'[c].read
    BY <1>10, <1>12, <2>1
  <2> QED BY <1>9, <1>12, <2>2 DEF WillRead
<1> QED BY <1>1, <1>9, <1>11, <1>12, <1>13, <1>16, <1>17, CoreGoesOn

\* A computation that fetches the page in between.
LEMMA FetchingGoesOn ==
    ASSUME Sure, Mild', NEW c \in Computes, PageAnswer(c)
    PROVE  Support' /\ Owed'
<1>1. comp[c].pc = "page" /\ comp[c].pc \in InCore
  BY DEF PageAnswer, InCore
<1>2. /\ Basics /\ Fresh /\ comp \in [Computes -> Computing] /\ comp[c] \in Computing
      /\ \A d \in Computes : comp[d].read \subseteq 1..posted
  BY CoreIs
<1>3. comp' = [comp EXCEPT ![c].pc = "count"] /\ CachePosts(comp[c].read)
  BY NoneFails DEF PageAnswer
<1>4. comp'[c] = [comp[c] EXCEPT !.pc = "count"] /\ \A d \in Computes \ {c} : comp'[d] = comp[d]
  BY <1>2, <1>3
<1>5. /\ comp'[c].pc = "count" /\ "count" \in InCore /\ comp'[c].read = comp[c].read
      /\ comp'[c].object = comp[c].object
  BY <1>2, <1>4 DEF Computing, InCore
<1>6. UNCHANGED <<reads, posted, log, st, me, heap, promise, unread, lastReads, init>>
  BY DEF PageAnswer, server
<1>7. comp[c].read \subseteq 1..posted /\ \A d \in Computes : comp'[d].read \subseteq 1..posted
  BY <1>2, <1>4, <1>5
<1>8. Fresh'
  BY <1>3, <1>6, <1>7, FreshGrows
<1>9. ASSUME NEW n \in Unread, WillRead(c, n) PROVE WillRead(c, n)'
  <2>1. n \in comp'[c].read
    BY <1>1, <1>5, <1>9 DEF WillRead
  <2> QED BY <1>5, <2>1 DEF WillRead
<1> QED BY <1>1, <1>4, <1>5, <1>6, <1>8, <1>9, CoreGoesOn

\* A computation that is over has counted what it read.
LEMMA FinishGoesOn ==
    ASSUME Sure, NEW c \in Computes, ComputeFinish(c)
    PROVE  Support' /\ Owed'
<1>1. comp[c].pc = "count" /\ comp[c].pc \in InCore
  BY DEF ComputeFinish, InCore
<1>2. /\ Basics /\ Support /\ Owed /\ comp \in [Computes -> Computing]
      /\ comp[c].read \subseteq 1..posted /\ posted \in Nat /\ unread \in Nat
  BY CoreIs, SureFacts, Values
<1>3. promise = c /\ c # 0 /\ comp[c].object \in Objects
  BY <1>1, <1>2, Values DEF Support, Alone
<1>4. /\ comp' = [comp EXCEPT ![c] = [Idling EXCEPT !.pc = "done"]]
      /\ unread' = unread + Cardinality(comp[c].read) /\ lastReads' = comp[c].object /\ promise' = 0
  BY DEF ComputeFinish
<1>5. comp'[c].pc = "done" /\ comp'[c].read = {} /\ \A d \in Computes \ {c} : comp'[d] = comp[d]
  BY <1>2, <1>4 DEF Idling
<1>6. UNCHANGED <<reads, posted, log, st, me, heap, posts, init>> /\ Current' = Current /\ Mark' = Mark
  BY DEF ComputeFinish, server, cached, Current, Mark
<1>7. Published' = Published /\ Processed' = Processed /\ Unread' = Unread
  BY <1>2, <1>6, ProcessedStays DEF Unread
<1>8. \A d \in Computes : comp'[d].pc \notin InCore
  BY <1>2, <1>3, <1>5 DEF Support, Alone, InCore
<1>9. \A d \in Computes : comp'[d].pc = "waiting" => comp[d].pc = "waiting" /\ comp'[d] = comp[d]
  BY <1>5
<1>10. \A d \in Computes : comp[d].pc \in InCore \cup {"done"} => comp'[d].pc = "done"
  BY <1>2, <1>3, <1>5 DEF Support, Alone
<1>11. /\ Awaiting <=> Awaiting'
       /\ \A d \in Computes : comp[d].pc = "waiting" => comp'[d] = comp[d]
  BY <1>1, <1>5, <1>9 DEF Awaiting, InCore
<1>12. Once'
  BY <1>1, <1>2, <1>5, <1>6 DEF Support, Once, InCore
<1>13. ShownAreMarks'
  BY <1>2, <1>6 DEF Support, ShownAreMarks
<1>14. Alone'
  <2>1. ASSUME NEW d \in Computes, comp'[d].pc = "waiting" PROVE comp'[comp'[d].on].pc \in InCore \cup {"done"}
    <3>1. comp[d].pc = "waiting" /\ comp'[d] = comp[d] /\ comp[d].on \in Computes
      BY <1>2, <1>9, <2>1 DEF Basics, Staged, StagedComputation
    <3> QED BY <1>2, <1>10, <3>1 DEF Support, Alone
  <2>2. ASSUME NEW m \in Messages, st'[m].pc = "waiting" PROVE comp'[st'[m].on].pc \in InCore \cup {"done"}
    <3>1. st[m].pc = "waiting" /\ st'[m] = st[m] /\ st[m].on \in Computes
      BY <1>2, <1>6, <2>2 DEF Basics, Staged, StagedMessage, Fits
    <3> QED BY <1>2, <1>10, <3>1 DEF Support, Alone
  <2>3. \A d, e \in Computes : comp'[d].pc = "waiting" /\ comp'[e].pc = "waiting" => d = e
    BY <1>2, <1>9 DEF Support, Alone
  <2> QED BY <1>4, <1>8, <2>1, <2>2, <2>3 DEF Alone
<1>15. Fresh'
  BY <1>2, <1>5, <1>6, <1>7 DEF Support, Fresh
<1>16. Prepared'
  BY <1>8 DEF Prepared, InCore
<1>17. NoneEarly' /\ NewMarkIsNowhere'
  BY <1>2, <1>6 DEF Support, NoneEarly, NewMarkIsNowhere
<1>18. ASSUME NEW o, IsLast(o)' PROVE IsLast(o)
  <2>1. CASE \E d \in Computes : comp'[d].pc = "waiting" /\ comp'[d].object = o
    BY <1>9, <2>1 DEF IsLast
  <2>2. CASE ~Awaiting' /\ lastReads' = o
    BY <1>3, <1>4, <1>11, <2>2 DEF IsLast
  <2>3. CASE \E d \in Computes : promise' = d /\ comp'[d].object = o
    BY <1>2, <1>4, <2>3, Values
  <2> QED BY <1>18, <2>1, <2>2, <2>3 DEF IsLast
<1>19. Owed'
  <2> SUFFICES ASSUME Mark # Unset, MustBe' PROVE Covered'
    BY <1>6 DEF Owed
  <2>1. ~MarkMayBeSet'
    BY <1>4 DEF MarkMayBeSet
  <2>2. \A m : MayFindIt(m)' <=> MayFindIt(m)
    BY <1>6 DEF MayFindIt, OnItsWay, ShownSoon
  <2>3. MarkMayBeFound' => MarkMayBeFound
    BY <1>6, <1>18, <2>2 DEF MarkMayBeFound
  <2>4. Covered
    BY <1>2, <1>6, <2>1, <2>3 DEF Owed, MustBe
  <2>5. CASE Awaiting
    <3>1. PICK d \in Computes : comp[d].pc = "waiting" /\ Reaches(heap[comp[d].object])
      BY <2>4, <2>5 DEF Covered, WaitingReaches
    <3>2. comp'[d] = comp[d] /\ Reaches(heap[comp[d].object])'
      BY <1>6, <1>11, <3>1 DEF Reaches
    <3>3. WaitingReaches'
      BY <1>6, <3>1, <3>2 DEF WaitingReaches, Reaches
    <3> QED BY <1>11, <2>5, <3>3 DEF Covered
  <2>6. CASE ~Awaiting
    <3>1. PICK D \in SUBSET (1..posted) :
            /\ Cardinality(D) <= unread
            /\ \A n \in Unread : n \in D \/ (promise # 0 /\ WillRead(promise, n))
      BY <2>4, <2>6 DEF Covered, Counted
    <3>2. \A n \in Unread : n \in D \cup comp[c].read
      BY <1>1, <1>3, <3>1 DEF WillRead
    <3>3. IsFiniteSet(D) /\ IsFiniteSet(comp[c].read)
      <4>1. IsFiniteSet(1..posted)
        <5>1. posted \in Int /\ 1 \in Int
          BY <1>2
        <5> QED BY <5>1, FS_Interval
      <4> QED BY <1>2, <3>1, <4>1, FS_Subset
    <3>4. /\ Cardinality(D \cup comp[c].read) = Cardinality(D) + Cardinality(comp[c].read) - Cardinality(D \cap comp[c].read)
          /\ Cardinality(D) \in Nat /\ Cardinality(comp[c].read) \in Nat /\ Cardinality(D \cap comp[c].read) \in Nat
      <4>1. IsFiniteSet(D \cap comp[c].read)
        BY <3>3, FS_Intersection
      <4> QED BY <3>3, <4>1, FS_Union, FS_CardinalityType
    <3>5. Cardinality(D \cup comp[c].read) <= unread'
      BY <1>2, <1>4, <3>1, <3>4
    <3>6. D \cup comp[c].read \in SUBSET (1..posted')
      BY <1>2, <1>6, <3>1
    <3>7. Counted'
      BY <1>7, <3>2, <3>5, <3>6 DEF Counted
    <3> QED BY <1>11, <2>6, <3>7 DEF Covered
  <2> QED BY <2>5, <2>6
<1> QED BY <1>12, <1>13, <1>14, <1>15, <1>16, <1>17, <1>19 DEF Support

--------------------------------------------------------------------------------
(* A computation that starts. *)

\* When a computation starts and overlaps no other, it is alone.
LEMMA StartIs ==
    ASSUME Sure, Mild', NEW c \in Computes, NEW object \in Objects, StartCore(c, object),
           comp[c].pc \notin InCore
    PROVE  /\ comp'[c].pc = "unread" /\ comp'[c].object = object /\ comp'[c].read = {}
           /\ \A d \in Computes \ {c} : comp'[d] = comp[d] /\ comp[d].pc \notin InCore \cup {"waiting"}
           /\ promise = 0 /\ promise' = c /\ unread' = 0 /\ c # 0
           /\ ~Awaiting' /\ \A o : IsLast(o)' => o = object
<1>1. Basics /\ Alone /\ comp \in [Computes -> Computing] /\ c # 0
  BY SureFacts, Typed, Values DEF Basics, Types, Others, Support
<1>2. comp' = [comp EXCEPT ![c] = [Idling EXCEPT !.pc = "unread", !.object = object]] /\ promise' = c /\ unread' = 0
  BY DEF StartCore, ResetCounters
<1>3. comp'[c] = [Idling EXCEPT !.pc = "unread", !.object = object] /\ \A d \in Computes \ {c} : comp'[d] = comp[d]
  BY <1>1, <1>2
<1>4. comp'[c].pc = "unread" /\ comp'[c].object = object /\ comp'[c].read = {}
  BY <1>3 DEF Idling
<1> DEFINE u == \E d \in Computes \ {c} : comp[d].pc \in InCore \cup {"waiting"}
           w == \E m \in Arrived : st[m].pc \notin Ended /\ m.type = "post"
<1>5. overlap' = overlap \cup When(u, "computation") \cup When(w, "update") /\ "computation" \notin overlap'
  BY DEF StartCore, Mild
<1>6. ~u
  <2> HIDE DEF u, w
  <2> QED BY <1>5 DEF When
<1>7. \A d \in Computes \ {c} : comp[d].pc \notin InCore \cup {"waiting"}
  BY <1>6
<1>8. promise = 0
  BY <1>1, <1>7, Values DEF Alone
<1>9. ~Awaiting'
  BY <1>3, <1>4, <1>7 DEF Awaiting
<1>10. ASSUME NEW o, IsLast(o)' PROVE o = object
  BY <1>1, <1>2, <1>4, <1>9, <1>10 DEF IsLast, Awaiting
<1> QED BY <1>1, <1>2, <1>3, <1>4, <1>7, <1>8, <1>9, <1>10

\* A computation that goes on after the one it waited for.
LEMMA ResumingGoesOn ==
    ASSUME Sure, Mild', NEW c \in Computes, ComputeResumes(c)
    PROVE  Support' /\ Owed'
<1>1. comp[c].pc = "waiting" /\ Settles(comp[c].on) /\ comp[c].pc \notin InCore
  BY DEF ComputeResumes, InCore
<1>2. /\ Basics /\ ServerOrder /\ Support /\ Owed /\ \A d \in Computes : comp[d].pc # "failed"
      /\ comp[c].object \in Objects /\ posted \in Nat /\ unread \in Nat
  BY SureFacts, Values
<1>3. comp[c].on \in Computes
  BY <1>1, <1>2 DEF Basics, Staged, StagedComputation
<1>4. comp[comp[c].on].pc = "done"
  BY <1>1, <1>2, <1>3 DEF Settles
<1> DEFINE object == comp[c].object
<1>5. StartCore(c, object) /\ UNCHANGED <<reads, posted, log, st, me, heap, posts, init, lastReads>>
  BY <1>4 DEF ComputeResumes, server, cached
<1>6. object \in Objects
  BY <1>2
<1> HIDE DEF object
<1>7. /\ comp'[c].pc = "unread" /\ comp'[c].object = object /\ comp'[c].read = {}
      /\ \A d \in Computes \ {c} : comp'[d] = comp[d] /\ comp[d].pc \notin InCore \cup {"waiting"}
      /\ promise = 0 /\ promise' = c /\ unread' = 0 /\ c # 0
      /\ ~Awaiting' /\ \A o : IsLast(o)' => o = object
  BY <1>1, <1>5, <1>6, StartIs
<1>8. Current' = Current /\ Mark' = Mark /\ Published' = Published
  BY <1>5 DEF Current, Mark, Published
<1>9. Once'
  BY <1>1, <1>2, <1>5, <1>7 DEF Support, Once
<1>10. ShownAreMarks'
  BY <1>2, <1>5 DEF Support, ShownAreMarks
<1>11. \A m \in Messages : st[m].pc = "waiting" => st[m].on # c /\ comp'[st[m].on].pc \in InCore \cup {"done"}
  <2> SUFFICES ASSUME NEW m \in Messages, st[m].pc = "waiting"
               PROVE  st[m].on # c /\ comp'[st[m].on].pc \in InCore \cup {"done"}
    OBVIOUS
  <2>1. st[m].on \in Computes /\ comp[st[m].on].pc \in InCore \cup {"done"}
    BY <1>2 DEF Basics, Staged, StagedMessage, Fits, Support, Alone
  <2>2. st[m].on # c
    BY <1>1, <2>1
  <2> QED BY <1>7, <2>1, <2>2
<1>12. Alone'
  <2>1. comp'[promise'].pc \in InCore
    BY <1>7 DEF InCore
  <2>2. \A d \in Computes : comp'[d].pc \in InCore => promise' = d
    BY <1>7
  <2>3. \A d \in Computes : comp'[d].pc # "waiting"
    BY <1>7
  <2> QED BY <1>5, <1>11, <2>1, <2>2, <2>3 DEF Alone
<1>13. Fresh'
  BY <1>2, <1>5, <1>7, <1>8 DEF Support, Fresh
<1>14. Prepared'
  BY <1>2, <1>5, <1>7 DEF Support, Prepared
<1>15. NoneEarly' /\ NewMarkIsNowhere'
  BY <1>2, <1>5, <1>8 DEF Support, NoneEarly, NewMarkIsNowhere
<1>16. Owed'
  <2> SUFFICES ASSUME Mark # Unset, MustBe' PROVE Covered'
    BY <1>8 DEF Owed
  <2>1. ~MarkMayBeSet'
    BY <1>5, <1>7, <1>11 DEF MarkMayBeSet
  <2>2. \A m : MayFindIt(m)' <=> MayFindIt(m)
    BY <1>5, <1>8 DEF MayFindIt, OnItsWay, ShownSoon
  <2>3. IsLast(object)
    BY <1>1 DEF IsLast, object
  <2>4. MarkMayBeFound' => MarkMayBeFound
    BY <1>5, <1>7, <1>8, <2>2, <2>3 DEF MarkMayBeFound
  <2>5. Covered /\ Awaiting
    BY <1>1, <1>2, <1>5, <1>8, <2>1, <2>4 DEF Owed, MustBe, Awaiting
  <2>6. PICK d \in Computes : comp[d].pc = "waiting" /\ Reaches(heap[comp[d].object])
    BY <2>5 DEF Covered, WaitingReaches
  <2>7. d = c
    BY <1>1, <1>2, <2>6 DEF Support, Alone
  <2>8. Reaches(heap[comp[c].object])'
    BY <1>5, <1>7, <1>8, <2>6, <2>7 DEF Reaches, object
  <2>9. \A n : WillRead(promise, n)'
    BY <1>7, <2>8 DEF WillRead
  <2>10. {} \in SUBSET (1..posted') /\ Cardinality({}) <= unread'
    BY <1>7, FS_EmptySet
  <2>11. Counted'
    BY <1>7, <2>9, <2>10 DEF Counted
  <2> QED BY <1>7, <2>11 DEF Covered
<1> QED BY <1>9, <1>10, <1>12, <1>13, <1>14, <1>15, <1>16 DEF Support

--------------------------------------------------------------------------------
(* A post is counted. *)

\* What a message that is processed at the end of an idle event loop tells.
LEMMA CountIs ==
    ASSUME Sure, NEW m \in Arrived, Count(m)
    PROVE  /\ Idle /\ m.type = "post" /\ m = Post(m.n) /\ m.n \in 1..posted /\ m \in Published /\ m \in Messages
           /\ st[m].pc = "counting" /\ st'[m].pc = "done" /\ st'[m].shown \in {st[m].shown, Unset} /\ ~st'[m].old
           /\ \A o \in Messages \ {m} : st'[o] = st[o]
           /\ unread' = unread + 1
           /\ heap'[lastReads] = IF heap[lastReads] = Unset THEN m.n - 1 ELSE heap[lastReads]
           /\ \A o \in Objects \ {lastReads} : heap'[o] = heap[o]
           /\ UNCHANGED <<reads, posted, log, me, posts, init, comp, promise, lastReads>>
<1>1. Basics /\ Ordered /\ Fresh /\ failures = 0 /\ NoneFailed /\ m \in Messages
  BY SureFacts, OfKind DEF Support
<1>2. Idle /\ st[m].pc = "counting" /\ m.type = "post" /\ ~st[m].old
  BY <1>1, OfKind DEF Count, Fresh
<1>3. Target \in known
  BY <1>1, <1>2, CountedInKnown
<1>4. /\ Move(m, "done") /\ unread' = unread + 1
      /\ heap' = [heap EXCEPT ![lastReads] = IF heap[lastReads] = Unset THEN m.n - 1 ELSE heap[lastReads]]
      /\ UNCHANGED <<reads, posted, log, me, posts, init, comp, promise, lastReads>>
  BY <1>2, <1>3 DEF Count, server, cached
<1>5. "done" \in Stages /\ "done" \in Ended
  BY DEF Stages, Ended
<1>6. st'[m].shown \in {st[m].shown, Unset}
  BY <1>1, <1>4, <1>5, MoveShows
<1>7. st'[m].pc = "done" /\ \A o \in Messages \ {m} : st'[o] = st[o]
  BY <1>1, <1>3, CountBasics
<1>8. ~st'[m].old
  <2>1. st \in [Messages -> Progress]
    BY <1>1, Typed DEF Basics, Types
  <2>2. st'[m] = [Quiet EXCEPT !.pc = "done"]
    BY <1>1, <1>4, <1>5, <2>1 DEF Move
  <2> QED BY <2>2 DEF Quiet
<1>9. m.n \in 1..posted /\ m = Post(m.n) /\ m \in Published
  <2>1. PICK i \in 1..Len(log) : m = log[i]
    BY <1>1, Places DEF Basics
  <2>2. m \in Published /\ m.n \in 1..MaxPosts /\ m = Message(m.type, m.n)
    BY <1>1, <1>2, Places, Kinds DEF Basics
  <2>3. m.n <= posted
    BY <1>1, <1>2, <2>1 DEF Basics, Logged
  <2> QED BY <1>1, <1>2, <2>2, <2>3, Bounds, Values DEF Post
<1>10. heap \in [Objects -> Unset..MaxPosts] /\ lastReads \in Objects
  BY <1>1, Typed DEF Basics, Types, Others
<1>11. /\ heap'[lastReads] = IF heap[lastReads] = Unset THEN m.n - 1 ELSE heap[lastReads]
       /\ \A o \in Objects \ {lastReads} : heap'[o] = heap[o]
  BY <1>4, <1>10
<1> QED BY <1>1, <1>2, <1>4, <1>6, <1>7, <1>8, <1>9, <1>11

\* What was processed, and what is unread, grows by the post.
LEMMA CountAdds ==
    ASSUME Sure, NEW m \in Arrived, Count(m)
    PROVE  /\ Mark' = Mark /\ Current' = Current /\ Published' = Published
           /\ (Awaiting' <=> Awaiting) /\ (\A o : IsLast(o)' <=> IsLast(o))
           /\ \A k \in 1..posted : st'[Post(k)].pc = "done" <=> st[Post(k)].pc = "done" \/ k = m.n
           /\ Unread' \subseteq Unread \cup {m.n}
<1>1. /\ m.type = "post" /\ m = Post(m.n) /\ m.n \in 1..posted /\ st'[m].pc = "done"
      /\ \A o \in Messages \ {m} : st'[o] = st[o]
      /\ UNCHANGED <<reads, posted, log, comp, promise, lastReads>>
  BY CountIs
<1>2. Mark' = Mark /\ Current' = Current /\ Published' = Published /\ (Awaiting' <=> Awaiting)
  BY <1>1 DEF Mark, Current, Published, Awaiting
<1>3. \A o : IsLast(o)' <=> IsLast(o)
  BY <1>1, <1>2 DEF IsLast
<1>4. \A k \in 1..posted : Post(k) \in Messages /\ Post(k).n = k
  BY SureFacts, PostsAreMessages
<1>5. \A k \in 1..posted : st'[Post(k)].pc = "done" <=> st[Post(k)].pc = "done" \/ k = m.n
  BY <1>1, <1>4
<1>6. Processed' \subseteq Processed \cup {m.n}
  BY <1>1, <1>2, <1>5 DEF Processed
<1>7. Unread' \subseteq Unread \cup {m.n}
  BY <1>2, <1>6 DEF Unread, Above
<1> QED BY <1>2, <1>3, <1>5, <1>7

\* What is covered stays so.
LEMMA CountCovers ==
    ASSUME Sure, NEW m \in Arrived, Count(m), Covered
    PROVE  Covered'
<1>1. /\ m.n \in 1..posted /\ unread' = unread + 1
      /\ heap'[lastReads] = IF heap[lastReads] = Unset THEN m.n - 1 ELSE heap[lastReads]
      /\ \A o \in Objects \ {lastReads} : heap'[o] = heap[o]
      /\ UNCHANGED <<posted, comp, promise>>
  BY CountIs
<1>2. Mark' = Mark /\ (Awaiting' <=> Awaiting) /\ Unread' \subseteq Unread \cup {m.n}
  BY CountAdds
<1>3. /\ posted \in Nat /\ unread \in Nat /\ \A c \in Computes : comp[c].object \in Objects
      /\ promise # 0 => promise \in Computes
  BY SureFacts, Values
<1>5. CASE Awaiting
  <2>1. PICK d \in Computes : comp[d].pc = "waiting" /\ Reaches(heap[comp[d].object])
    BY <1>5 DEF Covered, WaitingReaches
  <2>2. Reaches(heap[comp[d].object])'
    <3> DEFINE o == comp[d].object
    <3>1. o \in Objects /\ Reaches(heap[o])
      BY <1>3, <2>1
    <3>2. heap'[o] = heap[o]
      BY <1>1, <3>1 DEF Reaches
    <3> QED BY <1>1, <1>2, <3>1, <3>2 DEF Reaches
  <2>3. WaitingReaches'
    BY <1>1, <2>1, <2>2 DEF WaitingReaches
  <2> QED BY <1>2, <1>5, <2>3 DEF Covered
<1>6. CASE ~Awaiting
  <2>1. PICK D \in SUBSET (1..posted) :
          /\ Cardinality(D) <= unread
          /\ \A k \in Unread : k \in D \/ (promise # 0 /\ WillRead(promise, k))
    BY <1>6 DEF Covered, Counted
  <2>2. ASSUME NEW k, promise # 0, WillRead(promise, k) PROVE WillRead(promise, k)'
    <3> DEFINE o == comp[promise].object
    <3>1. o \in Objects
      BY <1>3, <2>2
    <3>2. Reaches(heap[o]) => heap'[o] = heap[o]
      BY <1>1, <3>1 DEF Reaches
    <3> QED BY <1>1, <1>2, <2>2, <3>2 DEF WillRead, Reaches
  <2>3. IsFiniteSet(D)
    <3>1. posted \in Int /\ 1 \in Int
      BY <1>3
    <3>2. IsFiniteSet(1..posted)
      BY <3>1, FS_Interval
    <3> QED BY <2>1, <3>2, FS_Subset
  <2>4. Cardinality(D \cup {m.n}) <= unread'
    <3>1. Cardinality(D) \in Nat
      BY <2>3, FS_CardinalityType
    <3>2. CASE m.n \in D
      <4>1. D \cup {m.n} = D
        BY <3>2
      <4>2. Cardinality(D \cup {m.n}) = Cardinality(D)
        BY <4>1
      <4>3. Cardinality(D) <= unread + 1
        BY ONLY <1>3, <2>1, <3>1
      <4> QED BY <1>1, <4>2, <4>3
    <3>3. CASE m.n \notin D
      <4>1. Cardinality(D \cup {m.n}) = Cardinality(D) + 1
        BY <2>3, <3>3, FS_AddElement
      <4> QED BY <1>1, <1>3, <2>1, <3>1, <4>1
    <3> QED BY <3>2, <3>3
  <2>5. \A k \in Unread' : k \in D \cup {m.n} \/ (promise # 0 /\ WillRead(promise, k)')
    BY <1>2, <2>1, <2>2
  <2>6. D \cup {m.n} \in SUBSET (1..posted')
    BY <1>1, <2>1
  <2>7. Counted'
    BY <1>1, <2>4, <2>5, <2>6 DEF Counted
  <2> QED BY <1>2, <1>6, <2>7 DEF Covered
<1> QED BY <1>5, <1>6

\* A post that is counted keeps what is supposed ...
LEMMA CountSupports ==
    ASSUME Sure, NEW m \in Arrived, Count(m)
    PROVE  Support'
<1>1. /\ Basics /\ Ordered /\ ServerOrder /\ Support /\ MarksAreBehind
      /\ posted \in Nat /\ Mark \in Int /\ lastReads \in Objects
  BY SureFacts, Values, MarkFacts
<1>2. /\ Idle /\ m.type = "post" /\ m = Post(m.n) /\ m.n \in 1..posted /\ m \in Published /\ m \in Messages
      /\ st[m].pc = "counting" /\ st'[m].pc = "done" /\ st'[m].shown \in {st[m].shown, Unset} /\ ~st'[m].old
      /\ \A o \in Messages \ {m} : st'[o] = st[o]
      /\ heap'[lastReads] = IF heap[lastReads] = Unset THEN m.n - 1 ELSE heap[lastReads]
      /\ \A o \in Objects \ {lastReads} : heap'[o] = heap[o]
      /\ UNCHANGED <<reads, posted, log, me, posts, init, comp, promise, lastReads>>
  BY CountIs
<1>3. /\ Mark' = Mark /\ Current' = Current /\ Published' = Published
      /\ \A k \in 1..posted : st'[Post(k)].pc = "done" <=> st[Post(k)].pc = "done" \/ k = m.n
  BY CountAdds
<1>4. Once'
  <2> SUFFICES ASSUME NEW c \in Computes, comp[c].pc # "none", c # 1 PROVE st'[Me(c)].pc = "done"
    BY <1>2 DEF Once
  <2>1. c \in 2..MaxMe
    BY Bounds DEF Computes
  <2> QED BY <1>1, <1>2, <2>1, Kinds DEF Support, Once, Me
<1>5. ShownAreMarks'
  BY <1>1, <1>2, <1>3 DEF Support, ShownAreMarks, IsMark
<1>6. Alone'
  <2>1. ASSUME NEW o \in Messages, st'[o].pc = "waiting" PROVE comp[st'[o].on].pc \in InCore \cup {"done"}
    BY <1>1, <1>2, <2>1 DEF Support, Alone
  <2> QED BY <1>1, <1>2, <2>1 DEF Support, Alone
<1>7. Fresh'
  <2> SUFFICES ASSUME NEW k \in posts, Post(k) \in Published PROVE st'[Post(k)].pc \notin EarlyStages
    BY <1>1, <1>2, <1>3 DEF Support, Fresh
  <2>1. k \in 1..posted /\ st[Post(k)].pc \notin EarlyStages
    BY <1>1 DEF Support, Fresh
  <2>2. Post(k) \in Messages
    BY <1>1, <2>1, PostsAreMessages
  <2> QED BY <1>2, <2>1, <2>2 DEF EarlyStages
<1>8. Prepared'
  BY <1>1, <1>2 DEF Support, Prepared
<1>9. NoneEarly'
  <2> SUFFICES ASSUME NEW i \in 1..Len(log), NEW j \in 1..Len(log), i < j, log[i].type = "me",
                      log[j].type = "post", st'[log[j]].pc = "done"
               PROVE  st'[log[i]].pc \notin EarlyStages
    BY <1>2 DEF NoneEarly
  <2>1. log[i] \in Messages /\ log[j] \in Messages /\ log[i] # m
    BY <1>1, <1>2, Places DEF Basics
  <2>2. CASE log[j] # m
    BY <1>1, <1>2, <2>1, <2>2 DEF Support, NoneEarly
  <2>3. CASE log[j] = m
    <3>1. PICK k \in 1..delivered : log[k] = m
      BY <1>1, Places DEF Basics
    <3>2. k = j
      BY <1>1, <2>3, <3>1, Places DEF Basics, Logged
    <3>3. j \in 1..delivered /\ i \in 1..delivered
      BY <1>1, <3>1, <3>2, Values
    <3>4. st[log[i]].pc \notin EarlyStages
      BY <1>1, <1>2, <2>3, <3>3, NoneBehind
    <3> QED BY <1>2, <2>1, <3>4
  <2> QED BY <2>2, <2>3
<1>10. NewMarkIsNowhere'
  <2> SUFFICES ASSUME Mark # Unset, me.version < Current, st'[Post(Mark + 1)].pc # "done"
               PROVE  /\ \A o \in Objects : heap'[o] # Mark
                      /\ \A o \in Messages : st'[o].shown # Mark
    BY <1>2, <1>3 DEF NewMarkIsNowhere
  <2>1. Mark + 1 \in 1..posted
    BY <1>1, MarkFacts
  <2>2. st[Post(Mark + 1)].pc # "done" /\ m.n # Mark + 1
    BY <1>3, <2>1
  <2>3. /\ \A o \in Objects : heap[o] # Mark
        /\ \A o \in Messages : st[o].shown # Mark
    BY <1>1, <2>2 DEF Support, NewMarkIsNowhere
  <2>4. m.n - 1 # Mark
    BY <1>1, <1>2, <2>2
  <2>5. heap'[lastReads] # Mark
    BY <1>1, <1>2, <2>3, <2>4
  <2> QED BY <1>2, <2>3, <2>5
<1> QED BY <1>4, <1>5, <1>6, <1>7, <1>8, <1>9, <1>10 DEF Support

\* ... and what is owed: where it sets the mark, a message that may find it waits for the
\* computation, or has not begun.
LEMMA CountKeepsOwed ==
    ASSUME Sure, NEW m \in Arrived, Count(m)
    PROVE  Owed'
<1>1. /\ Basics /\ ServerOrder /\ Support /\ Owed /\ MarksAreBehind /\ me.version <= Current
      /\ Current \in Nat /\ me.version \in Nat /\ Mark \in Int /\ lastReads \in Objects
  BY SureFacts, Values, MarkFacts
<1>2. /\ Idle /\ m.type = "post" /\ m.n \in 1..posted /\ st[m].pc = "counting" /\ m = Post(m.n)
      /\ \A o \in Messages \ {m} : st'[o] = st[o]
      /\ heap'[lastReads] = IF heap[lastReads] = Unset THEN m.n - 1 ELSE heap[lastReads]
      /\ \A o \in Objects \ {lastReads} : heap'[o] = heap[o]
      /\ UNCHANGED <<reads, posted, log, me, comp, promise, lastReads>>
  BY CountIs
<1>3. /\ Mark' = Mark /\ Current' = Current
      /\ (Awaiting' <=> Awaiting) /\ (\A o : IsLast(o)' <=> IsLast(o))
      /\ \A k \in 1..posted : st'[Post(k)].pc = "done" <=> st[Post(k)].pc = "done" \/ k = m.n
  BY CountAdds
<1> SUFFICES ASSUME Mark # Unset, MustBe' PROVE Covered'
  BY <1>3 DEF Owed
<1>4. Mark + 1 \in 1..posted
  BY <1>1, MarkFacts
<1>5. \A x \in Messages : x.type = "me" => st'[x] = st[x]
  BY <1>2
<1>6. SUFFICES ASSUME ~MustBe PROVE Covered'
  BY <1>1, CountCovers DEF Owed
<1>7. me'.version # Current'
  BY <1>2, <1>3, <1>6 DEF MustBe
<1>8. ~MarkMayBeSet'
  <2>1. ASSUME MarkMayBeSet' PROVE MarkMayBeSet
    <3>1. st[Post(Mark + 1)].pc # "done"
      BY <1>3, <1>4, <2>1 DEF MarkMayBeSet
    <3>2. ~Awaiting /\ promise # 0
      BY <1>2, <1>3, <2>1 DEF MarkMayBeSet
    <3>3. PICK x \in Messages : OnItsWay(x)' /\ st'[x].pc = "waiting" /\ st'[x].next = "items" /\ st'[x].on = promise'
      BY <2>1 DEF MarkMayBeSet
    <3>4. st'[x] = st[x] /\ OnItsWay(x)
      BY <1>3, <1>5, <3>3 DEF OnItsWay
    <3> QED BY <1>2, <3>1, <3>2, <3>3, <3>4 DEF MarkMayBeSet
  <2> QED BY <1>6, <2>1 DEF MustBe
<1>9. MarkMayBeFound'
  BY <1>7, <1>8 DEF MustBe
<1>10. PICK o \in Objects : IsLast(o)' /\ heap'[o] = Mark
  BY <1>3, <1>9 DEF MarkMayBeFound
<1>11. PICK x \in Messages : MayFindIt(x)'
  BY <1>9 DEF MarkMayBeFound
<1>12. st'[x] = st[x] /\ MayFindIt(x)
  BY <1>3, <1>5, <1>11 DEF MayFindIt, OnItsWay, ShownSoon
<1>13. IsLast(o) /\ heap[o] # Mark
  BY <1>3, <1>6, <1>10, <1>12 DEF MustBe, MarkMayBeFound
<1>14. o = lastReads /\ m.n - 1 = Mark
  BY <1>1, <1>2, <1>10, <1>13
<1>15. st[Post(Mark + 1)].pc # "done"
  <2>1. m.n = Mark + 1
    BY <1>1, <1>2, <1>14
  <2> QED BY <1>2, <2>1
<1>16. st[x].shown # Mark
  <2>1. me.version < Current
    BY <1>1, <1>2, <1>3, <1>7
  <2> QED BY <1>1, <1>15, <2>1 DEF Support, NewMarkIsNowhere
<1>17. OnItsWay(x) /\ ShownSoon(x)
  BY <1>12, <1>16 DEF MayFindIt
<1>18. CASE Awaiting
  <2>1. PICK c \in Computes : comp[c].pc = "waiting" /\ comp[c].object = o
    BY <1>13, <1>18 DEF IsLast
  <2>2. Reaches(heap[comp[c].object])'
    BY <1>1, <1>2, <1>3, <1>10, <2>1 DEF Reaches
  <2>3. WaitingReaches'
    BY <1>2, <2>1, <2>2 DEF WaitingReaches
  <2> QED BY <1>3, <1>18, <2>3 DEF Covered
<1>19. CASE ~Awaiting /\ st[x].pc \in EarlyStages
  <2>1. Unread = {}
    BY <1>1, <1>15, <1>17, <1>19, NothingToCount DEF OnItsWay, Support
  <2>2. Covered
    BY <1>1, <1>19, <2>1, NothingCovers DEF Covered
  <2> QED BY <2>2, CountCovers
<1>20. CASE ~Awaiting /\ st[x].pc = "waiting" /\ st[x].next = "items"
  <2>1. x \in Arrived /\ st[x].on \in Computes
    BY <1>1, <1>20 DEF Basics, Staged, StagedMessage, Fits
  <2>2. ~Settles(st[x].on)
    BY <1>2, <1>20, <2>1 DEF Idle, Ready
  <2>3. comp[st[x].on].pc \in InCore
    BY <1>1, <1>20, <2>2 DEF Support, Alone, Settles
  <2>4. promise = st[x].on /\ promise # 0
    BY <1>1, <2>1, <2>3, Values DEF Support, Alone
  <2>5. MarkMayBeSet
    BY <1>15, <1>17, <1>20, <2>4 DEF MarkMayBeSet
  <2> QED BY <1>6, <2>5 DEF MustBe
<1> QED BY <1>17, <1>18, <1>19, <1>20 DEF ShownSoon

--------------------------------------------------------------------------------
(* The user changes, perhaps to a version ahead of the message. *)

\* What a directive that is applied and an answer have in common.
UserShifts(m, x) ==
    /\ m.type = "me" /\ m \in Messages /\ m = Me(m.n) /\ m.n \in 2..Current /\ m.n \in Computes
    /\ x \in 1..Current /\ me.version <= x
    /\ st[m].pc \in {"resolving", "answered"} /\ st'[m].pc = "done" /\ st'[m].shown \in {st[m].shown, Unset}
    /\ \A o \in Messages \ {m} : st'[o] = st[o]
    /\ me'.version = x /\ me'.object \in Objects
    /\ heap'[me'.object] = reads[x] /\ \A o \in Objects \ {me'.object} : heap'[o] = heap[o]
    /\ UNCHANGED <<reads, posted, log, posts, init, lastReads>>
    /\ comp[m.n].pc = "none"

\* The mark is the one it was compared with, and that of whatever is counted from.
MarkStays(m, x) ==
    UNCHANGED <<comp, promise, unread>> /\ st[m].shown = reads[x] /\ \A o \in CountedFrom : heap[o] = reads[x]

LEMMA UserShiftIs ==
    ASSUME Sure, Mild', NEW m \in Arrived,
           (ApplyMe(m) /\ CacheUpdateAction(st[m].seen, m.n) = "update") \/ MeAnswer(m)
    PROVE  \E x \in 1..Current : UserShifts(m, x) /\ (Compute(m.n, me'.object) \/ MarkStays(m, x))
<1>1. /\ Basics /\ Applicable /\ Once /\ m \in Messages /\ ~overtaken /\ ~unnoticed /\ ~overtaken' /\ ~unnoticed'
      /\ me.version <= Current
  BY SureFacts, OfKind DEF Mild, Support
<1>2. /\ m.type = "me" /\ m.n \in Nat /\ 2 <= m.n /\ m.n \in 2..MaxMe /\ m = Me(m.n)
      /\ st'[m].pc = "done" /\ \A o \in Messages \ {m} : st'[o] = st[o]
  <2>1. m.type = "me" /\ st'[m].pc = "done" /\ \A o \in Messages \ {m} : st'[o] = st[o]
    BY <1>1, ApplyMeBasics, MeAnswerBasics
  <2> QED BY <1>1, <2>1, Kinds, Bounds DEF Me
<1>3. m.n \in Computes /\ m.n \in Objects /\ m.n # 1
  BY <1>2, Bounds DEF Computes, Objects
<1>4. /\ heap \in [Objects -> Unset..MaxPosts] /\ me \in [version : 1..MaxMe, object : Objects \ {0}]
      /\ me.version \in Nat /\ Current \in Nat
  BY <1>1, Typed, Values DEF Basics, Types, Others
<1>5. Move(m, "done") /\ ComputeIfMoved(m) /\ UNCHANGED <<reads, posted, log, posts, init, lastReads>>
  BY DEF ApplyMe, MeAnswer, server
<1>6. st'[m].shown \in {st[m].shown, Unset}
  <2>1. "done" \in Stages
    BY DEF Stages, Ended
  <2> QED BY <1>1, <1>5, <2>1, MoveShows
<1>7. PICK x \in 1..Current :
        /\ st[m].pc \in {"resolving", "answered"} /\ m.n <= Current
        /\ me.version <= x /\ me'.version = x /\ me'.object \in Objects
        /\ heap' = [heap EXCEPT ![me'.object] = reads[x]]
  <2>1. CASE ApplyMe(m) /\ CacheUpdateAction(st[m].seen, m.n) = "update"
    <3>1. st[m].pc = "resolving" /\ m.n \in 2..Current
      BY <2>1, <1>1, ApplyMeBasics DEF ApplyMe
    <3>2. st[m].seen = m.n - 1
      BY <2>1 DEF CacheUpdateAction
    <3>3. me.version = m.n - 1
      BY <1>1, <1>2, <3>1, <3>2 DEF Applicable
    <3>4. me' = [me EXCEPT !.version = m.n] /\ heap' = [heap EXCEPT ![me.object] = reads[m.n]]
      BY <2>1 DEF ApplyMe
    <3>5. me'.version = m.n /\ me'.object = me.object /\ me.object \in Objects
      BY <1>4, <3>4
    <3>6. m.n \in 1..Current /\ m.n <= Current /\ me.version <= m.n
      BY <1>2, <1>4, <3>1, <3>3
    <3> QED BY <3>1, <3>4, <3>5, <3>6
  <2>2. CASE MeAnswer(m)
    <3>1. /\ st[m].pc = "answered" /\ me' = [version |-> st[m].seen, object |-> m.n]
          /\ heap' = [heap EXCEPT ![m.n] = reads[st[m].seen]]
          /\ overtaken' = (overtaken \/ st[m].seen < me.version)
      BY <2>2 DEF MeAnswer
    <3>2. st[m].seen \in m.n..Current
      BY <1>1, <2>2, MeAnswerBasics
    <3>3. ~(st[m].seen < me.version)
      BY <1>1, <3>1
    <3>4. st[m].seen \in 1..Current /\ me.version <= st[m].seen /\ m.n <= Current
      BY <1>2, <1>4, <3>2, <3>3
    <3>5. me'.version = st[m].seen /\ me'.object = m.n
      BY <3>1
    <3> QED BY <1>3, <3>1, <3>4, <3>5
  <2> QED BY <2>1, <2>2
<1>8. m.n \in 2..Current
  BY <1>2, <1>4, <1>7
<1>9. heap'[me'.object] = reads[x] /\ \A o \in Objects \ {me'.object} : heap'[o] = heap[o]
  BY <1>4, <1>7
<1>10. comp[m.n].pc = "none"
  <2>1. st[m].pc # "done"
    BY <1>7
  <2> QED BY <1>1, <1>2, <1>3, <2>1 DEF Once
<1>11. UserShifts(m, x)
  BY <1>1, <1>2, <1>3, <1>5, <1>6, <1>7, <1>8, <1>9, <1>10 DEF UserShifts
<1>12. Compute(m.n, me'.object) \/ MarkStays(m, x)
  <2> DEFINE moved == heap'[me'.object] # st[m].shown
             u == ~moved /\ \E o \in CountedFrom : heap[o] # st[m].shown
  <2>1. /\ IF moved THEN Compute(m.n, me'.object) ELSE UNCHANGED <<comp, promise, unread, overlap>>
        /\ unnoticed' = (unnoticed \/ u)
    BY <1>5 DEF ComputeIfMoved
  <2>2. ~u
    <3> HIDE DEF u
    <3> QED BY <1>1, <2>1
  <2>3. CASE moved
    <3> HIDE DEF u
    <3> QED BY <2>1, <2>3
  <2>4. CASE ~moved
    <3>1. st[m].shown = reads[x] /\ \A o \in CountedFrom : heap[o] = st[m].shown
      BY <1>9, <2>2, <2>4
    <3>2. UNCHANGED <<comp, promise, unread, overlap>>
      <4> HIDE DEF u
      <4> QED BY <2>1, <2>4
    <3> QED BY <3>1, <3>2 DEF MarkStays
  <2> QED BY <2>3, <2>4
<1> QED BY <1>11, <1>12

\* What a change of the user keeps, whether it starts a computation or not; an old mark is not
\* the server's.
LEMMA UserShiftKeeps ==
    ASSUME Sure, NEW m \in Arrived, NEW x \in 1..Current, UserShifts(m, x)
    PROVE  /\ ShownAreMarks' /\ NoneEarly' /\ NewMarkIsNowhere'
           /\ Current' = Current /\ Mark' = Mark /\ Published' = Published /\ Processed' = Processed /\ Unread' = Unread
           /\ \A n \in 1..posted : st'[Post(n)] = st[Post(n)]
           /\ \A o \in Messages : o.type = "post" => st'[o] = st[o]
           /\ \A o \in Messages : st'[o].pc # "done" => o # m /\ st'[o] = st[o]
           /\ \A o \in Messages : st[o].pc = "waiting" => st[o].on # m.n
           /\ Mark # Unset /\ x # Current => reads[x] # Mark
<1>1. /\ Basics /\ ServerOrder /\ Support /\ MarksAreBehind /\ me.version \in Nat /\ Current \in Nat /\ Mark \in Int
  BY SureFacts, Values, MarkFacts
<1>2. /\ m.type = "me" /\ st'[m].pc = "done" /\ st'[m].shown \in {st[m].shown, Unset}
      /\ \A o \in Messages \ {m} : st'[o] = st[o]
      /\ me.version <= x /\ me'.version = x
      /\ \A o \in Objects : heap'[o] = reads[x] \/ heap'[o] = heap[o]
      /\ UNCHANGED <<reads, posted, log>> /\ comp[m.n].pc = "none"
  BY DEF UserShifts
<1>3. Current' = Current /\ Mark' = Mark
  BY <1>2 DEF Current, Mark
<1>4. \A o \in Messages : o.type = "post" => st'[o] = st[o]
  BY <1>2
<1>5. \A n \in 1..posted : st'[Post(n)] = st[Post(n)]
  BY <1>1, <1>4, PostsAreMessages
<1>6. Published' = Published /\ Processed' = Processed
  BY <1>1, <1>2, <1>5, ProcessedStays
<1>7. Unread' = Unread
  BY <1>3, <1>6 DEF Unread
<1>8. ShownAreMarks'
  BY <1>1, <1>2 DEF Support, ShownAreMarks, IsMark
<1>9. NoneEarly'
  <2>1. \A i \in 1..Len(log) : log[i] \in Messages
    BY <1>1, Places DEF Basics
  <2> QED BY <1>1, <1>2, <2>1 DEF Support, NoneEarly, EarlyStages
<1>10. \A o \in Messages : st[o].pc = "waiting" => st[o].on # m.n
  <2>1. "none" \notin InCore \cup {"done"}
    BY DEF InCore
  <2> QED BY <1>1, <1>2, <2>1 DEF Support, Alone
<1>11. ASSUME Mark # Unset, x # Current PROVE reads[x] # Mark
  <2>1. Current \in 1..Current /\ x < Current
    BY <1>1, <1>11
  <2>2. CASE reads[x] # Unset
    <3>1. reads[x] < reads[Current]
      BY <1>1, <1>11, <2>1, <2>2, MarksGrow DEF Mark
    <3> QED BY <1>1, <3>1, Values DEF Mark
  <2> QED BY <1>11, <2>2
<1>12. NewMarkIsNowhere'
  <2> SUFFICES ASSUME Mark # Unset, x < Current, st'[Post(Mark + 1)].pc # "done"
               PROVE  /\ \A o \in Objects : heap'[o] # Mark
                      /\ \A o \in Messages : st'[o].shown # Mark
    BY <1>2, <1>3 DEF NewMarkIsNowhere
  <2>1. Mark + 1 \in 1..posted
    BY <1>1, MarkFacts
  <2>2. me.version < Current /\ st[Post(Mark + 1)].pc # "done" /\ x # Current
    BY <1>1, <1>2, <1>5, <2>1
  <2>3. /\ \A o \in Objects : heap[o] # Mark
        /\ \A o \in Messages : st[o].shown # Mark
    BY <1>1, <2>2 DEF Support, NewMarkIsNowhere
  <2> QED BY <1>2, <1>11, <2>2, <2>3
<1> QED BY <1>2, <1>3, <1>4, <1>5, <1>6, <1>7, <1>8, <1>9, <1>10, <1>11, <1>12

\* A change that starts a computation: nothing is under way, and nothing waits.
LEMMA UserShiftStarts ==
    ASSUME Sure, Mild', NEW m \in Arrived, NEW x \in 1..Current, UserShifts(m, x), StartCore(m.n, me'.object)
    PROVE  Support' /\ Owed'
<1> DEFINE c == m.n
           object == me'.object
<1>1. /\ Basics /\ Support /\ posted \in Nat /\ Mark \in Int
  BY SureFacts, Values, MarkFacts
<1>2. /\ c \in Computes /\ object \in Objects /\ comp[c].pc = "none" /\ comp[c].pc \notin InCore /\ m = Me(c) /\ m \in Messages
      /\ me'.version = x /\ heap'[object] = reads[x] /\ st'[m].pc = "done"
      /\ UNCHANGED <<posted, posts, init>>
  BY DEF UserShifts, InCore
<1>3. /\ ShownAreMarks' /\ NoneEarly' /\ NewMarkIsNowhere'
      /\ Current' = Current /\ Mark' = Mark /\ Published' = Published /\ Unread' = Unread
      /\ \A n \in 1..posted : st'[Post(n)] = st[Post(n)]
      /\ \A o \in Messages : o.type = "post" => st'[o] = st[o]
      /\ \A o \in Messages : st'[o].pc # "done" => o # m /\ st'[o] = st[o]
      /\ \A o \in Messages : st[o].pc = "waiting" => st[o].on # c
      /\ Mark # Unset /\ x # Current => reads[x] # Mark
  BY UserShiftKeeps
<1>4. StartCore(c, object)
  OBVIOUS
<1> HIDE DEF c, object
<1>5. /\ comp'[c].pc = "unread" /\ comp'[c].object = object /\ comp'[c].read = {}
      /\ \A d \in Computes \ {c} : comp'[d] = comp[d] /\ comp[d].pc \notin InCore \cup {"waiting"}
      /\ promise = 0 /\ promise' = c /\ unread' = 0 /\ c # 0
      /\ ~Awaiting' /\ \A o : IsLast(o)' => o = object
  BY <1>2, <1>4, StartIs
<1>6. Once'
  <2>1. \A d \in Computes \ {c} : comp'[d].pc # "none" => d = 1 \/ st[Me(d)].pc = "done"
    BY <1>1, <1>5 DEF Support, Once
  <2>2. \A d \in Computes \ {c} : d # 1 => Me(d) \in Messages
    <3>1. \A d \in Computes : d # 1 => d \in 2..MaxMe
      BY Bounds DEF Computes
    <3> QED BY <3>1, Kinds DEF Me
  <2>3. \A o \in Messages : st[o].pc = "done" => st'[o].pc = "done"
    BY <1>3
  <2> QED BY <1>2, <2>1, <2>2, <2>3 DEF Once
<1>7. Alone'
  <2>1. comp'[promise'].pc \in InCore
    BY <1>5 DEF InCore
  <2>2. \A d \in Computes : comp'[d].pc \in InCore => promise' = d
    BY <1>5
  <2>3. \A d \in Computes : comp'[d].pc # "waiting"
    BY <1>5
  <2>4. ASSUME NEW o \in Messages, st'[o].pc = "waiting" PROVE comp'[st'[o].on].pc \in InCore \cup {"done"}
    <3>1. st'[o] = st[o] /\ st[o].pc = "waiting" /\ st[o].on # c
      BY <1>3, <2>4
    <3>2. st[o].on \in Computes /\ comp[st[o].on].pc \in InCore \cup {"done"}
      BY <1>1, <3>1 DEF Basics, Staged, StagedMessage, Fits, Support, Alone
    <3> QED BY <1>5, <3>1, <3>2
  <2> QED BY <2>1, <2>2, <2>3, <2>4 DEF Alone
<1>8. Fresh'
  <2>1. \A k \in posts : Post(k) \in Published => st'[Post(k)].pc \notin EarlyStages
    BY <1>1, <1>3 DEF Support, Fresh
  <2>2. \A d \in Computes : comp'[d].read \subseteq 1..posted
    BY <1>1, <1>5 DEF Support, Fresh
  <2> QED BY <1>1, <1>2, <1>3, <2>1, <2>2 DEF Support, Fresh
<1>9. Prepared'
  BY <1>1, <1>2, <1>5 DEF Support, Prepared
<1>10. Owed'
  <2> SUFFICES ASSUME Mark # Unset, MustBe' PROVE Covered'
    BY <1>3 DEF Owed
  <2>1. ~MarkMayBeSet'
    BY <1>3, <1>5 DEF MarkMayBeSet
  <2>2. MarkMayBeFound' => heap'[object] = Mark
    BY <1>3, <1>5 DEF MarkMayBeFound
  <2>3. x = Current
    BY <1>2, <1>3, <2>1, <2>2 DEF MustBe
  <2>4. Reaches(heap[comp[c].object])'
    BY <1>1, <1>2, <1>3, <1>5, <2>3 DEF Reaches, Mark
  <2>5. \A n : WillRead(promise, n)'
    BY <1>5, <2>4 DEF WillRead
  <2>6. {} \in SUBSET (1..posted') /\ Cardinality({}) <= unread'
    BY <1>5, FS_EmptySet
  <2>7. Counted'
    BY <1>5, <2>5, <2>6 DEF Counted
  <2> QED BY <1>5, <2>7 DEF Covered
<1> QED BY <1>3, <1>6, <1>7, <1>8, <1>9, <1>10 DEF Support

\* A change of which the computation waits for the one under way: it will count them all.
LEMMA UserShiftWaits ==
    ASSUME Sure, Mild', NEW m \in Arrived, NEW x \in 1..Current, UserShifts(m, x), Compute(m.n, me'.object),
           promise # 0
    PROVE  Support' /\ Owed'
<1> DEFINE c == m.n
           object == me'.object
<1>1. /\ Basics /\ Support /\ posted \in Nat /\ Mark \in Int /\ promise \in Computes
      /\ comp \in [Computes -> Computing] /\ comp[promise].pc \in InCore
  BY SureFacts, Values, MarkFacts, Typed DEF Basics, Types, Others, Support, Alone
<1>2. /\ c \in Computes /\ object \in Objects /\ comp[c].pc = "none" /\ comp[c].pc \notin InCore /\ m = Me(c) /\ m \in Messages
      /\ me'.version = x /\ heap'[object] = reads[x] /\ st'[m].pc = "done"
      /\ UNCHANGED <<posted, posts, init>>
  BY DEF UserShifts, InCore
<1>3. /\ ShownAreMarks' /\ NoneEarly' /\ NewMarkIsNowhere'
      /\ Current' = Current /\ Mark' = Mark /\ Published' = Published
      /\ \A n \in 1..posted : st'[Post(n)] = st[Post(n)]
      /\ \A o \in Messages : o.type = "post" => st'[o] = st[o]
      /\ \A o \in Messages : st'[o].pc # "done" => o # m /\ st'[o] = st[o]
      /\ \A o \in Messages : st[o].pc = "waiting" => st[o].on # c
      /\ Mark # Unset /\ x # Current => reads[x] # Mark
  BY UserShiftKeeps
<1>4. /\ comp' = [comp EXCEPT ![c].pc = "waiting", ![c].on = promise, ![c].object = object]
      /\ promise' = promise
      /\ overlap' = overlap \cup When(\E d \in Computes : comp[d].pc = "waiting", "computation")
  <2>1. comp[promise].pc # "failed"
    BY <1>1 DEF InCore
  <2> QED BY <2>1 DEF Compute
<1> HIDE DEF c, object
<1>5. \A d \in Computes : comp[d].pc # "waiting"
  BY <1>4 DEF When, Mild
<1>6. /\ comp'[c].pc = "waiting" /\ comp'[c].on = promise /\ comp'[c].object = object
      /\ comp'[c].read = comp[c].read
      /\ \A d \in Computes \ {c} : comp'[d] = comp[d]
  BY <1>1, <1>2, <1>4 DEF Computing
<1>7. promise # c /\ comp'[promise].pc \in InCore
  BY <1>1, <1>2, <1>6
<1>8. Once'
  <2>1. \A d \in Computes \ {c} : comp'[d].pc # "none" => d = 1 \/ st[Me(d)].pc = "done"
    BY <1>1, <1>6 DEF Support, Once
  <2>2. \A d \in Computes \ {c} : d # 1 => Me(d) \in Messages
    <3>1. \A d \in Computes : d # 1 => d \in 2..MaxMe
      BY Bounds DEF Computes
    <3> QED BY <3>1, Kinds DEF Me
  <2>3. \A o \in Messages : st[o].pc = "done" => st'[o].pc = "done"
    BY <1>3
  <2> QED BY <1>2, <2>1, <2>2, <2>3 DEF Once
<1>9. Alone'
  <2>1. \A d \in Computes : comp'[d].pc \in InCore => promise' = d
    BY <1>1, <1>4, <1>6 DEF Support, Alone, InCore
  <2>2. \A d \in Computes : comp'[d].pc = "waiting" => d = c
    BY <1>5, <1>6
  <2>3. \A d \in Computes : comp'[d].pc = "waiting" => comp'[comp'[d].on].pc \in InCore \cup {"done"}
    BY <1>6, <1>7, <2>2
  <2>4. ASSUME NEW o \in Messages, st'[o].pc = "waiting" PROVE comp'[st'[o].on].pc \in InCore \cup {"done"}
    <3>1. st'[o] = st[o] /\ st[o].pc = "waiting" /\ st[o].on # c
      BY <1>3, <2>4
    <3>2. st[o].on \in Computes /\ comp[st[o].on].pc \in InCore \cup {"done"}
      BY <1>1, <3>1 DEF Basics, Staged, StagedMessage, Fits, Support, Alone
    <3> QED BY <1>6, <3>1, <3>2
  <2> QED BY <1>4, <1>7, <2>1, <2>2, <2>3, <2>4 DEF Alone
<1>10. Fresh'
  <2>1. \A k \in posts : Post(k) \in Published => st'[Post(k)].pc \notin EarlyStages
    BY <1>1, <1>3 DEF Support, Fresh
  <2>2. \A d \in Computes : comp'[d].read \subseteq 1..posted
    BY <1>1, <1>6 DEF Support, Fresh
  <2> QED BY <1>1, <1>2, <1>3, <2>1, <2>2 DEF Support, Fresh
<1>11. Prepared'
  BY <1>1, <1>2, <1>6 DEF Support, Prepared
<1>12. Awaiting'
  BY <1>2, <1>6 DEF Awaiting
<1>13. Owed'
  <2> SUFFICES ASSUME Mark # Unset, MustBe' PROVE Covered'
    BY <1>3 DEF Owed
  <2>1. ~MarkMayBeSet'
    BY <1>12 DEF MarkMayBeSet
  <2>2. \A o : IsLast(o)' => o = object
    BY <1>5, <1>6, <1>12 DEF IsLast
  <2>3. MarkMayBeFound' => heap'[object] = Mark
    BY <1>3, <2>2 DEF MarkMayBeFound
  <2>4. x = Current
    BY <1>2, <1>3, <2>1, <2>3 DEF MustBe
  <2>5. Reaches(heap[comp[c].object])'
    BY <1>1, <1>2, <1>3, <1>6, <2>4 DEF Reaches, Mark
  <2>6. WaitingReaches'
    BY <1>2, <1>6, <2>5 DEF WaitingReaches
  <2> QED BY <1>12, <2>6 DEF Covered
<1> QED BY <1>3, <1>8, <1>9, <1>10, <1>11, <1>13 DEF Support

\* A change that finds the mark it was compared with: what is counted from does not change.
LEMMA UserShiftStays ==
    ASSUME Sure, NEW m \in Arrived, NEW x \in 1..Current, UserShifts(m, x), MarkStays(m, x)
    PROVE  Support' /\ Owed'
<1>1. /\ Basics /\ Support /\ Owed /\ posted \in Nat /\ Mark \in Int /\ Current \in Nat
      /\ (promise # 0 => promise \in Computes /\ comp[promise].pc \in InCore)
  BY SureFacts, Values, MarkFacts DEF Support, Alone
<1>2. /\ m.type = "me" /\ m.n \in 2..Current /\ m \in Messages
      /\ me'.version = x /\ st[m].pc \in {"resolving", "answered"} /\ st'[m].pc = "done"
      /\ me'.object \in Objects /\ heap'[me'.object] = reads[x] /\ \A o \in Objects \ {me'.object} : heap'[o] = heap[o]
      /\ UNCHANGED <<posted, log, posts, init, lastReads>>
  BY DEF UserShifts
<1>3. /\ UNCHANGED <<comp, promise, unread>> /\ st[m].shown = reads[x] /\ \A o \in CountedFrom : heap[o] = reads[x]
  BY DEF MarkStays
<1>4. /\ ShownAreMarks' /\ NoneEarly' /\ NewMarkIsNowhere'
      /\ Current' = Current /\ Mark' = Mark /\ Published' = Published /\ Unread' = Unread
      /\ \A n \in 1..posted : st'[Post(n)] = st[Post(n)]
      /\ \A o \in Messages : o.type = "post" => st'[o] = st[o]
      /\ \A o \in Messages : st'[o].pc # "done" => o # m /\ st'[o] = st[o]
      /\ Mark # Unset /\ x # Current => reads[x] # Mark
  BY UserShiftKeeps
<1>5. \A o \in Objects : o \in CountedFrom => heap'[o] = heap[o] /\ heap[o] = reads[x]
  BY <1>2, <1>3
<1>6. \A c \in Computes : comp[c].pc \in InCore \cup {"waiting"} => comp[c].object \in CountedFrom /\ comp[c].object \in Objects
  BY <1>1, Values DEF CountedFrom
<1>7. Once'
  <2>1. \A d \in Computes : d # 1 => Me(d) \in Messages
    <3>1. \A d \in Computes : d # 1 => d \in 2..MaxMe
      BY Bounds DEF Computes
    <3> QED BY <3>1, Kinds DEF Me
  <2>2. \A o \in Messages : st[o].pc = "done" => st'[o].pc = "done"
    BY <1>4
  <2> QED BY <1>1, <1>3, <2>1, <2>2 DEF Support, Once
<1>8. Alone'
  <2>1. \A o \in Messages : st'[o].pc = "waiting" => comp[st'[o].on].pc \in InCore \cup {"done"}
    BY <1>1, <1>4 DEF Support, Alone
  <2> QED BY <1>1, <1>3, <2>1 DEF Support, Alone
<1>9. Fresh'
  <2>1. \A k \in posts : Post(k) \in Published => st'[Post(k)].pc \notin EarlyStages
    BY <1>1, <1>4 DEF Support, Fresh
  <2> QED BY <1>1, <1>2, <1>3, <1>4, <2>1 DEF Support, Fresh
<1>10. Prepared'
  BY <1>1, <1>2, <1>3 DEF Support, Prepared
<1>11. (Awaiting' <=> Awaiting) /\ \A o : IsLast(o)' <=> IsLast(o)
  BY <1>2, <1>3 DEF Awaiting, IsLast
<1>12. \A o \in Objects : IsLast(o) => o \in CountedFrom
  <2>1. lastReads \in CountedFrom
    BY DEF CountedFrom
  <2> SUFFICES ASSUME NEW o \in Objects, IsLast(o) PROVE o \in CountedFrom
    OBVIOUS
  <2>2. CASE \E c \in Computes : comp[c].pc = "waiting" /\ comp[c].object = o
    BY <1>6, <2>2
  <2>3. CASE \E c \in Computes : promise = c /\ comp[c].object = o
    <3>1. PICK c \in Computes : promise = c /\ comp[c].object = o
      BY <2>3
    <3>2. comp[c].pc \in InCore
      BY <1>1, <3>1, Values
    <3> QED BY <1>6, <3>1, <3>2
  <2>4. CASE lastReads = o
    BY <2>1, <2>4
  <2> QED BY <2>2, <2>3, <2>4 DEF IsLast
<1>13. \E o \in Objects : IsLast(o)
  <2>1. CASE Awaiting
    BY <1>6, <2>1 DEF Awaiting, IsLast
  <2>2. CASE ~Awaiting /\ promise # 0
    BY <1>1, <1>6, <2>2 DEF IsLast
  <2>3. CASE ~Awaiting /\ promise = 0
    <3>1. lastReads \in Objects /\ IsLast(lastReads)
      BY <1>1, <2>3, Values DEF IsLast
    <3> QED BY <3>1
  <2> QED BY <2>1, <2>2, <2>3
<1>14. ASSUME Covered PROVE Covered'
  <2>1. CASE Awaiting
    <3>1. PICK d \in Computes : comp[d].pc = "waiting" /\ Reaches(heap[comp[d].object])
      BY <1>14, <2>1 DEF Covered, WaitingReaches
    <3>2. heap'[comp[d].object] = heap[comp[d].object]
      BY <1>5, <1>6, <3>1
    <3>3. WaitingReaches'
      BY <1>3, <1>4, <3>1, <3>2 DEF WaitingReaches, Reaches
    <3> QED BY <1>11, <2>1, <3>3 DEF Covered
  <2>2. CASE ~Awaiting
    <3>1. \A n : promise # 0 /\ WillRead(promise, n) => WillRead(promise, n)'
      <4>1. promise # 0 => heap'[comp[promise].object] = heap[comp[promise].object]
        BY <1>1, <1>5, <1>6
      <4> QED BY <1>3, <1>4, <4>1 DEF WillRead, Reaches
    <3>2. Counted
      BY <1>14, <2>2 DEF Covered
    <3>3. Counted'
      BY <1>2, <1>3, <1>4, <3>1, <3>2 DEF Counted
    <3> QED BY <1>11, <2>2, <3>3 DEF Covered
  <2> QED BY <2>1, <2>2
<1>15. Owed'
  <2> SUFFICES ASSUME Mark # Unset, MustBe' PROVE MustBe
    BY <1>1, <1>4, <1>14 DEF Owed
  <2>1. CASE x = Current
    <3>1. reads[x] = Mark
      BY <2>1 DEF Mark
    <3>2. OnItsWay(m)
      BY <1>1, <1>2 DEF OnItsWay
    <3>3. MayFindIt(m)
      BY <1>3, <3>1, <3>2 DEF MayFindIt
    <3>4. \E o \in Objects : IsLast(o) /\ heap[o] = Mark
      BY <1>5, <1>12, <1>13, <3>1
    <3> QED BY <1>2, <3>3, <3>4 DEF MarkMayBeFound, MustBe
  <2>2. CASE x # Current
    <3>1. ~MarkMayBeFound'
      BY <1>4, <1>5, <1>11, <1>12, <2>2 DEF MarkMayBeFound
    <3>2. MarkMayBeSet'
      BY <1>2, <1>4, <2>2, <3>1 DEF MustBe
    <3>3. ~Awaiting /\ promise # 0 /\ st[Post(Mark + 1)].pc # "done"
      <4>1. Mark + 1 \in 1..posted
        BY <1>1, MarkFacts, SureFacts
      <4> QED BY <1>3, <1>4, <1>11, <3>2, <4>1 DEF MarkMayBeSet
    <3>4. PICK o \in Messages : OnItsWay(o)' /\ st'[o].pc = "waiting" /\ st'[o].next = "items" /\ st'[o].on = promise'
      BY <3>2 DEF MarkMayBeSet
    <3>5. st'[o] = st[o]
      BY <1>4, <3>4
    <3>6. MarkMayBeSet
      BY <1>3, <1>4, <3>3, <3>4, <3>5 DEF MarkMayBeSet, OnItsWay
    <3> QED BY <3>6 DEF MustBe
  <2> QED BY <2>1, <2>2
<1> QED BY <1>4, <1>7, <1>8, <1>9, <1>10, <1>15 DEF Support

\* Every change of the user keeps what is supposed, and what is owed.
LEMMA UserShiftsOn ==
    ASSUME Sure, Mild', NEW m \in Arrived,
           (ApplyMe(m) /\ CacheUpdateAction(st[m].seen, m.n) = "update") \/ MeAnswer(m)
    PROVE  Support' /\ Owed'
<1>1. PICK x \in 1..Current : UserShifts(m, x) /\ (Compute(m.n, me'.object) \/ MarkStays(m, x))
  BY UserShiftIs
<1>2. CASE MarkStays(m, x)
  BY <1>1, <1>2, UserShiftStays
<1>3. CASE Compute(m.n, me'.object) /\ promise = 0
  <2>1. StartCore(m.n, me'.object)
    BY <1>3 DEF Compute
  <2> QED BY <1>1, <2>1, UserShiftStarts
<1>4. CASE Compute(m.n, me'.object) /\ promise # 0
  BY <1>1, <1>4, UserShiftWaits
<1> QED BY <1>1, <1>2, <1>3, <1>4

--------------------------------------------------------------------------------
(* The server. *)

\* What the server adds is not processed yet: a new mark leaves nothing unread that is.
LEMMA ServerGoesOn ==
    ASSUME Sure, Basics', ServerPosts \/ ServerMarksRead \/ ServerAddsStream
    PROVE  Support' /\ Owed'
<1>1. Basics /\ ServerOrder /\ Support /\ Owed /\ MarksAreBehind /\ ServerGrows /\ me.version <= Current
  BY SureFacts, ServerGives
<1>2. UNCHANGED <<delivered, st, me, posts, init, heap, comp, promise, unread, lastReads>>
  BY <1>1, ServerSteps DEF cached, counters
<1>3. /\ posted \in Nat /\ Current \in Nat /\ 1 <= Current /\ Len(log) \in Nat /\ Len(log') \in Nat
      /\ posted' \in {posted, posted + 1} /\ Current' \in {Current, Current + 1}
      /\ Len(log) <= Len(log') /\ me.version \in Nat /\ unread \in Nat
      /\ \A i \in 1..Len(log) : log'[i] = log[i]
      /\ \A o \in Objects : heap[o] \in Int
      /\ \A m \in Messages : st[m].shown \in Int
  BY <1>1, Values DEF ServerGrows
<1>4. \A n \in 1..posted : n \in 1..posted' /\ (Post(n) \in Published' <=> Post(n) \in Published)
  <2>1. \A n \in 1..posted : n \in 1..posted'
    BY <1>3
  <2>2. \A n \in 1..posted : Post(n) \in Published' <=> Post(n) \in Published
    BY <1>1, PublishedStays
  <2> QED BY <2>1, <2>2
<1>5. posted' = posted + 1 => Post(posted + 1) \in Published' /\ st[Post(posted + 1)].pc = "none"
  <2> SUFFICES ASSUME posted' = posted + 1 PROVE Post(posted + 1) \in Published' /\ st[Post(posted + 1)].pc = "none"
    OBVIOUS
  <2>1. PICK i \in 1..Len(log') : log'[i] = Post(posted + 1)
    BY <1>1 DEF ServerGrows
  <2>2. log'[i].type = "post" /\ log'[i].n = posted + 1
    BY <2>1, Kinds DEF Post
  <2>3. ASSUME i \in 1..Len(log) PROVE FALSE
    <3>1. log[i].type = "post" /\ log[i].n = posted + 1
      BY <1>3, <2>2, <2>3
    <3>2. Logged
      BY <1>1 DEF Basics
    <3>3. log[i].n <= posted
      BY <2>3, <3>1, <3>2 DEF Logged
    <3> QED BY <1>3, <3>1, <3>3
  <2>4. i \in (Len(log) + 1)..Len(log')
    BY <1>3, <2>3
  <2>5. st'[log'[i]].pc = "none"
    BY <1>1, <1>2, <2>4, NewsIsQuiet
  <2> QED BY <1>1, <1>2, <2>1, <2>5, PublishedStays
<1>6. \A n \in 1..posted' : n \in 1..posted \/ (n = posted + 1 /\ posted' = posted + 1)
  BY <1>3
<1>7. Processed' = Processed
  BY <1>2, <1>4, <1>5, <1>6 DEF Processed
<1>8. Current' = Current => Mark' = Mark
  <2>1. Current \in 1..Current
    BY <1>3
  <2> QED BY <1>1, <2>1 DEF ServerGrows, Mark
<1>9. Current' # Current /\ Mark' # Unset => Mark' = posted
  <2>1. Mark' = reads'[Current']
    BY DEF Mark
  <2> QED BY <1>1, <1>3, <2>1 DEF ServerGrows
<1>10. /\ \A o \in Objects : heap[o] # posted
       /\ \A m \in Messages : st[m].shown # posted
  <2>1. posted # Unset
    BY <1>3 DEF Unset
  <2>2. \A o \in Objects : IsMark(heap[o], posted)
    BY <1>1 DEF MarksAreBehind
  <2>3. \A m \in Messages : IsMark(st[m].shown, posted)
    BY <1>1 DEF Support, ShownAreMarks
  <2> QED BY <1>3, <2>1, <2>2, <2>3 DEF IsMark
<1>11. Once' /\ Alone' /\ Prepared'
  BY <1>1, <1>2 DEF Support, Once, Alone, Prepared
<1>12. ShownAreMarks'
  <2>1. \A k : IsMark(k, posted) => IsMark(k, posted')
    BY <1>3 DEF IsMark
  <2> QED BY <1>1, <1>2, <2>1 DEF Support, ShownAreMarks
<1>13. Fresh'
  <2>1. posts \subseteq 1..posted' /\ \A c \in Computes : comp[c].read \subseteq 1..posted'
    BY <1>1, <1>4 DEF Support, Fresh
  <2> QED BY <1>1, <1>2, <1>4, <2>1 DEF Support, Fresh
<1>14. NoneEarly'
  <2>1. \A i \in 1..Len(log') : st[log'[i]].pc # "none" => i \in 1..Len(log)
    <3> SUFFICES ASSUME NEW i \in 1..Len(log'), i \notin 1..Len(log) PROVE st[log'[i]].pc = "none"
      OBVIOUS
    <3>1. i \in (Len(log) + 1)..Len(log')
      BY <1>3
    <3> QED BY <1>1, <1>2, <3>1, NewsIsQuiet
  <2> SUFFICES ASSUME NEW i \in 1..Len(log'), NEW j \in 1..Len(log'), i < j, log'[i].type = "me",
                      log'[j].type = "post", st[log'[j]].pc = "done"
               PROVE  st[log'[i]].pc \notin EarlyStages
    BY <1>2 DEF NoneEarly
  <2>2. j \in 1..Len(log)
    BY <2>1
  <2>3. i \in 1..Len(log)
    BY <1>3, <2>2
  <2> QED BY <1>1, <1>3, <2>2, <2>3 DEF Support, NoneEarly
<1>15. NewMarkIsNowhere'
  <2>1. CASE Current' = Current
    BY <1>1, <1>2, <1>8, <2>1 DEF Support, NewMarkIsNowhere
  <2>2. CASE Current' # Current
    BY <1>2, <1>9, <1>10, <2>2 DEF NewMarkIsNowhere
  <2> QED BY <2>1, <2>2
<1>16. ASSUME Current' = Current PROVE Owed'
  <2>1. Mark' = Mark /\ Unread' = Unread
    BY <1>7, <1>8, <1>16 DEF Unread
  <2>2. (Awaiting' <=> Awaiting) /\ \A o : IsLast(o)' <=> IsLast(o)
    BY <1>2 DEF Awaiting, IsLast
  <2>3. \A m \in Messages : MayFindIt(m)' <=> MayFindIt(m)
    BY <1>2, <1>16, <2>1 DEF MayFindIt, OnItsWay, ShownSoon
  <2>4. MarkMayBeFound' => MarkMayBeFound
    BY <1>2, <2>1, <2>2, <2>3 DEF MarkMayBeFound
  <2>5. MarkMayBeSet' => MarkMayBeSet
    BY <1>2, <1>16, <2>1, <2>2 DEF MarkMayBeSet, OnItsWay
  <2>6. MustBe' => MustBe
    BY <1>2, <1>16, <2>4, <2>5 DEF MustBe
  <2>7. WaitingReaches => WaitingReaches'
    BY <1>2, <2>1 DEF WaitingReaches, Reaches
  <2>8. \A n : WillRead(promise, n) => WillRead(promise, n)'
    BY <1>2, <2>1 DEF WillRead, Reaches
  <2>9. \A D \in SUBSET (1..posted) : D \in SUBSET (1..posted')
    BY <1>4
  <2>10. Counted => Counted'
    BY <1>2, <2>1, <2>8, <2>9 DEF Counted
  <2> QED BY <1>1, <2>1, <2>2, <2>6, <2>7, <2>10 DEF Owed, Covered
<1>17. ASSUME Current' # Current PROVE Owed'
  <2> SUFFICES ASSUME Mark' # Unset, MustBe' PROVE Covered'
    BY DEF Owed
  <2>1. Mark' = posted
    BY <1>9, <1>17
  <2>2. me'.version # Current'
    BY <1>1, <1>2, <1>3, <1>17
  <2>3. ~MarkMayBeFound'
    BY <1>2, <1>10, <2>1 DEF MarkMayBeFound
  <2>4. ~Awaiting'
    BY <2>2, <2>3 DEF MustBe, MarkMayBeSet
  <2>5. \A n \in Processed : n \in 1..posted
    BY DEF Processed
  <2>6. Unread' = {}
    BY <1>3, <1>7, <2>1, <2>5 DEF Unread, Above
  <2>7. {} \in SUBSET (1..posted') /\ Cardinality({}) <= unread'
    BY <1>2, <1>3, FS_EmptySet
  <2>8. Counted'
    BY <2>6, <2>7 DEF Counted
  <2> QED BY <2>4, <2>8 DEF Covered
<1> QED BY <1>11, <1>12, <1>13, <1>14, <1>15, <1>16, <1>17 DEF Support

--------------------------------------------------------------------------------
(* The theorem. *)

LEMMA InitBacked == Init => Backed
<1> SUFFICES ASSUME Init PROVE ServerOrder /\ Support /\ Owed
  BY DEF Backed
<1>1. PICK streams \in 0..MaxStreams :
        /\ log = [i \in 1..streams |-> Message("stream", i)]
        /\ delivered = streams
        /\ st = [m \in Messages |->
                    [Quiet EXCEPT !.pc = IF m.type = "stream" /\ m.n <= streams
                                         THEN "done" ELSE "none"]]
        /\ posted \in IF streams >= Target THEN {0, 1} ELSE {0}
        /\ reads \in IF posted = 1 THEN {<<Unset>>, <<0>>} ELSE {<<Unset>>}
  BY DEF Init
<1>2. Basics /\ MarksAreBehind /\ ServerOrder
  BY InitBasics, InitMarks, InitKept DEF Kept
<1>3. Len(log) \in Nat /\ \A i \in 1..Len(log) : log[i].type = "stream"
  <2>1. streams \in Nat
    BY <1>1, Bounds
  <2> QED BY <1>1, <2>1, Kinds
<1>4. Current = 1 /\ Mark = reads[1] /\ Mark \in Int
  BY <1>1, <1>2, MarkFacts DEF Current, Mark
<1>5. /\ me.version = 1 /\ posts = {} /\ promise = 1 /\ unread = 0 /\ heap[1] = reads[1] /\ 1 \in Computes /\ 1 \in Objects
      /\ comp[1].pc = "unread" /\ comp[1].object = 1
      /\ \A c \in Computes : comp[c].read = {} /\ (c # 1 => comp[c].pc = "none")
  <2>1. 1 \in Computes /\ 1 \in Objects
    BY Bounds DEF Computes, Objects
  <2> QED BY <2>1 DEF Init, Idling
<1>6. \A m \in Messages : st[m].pc \in {"none", "done"} /\ st[m].shown = Unset /\ ~st[m].old
  BY <1>1 DEF Quiet
<1>7. ~Awaiting /\ \A c \in Computes : comp[c].pc \in InCore => c = 1
  BY <1>5 DEF Awaiting, InCore
<1>8. Once /\ ShownAreMarks
  BY <1>5, <1>6 DEF Once, ShownAreMarks, IsMark
<1>9. Alone
  <2>1. comp[promise].pc \in InCore
    BY <1>5 DEF InCore
  <2>2. \A c \in Computes : comp[c].pc # "waiting"
    BY <1>5
  <2>3. \A m \in Messages : st[m].pc # "waiting"
    BY <1>6
  <2> QED BY <1>5, <1>7, <2>1, <2>2, <2>3 DEF Alone
<1>10. Fresh /\ Prepared
  BY <1>5, <1>6 DEF Fresh, Prepared
<1>11. NoneEarly
  BY <1>3 DEF NoneEarly
<1>12. NewMarkIsNowhere
  BY <1>4, <1>5 DEF NewMarkIsNowhere
<1>13. Owed
  <2> SUFFICES ASSUME Mark # Unset PROVE Counted
    BY <1>7 DEF Owed, Covered
  <2>1. \A n : promise # 0 /\ WillRead(promise, n)
    BY <1>4, <1>5 DEF WillRead, Reaches
  <2>2. {} \in SUBSET (1..posted) /\ Cardinality({}) <= unread
    BY <1>5, FS_EmptySet
  <2> QED BY <2>1, <2>2 DEF Counted
<1> QED BY <1>2, <1>8, <1>9, <1>10, <1>11, <1>12, <1>13 DEF Support

\* Every step keeps it.
LEMMA NextBacked ==
    ASSUME Foundations, Foundations', Backed, [Next]_vars
    PROVE  Backed'
<1>1. Basics /\ Basics' /\ ServerOrder
  BY DEF Foundations, Backed
<1>2. ServerOrder'
  BY <1>1, NextKeepsOrder
<1>3. SUFFICES ASSUME Mild' PROVE Support' /\ Owed'
  BY <1>2 DEF Backed
<1>4. Sure
  <2>1. Mild
    BY <1>1, <1>3, MildStays
  <2> QED BY <2>1 DEF Sure, Backed
<1>5. CASE UNCHANGED vars
  <2>1. UNCHANGED <<reads, posted, log, st, me, heap, comp, promise, unread, lastReads, posts, init>>
    BY <1>5 DEF vars, server, cached, counters
  <2>2. Fresh
    BY <1>4, SureFacts DEF Support
  <2>3. Onward
    BY <2>1, <2>2 DEF Onward, SameCore, Proceeds, Fresh
  <2> QED BY <1>4, <2>1, <2>3, OnwardQuietly
<1>6. CASE ServerPosts \/ ServerMarksRead \/ ServerAddsStream
  BY <1>1, <1>4, <1>6, ServerGoesOn
<1>7. CASE Deliver \/ InitAnswer
  BY <1>3, <1>4, <1>7, BatchGoesOn, InitGoesOn
<1>8. ASSUME NEW m \in Arrived, MessageStep(m) PROVE Support' /\ Owed'
  <2>1. CASE Release(m) \/ ResolveStream(m) \/ StreamAnswer(m)
    BY <1>4, <2>1, BlockersGoOn
  <2>2. CASE GetLastReads(m) \/ GetLastReadItems(m) \/ ReadMe(m) \/ ServerAnswersMe(m)
    BY <1>4, <2>2, UsersGoOn
  <2>3. CASE Resume(m)
    BY <1>4, <2>3, WaitersGoOn
  <2>4. CASE ApplyMe(m) \/ MeAnswer(m)
    BY <1>3, <1>4, <2>4, UserGoesOn, UserShiftsOn
  <2>5. CASE ResolvePost(m) \/ StorePost(m)
    BY <1>4, <2>5, PostsGoOn
  <2>6. CASE Count(m)
    BY <1>4, <2>6, CountSupports, CountKeepsOwed
  <2>7. CASE UpdateFails(m) \/ MeFetchFails(m)
    BY <1>3, <1>4, <2>7, NoneFails DEF UpdateFails, MeFetchFails
  <2> QED BY <1>8, <2>1, <2>2, <2>3, <2>4, <2>5, <2>6, <2>7 DEF MessageStep
<1>9. ASSUME NEW c \in Computes, ComputeStep(c) PROVE Support' /\ Owed'
  <2>1. CASE ServerAnswersUnread(c) \/ UnreadAnswer(c) \/ PostsRead(c) \/ ComputeFinish(c)
    BY <1>4, <2>1, AskingGoesOn, AnswerGoesOn, ReadingGoesOn, FinishGoesOn
  <2>2. CASE ComputeResumes(c) \/ PageAnswer(c)
    BY <1>3, <1>4, <2>2, ResumingGoesOn, FetchingGoesOn
  <2>3. CASE ComputeFails(c)
    BY <1>3, <1>4, <2>3, NoneFails DEF ComputeFails
  <2> QED BY <1>9, <2>1, <2>2, <2>3 DEF ComputeStep
<1> QED BY <1>5, <1>6, <1>7, <1>8, <1>9 DEF Next

\* When everything is processed the user is the server's, so all that is unread is counted.
LEMMA SettledIsBacked == Foundations /\ Backed /\ UserIsCurrent => NoUnreadIsMissed
<1> SUFFICES ASSUME Foundations, Backed, UserIsCurrent, Settled, failures = 0, "computation" \notin overlap,
                    ~ahead, ~overtaken, ~unnoticed, ~piled
             PROVE  unread >= Truth
  BY DEF NoUnreadIsMissed
<1>1. /\ delivered = Len(log)
      /\ \A m \in Messages : st[m].pc \in Ended
      /\ \A c \in Computes : comp[c].pc \in Ended \cup {"failed"}
  BY DEF Settled, Busy
<1>2. Sure
  BY DEF Mild, Sure, Backed
<1>3. /\ Basics /\ Support /\ Owed /\ MarksAreBehind /\ \A m \in Messages : st[m].pc # "dropped"
      /\ me.version = Current /\ posted \in Nat /\ unread \in Nat /\ Mark \in Int
      /\ (promise # 0 => promise \in Computes)
  BY <1>2, SureFacts, Values, MarkFacts DEF UserIsCurrent
<1>4. promise = 0 /\ ~Awaiting
  <2>1. \A c \in Computes : comp[c].pc \notin InCore \cup {"waiting"}
    BY <1>1 DEF Ended, InCore
  <2> QED BY <1>3, <2>1 DEF Support, Alone, Awaiting
<1>5. Processed = 1..posted
  <2> SUFFICES ASSUME NEW n \in 1..posted, Post(n) \in Published PROVE st[Post(n)].pc = "done"
    BY DEF Processed
  <2>1. Post(n) \in Messages
    BY <1>3, PostsAreMessages
  <2>2. Post(n) \in Arrived
    BY <1>1, <1>3, Numbers DEF Published, Arrived, Basics
  <2>3. st[Post(n)].pc # "none"
    BY <1>3, <2>1, <2>2 DEF Basics, Staged, StagedMessage
  <2> QED BY <1>1, <1>3, <2>1, <2>3 DEF Ended
<1>6. CASE Mark = Unset
  <2>1. Truth = 0
    BY <1>6 DEF Truth, Mark
  <2> QED BY <1>3, <2>1
<1>7. CASE Mark # Unset
  <2>1. Counted
    BY <1>3, <1>4, <1>7 DEF Owed, MustBe, Covered
  <2>2. PICK D \in SUBSET (1..posted) : Cardinality(D) <= unread /\ \A n \in Unread : n \in D
    BY <1>4, <2>1 DEF Counted
  <2>3. Mark + 1 \in Int /\ 1 <= Mark + 1 /\ Mark + 1 <= posted /\ posted \in Int /\ 1 \in Int
    BY <1>3, <1>7, MarkFacts
  <2>4. Unread = (Mark + 1)..posted
    BY <1>3, <1>5, <2>3 DEF Unread, Above
  <2>5. Cardinality((Mark + 1)..posted) = IF Mark + 1 > posted THEN 0 ELSE posted - (Mark + 1) + 1
    BY <2>3, FS_Interval
  <2>6. Cardinality(Unread) = posted - Mark
    BY <1>3, <2>3, <2>4, <2>5
  <2>7. IsFiniteSet(D)
    <3>1. IsFiniteSet(1..posted)
      BY <2>3, FS_Interval
    <3> QED BY <2>2, <3>1, FS_Subset
  <2>8. Cardinality(Unread) <= Cardinality(D) /\ Cardinality(D) \in Nat
    BY <2>2, <2>7, FS_Subset, FS_CardinalityType
  <2>9. Truth = posted - Mark
    BY <1>7 DEF Truth, Mark
  <2> QED BY <1>3, <2>2, <2>6, <2>8, <2>9
<1> QED BY <1>6, <1>7

\* No unread post is missed once everything is processed: for any number of posts, changes of
\* the user and streams, though updates overlap computations and answers bring the user ahead
\* of the messages, as long as none of what NoUnreadIsMissed names has happened (unreads.ts).
THEOREM NoneIsMissed == Spec => []NoUnreadIsMissed
<1>1. Init => Foundations /\ Backed
  BY InitBasics, InitInOrder, InitLossless, InitUserKept, InitMarks, InitBacked DEF Foundations
<1>2. Foundations /\ Backed /\ [Next]_vars => Foundations' /\ Backed'
  <2> SUFFICES ASSUME Foundations, Backed, [Next]_vars PROVE Foundations' /\ Backed'
    OBVIOUS
  <2>1. Foundations'
    BY NextBasics, NextInOrder, NextLossless, NextUserKept, NextMarks DEF Foundations
  <2> QED BY <2>1, NextBacked
<1>3. Foundations /\ Backed /\ UserIsCurrent => NoUnreadIsMissed
  BY SettledIsBacked
<1> QED BY <1>1, <1>2, <1>3, UserIsTheServers, PTL DEF Spec

================================================================================
