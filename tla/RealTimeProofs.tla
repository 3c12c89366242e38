---------------------------- MODULE RealTimeProofs ----------------------------
(***************************************************************************)
(* Proofs about RealTime, for any number of posts, changes of the user,    *)
(* streams and failures, and batches of any size.                          *)
(*                                                                         *)
(* Basics (types, what is in the log, which stages a message goes through) *)
(* holds whatever happens; the other invariants rest on it, each proved on *)
(* its own: what blocks what, what can be lost, the version of the user,   *)
(* and where the unread posts begin.                                       *)
(***************************************************************************)
EXTENDS RealTime, WellFoundedInduction, SequenceTheorems, FiniteSetTheorems, TLAPS

Stages == Ended \cup {"blocked", "ready", "fetching", "init", "waiting", "counting",
                      "items", "read", "resolving", "answered"}
Progress == [pc : Stages, on : Nat, next : {"none", "counting", "items", "read"}, old : BOOLEAN,
             shown : Unset..MaxPosts, seen : 0..MaxMe]
Computing == [pc : Ended \cup InCore \cup {"waiting", "failed"}, on : 0..MaxMe,
              object : Objects, from : Unset..MaxPosts, read : SUBSET (1..MaxPosts)]

\* The stages of each kind of message.
StreamStages == {"none", "blocked", "ready", "fetching", "done"}
PostStages == {"none", "blocked", "ready", "init", "waiting", "counting", "done", "dropped"}
MeStages == {"none", "blocked", "ready", "waiting", "items", "read", "resolving", "fetching",
             "answered", "done", "dropped"}

\* No message is published twice, and what is published is what there is at the server.
Logged ==
    /\ \A i, j \in 1..Len(log) : log[i] = log[j] => i = j
    /\ \A i \in 1..Len(log) :
        /\ log[i].type = "me" => log[i].n <= Current
        /\ log[i].type = "post" => log[i].n <= posted /\ \E j \in 1..(i - 1) : log[j] = Message("stream", Target)
    /\ \A v \in 2..Current : \E i \in 1..Len(log) : log[i] = Message("me", v)

\* A message goes through the stages of its kind, from when it arrives, and waits for what exists.
Fits(m, progress) ==
    LET pc == progress.pc
        next == progress.next
    IN  /\ m.type = "stream" => pc \in StreamStages
        /\ m.type = "post" => pc \in PostStages /\ (pc = "waiting" => next = "counting")
        /\ m.type = "me" => pc \in MeStages /\ (pc = "waiting" => next \in {"items", "read"})
        /\ pc = "waiting" => progress.on \in Computes
        /\ pc = "answered" => progress.seen \in m.n..Current

StagedMessage(m) == Fits(m, st[m]) /\ (st[m].pc = "none" <=> m \notin Arrived)

StagedComputation(c) ==
    /\ comp[c].pc = "waiting" => comp[c].on \in Computes
    /\ comp[c].pc = "posts" => comp[c].from # Unset

Staged ==
    /\ \A m \in Messages : StagedMessage(m)
    /\ \A c \in Computes : StagedComputation(c)

Basics == TypeOK /\ Logged /\ Staged

--------------------------------------------------------------------------------
(* Lemmas about the constants, the messages and the log. *)

LEMMA Bounds ==
    /\ MaxPosts \in Nat \ {0} /\ MaxMe \in Nat \ {0} /\ MaxStreams \in Nat \ {0}
    /\ MaxLog \in Nat \ {0} /\ MaxBatch \in Nat \ {0} /\ MaxFailures \in Nat
  BY RealTimeAssumption

LEMMA Kinds ==
    /\ \A k \in 1..MaxStreams : Message("stream", k) \in Messages
    /\ \A n \in 1..MaxPosts : Message("post", n) \in Messages
    /\ \A v \in 2..MaxMe : Message("me", v) \in Messages
    /\ \A kind, n : Message(kind, n).type = kind /\ Message(kind, n).n = n
    /\ \A m \in Messages :
        /\ m = Message(m.type, m.n)
        /\ m.type \in {"stream", "post", "me"} /\ m.n \in Nat
        /\ m.type = "stream" => m.n \in 1..MaxStreams
        /\ m.type = "post" => m.n \in 1..MaxPosts
        /\ m.type = "me" => m.n \in 2..MaxMe
<1>1. \A kind, n : Message(kind, n).type = kind /\ Message(kind, n).n = n
  BY DEF Message
<1>2. \A k \in 1..MaxStreams : Message("stream", k) \in Messages
  BY DEF Messages
<1>3. \A n \in 1..MaxPosts : Message("post", n) \in Messages
  BY DEF Messages
<1>4. \A v \in 2..MaxMe : Message("me", v) \in Messages
  BY DEF Messages
<1>5. ASSUME NEW m \in Messages
      PROVE  /\ m = Message(m.type, m.n)
             /\ m.type \in {"stream", "post", "me"} /\ m.n \in Nat
             /\ m.type = "stream" => m.n \in 1..MaxStreams
             /\ m.type = "post" => m.n \in 1..MaxPosts
             /\ m.type = "me" => m.n \in 2..MaxMe
  <2>1. CASE \E k \in 1..MaxStreams : m = Message("stream", k)
    BY <2>1, <1>1, Bounds
  <2>2. CASE \E n \in 1..MaxPosts : m = Message("post", n)
    BY <2>2, <1>1, Bounds
  <2>3. CASE \E v \in 2..MaxMe : m = Message("me", v)
    BY <2>3, <1>1, Bounds
  <2> QED BY <2>1, <2>2, <2>3 DEF Messages
<1> QED BY <1>1, <1>2, <1>3, <1>4, <1>5

\* What TypeOK says, with the names given here to the values of st and comp.
Others ==
    /\ blocker \in 0..MaxStreams /\ known \subseteq 1..MaxStreams
    /\ me \in [version : 1..MaxMe, object : Objects \ {0}]
    /\ posts \subseteq 1..MaxPosts /\ init \in {"no", "pending", "yes", "failed"}
    /\ heap \in [Objects -> Unset..MaxPosts]
    /\ comp \in [Computes -> Computing]
    /\ promise \in 0..MaxMe /\ unread \in Nat /\ lastReads \in Objects
    /\ failures \in 0..MaxFailures
    /\ overlap \subseteq {"update", "computation"} /\ ahead \in BOOLEAN /\ overtaken \in BOOLEAN
    /\ leapt \in BOOLEAN /\ unnoticed \in BOOLEAN /\ piled \in BOOLEAN

Types ==
    /\ reads \in Seq(Unset..MaxPosts) /\ Current \in 1..MaxMe
    /\ posted \in 0..MaxPosts
    /\ log \in Seq(Messages) /\ delivered \in 0..Len(log)
    /\ st \in [Messages -> Progress]
    /\ Others

LEMMA Typed == (TypeOK <=> Types) /\ (TypeOK' <=> Types')
<1>1. TypeOK <=> Types
  BY DEF TypeOK, Types, Others, Progress, Stages, Computing
<1>2. TypeOK' <=> Types'
  BY DEF TypeOK, Types, Others, Progress, Stages, Computing
<1> QED BY <1>1, <1>2

\* What of it arithmetic needs.
LEMMA Numbers ==
    ASSUME TypeOK
    PROVE  /\ Len(log) \in Nat /\ DOMAIN log = 1..Len(log)
           /\ delivered \in Nat /\ delivered <= Len(log)
           /\ posted \in Nat /\ posted <= MaxPosts
           /\ Current \in Nat /\ 1 <= Current /\ Current <= MaxMe
<1>1. Types
  BY Typed
<1>2. log \in Seq(Messages) /\ delivered \in 0..Len(log)
  BY <1>1 DEF Types, Others
<1>3. Len(log) \in Nat /\ DOMAIN log = 1..Len(log)
  BY <1>2
<1>4. delivered \in Nat /\ delivered <= Len(log)
  BY <1>2, <1>3
<1>5. posted \in 0..MaxPosts /\ Current \in 1..MaxMe
  BY <1>1 DEF Types, Others
<1>6. posted \in Nat /\ posted <= MaxPosts
  BY <1>5, Bounds
<1>7. Current \in Nat /\ 1 <= Current /\ Current <= MaxMe
  BY <1>5, Bounds
<1> QED BY <1>3, <1>4, <1>6, <1>7

\* A message that is delivered has one place in the log.
LEMMA Places ==
    ASSUME TypeOK, Logged
    PROVE  /\ Arrived \subseteq Messages /\ Arrived \subseteq Published
           /\ \A i \in 1..Len(log) : log[i] \in Messages /\ Position(log[i]) = i
           /\ \A m \in Arrived : \E i \in 1..delivered : m = log[i]
           /\ \A i \in 1..delivered : log[i] \in Arrived /\ i \in 1..Len(log)
<1>1. log \in Seq(Messages) /\ delivered \in 0..Len(log) /\ Len(log) \in Nat
  BY Typed DEF Types, Others
<1>2. \A i \in 1..Len(log) : log[i] \in Messages
  BY <1>1
<1>3. \A i \in 1..Len(log) : Position(log[i]) = i
  BY <1>1 DEF Logged, Position
<1>4. \A i \in 1..delivered : i \in 1..Len(log)
  BY <1>1
<1> QED BY <1>1, <1>2, <1>3, <1>4 DEF Arrived, Published

\* What is published is appended, and changes nothing of what was.
LEMMA Appended ==
    ASSUME TypeOK, NEW news \in Seq(Messages), Publish(news)
    PROVE  /\ log' \in Seq(Messages) /\ Len(log') = Len(log) + Len(news)
           /\ \A i \in 1..Len(log) : log'[i] = log[i]
           /\ \A i \in 1..Len(news) : log'[Len(log) + i] = news[i]
           /\ \A i \in 1..Len(log') : i \in 1..Len(log) \/ \E j \in 1..Len(news) : i = Len(log) + j
<1>1. log \in Seq(Messages) /\ log' = log \o news
  BY Typed DEF Types, Others, Publish
<1>2. Len(log) \in Nat /\ Len(news) \in Nat
  BY <1>1
<1>3. log' \in Seq(Messages) /\ Len(log') = Len(log) + Len(news)
  BY <1>1
<1>4. \A i \in 1..Len(log) : log'[i] = log[i]
  BY <1>1
<1>5. \A i \in 1..Len(news) : log'[Len(log) + i] = news[i]
  BY <1>1, <1>2
<1>6. ASSUME NEW i \in 1..Len(log'), i \notin 1..Len(log)
      PROVE  \E j \in 1..Len(news) : i = Len(log) + j
  <2>1. i - Len(log) \in 1..Len(news) /\ i = Len(log) + (i - Len(log))
    BY <1>2, <1>3, <1>6
  <2> QED BY <2>1
<1> QED BY <1>3, <1>4, <1>5, <1>6

--------------------------------------------------------------------------------
(* Lemmas about the steps of one message. *)

LEMMA QuietIsTyped == \A pc \in Stages : [Quiet EXCEPT !.pc = pc] \in Progress
<1>1. -1 \in Unset..MaxPosts
  BY Bounds DEF Unset
<1>4. 0 \in 0..MaxMe /\ 0 \in Nat
  BY Bounds
<1>2. Quiet = [pc |-> "none", on |-> 0, next |-> "none", old |-> FALSE, shown |-> -1, seen |-> 0]
  BY DEF Quiet, Unset
<1>3. Quiet \in Progress
  BY <1>1, <1>2, <1>4 DEF Progress, Stages, Ended
<1> QED BY <1>3 DEF Progress

\* Move changes the stage of one message, and nothing else of it unless it ends.
LEMMA Moved ==
    ASSUME TypeOK, NEW m \in Messages, NEW pc \in Stages, Move(m, pc)
    PROVE  /\ st' \in [Messages -> Progress]
           /\ \A o \in Messages \ {m} : st'[o] = st[o]
           /\ st'[m].pc = pc
           /\ pc \notin Ended => /\ st'[m].on = st[m].on /\ st'[m].next = st[m].next
                                 /\ st'[m].seen = st[m].seen
<1>1. st \in [Messages -> Progress]
  BY Typed DEF Types, Others
<1>2. [Quiet EXCEPT !.pc = pc] \in Progress
  BY QuietIsTyped
<1>3. [st[m] EXCEPT !.pc = pc] \in Progress
  BY <1>1 DEF Progress
<1>4. st' = [st EXCEPT ![m] = IF pc \in Ended THEN [Quiet EXCEPT !.pc = pc]
                                             ELSE [st[m] EXCEPT !.pc = pc]]
  BY DEF Move
<1>5. st' \in [Messages -> Progress] /\ \A o \in Messages \ {m} : st'[o] = st[o]
  BY <1>1, <1>2, <1>3, <1>4
<1>6. st'[m] = IF pc \in Ended THEN [Quiet EXCEPT !.pc = pc] ELSE [st[m] EXCEPT !.pc = pc]
  BY <1>1, <1>4
<1>7. st[m] \in Progress
  BY <1>1
<1> QED BY <1>5, <1>6, <1>7 DEF Quiet, Progress

\* What awaits a computation goes on, is dropped with it, or waits for it.
LEMMA Awaited ==
    ASSUME TypeOK, NEW m \in Messages, NEW next \in {"counting", "items", "read"}
    PROVE  LET r == AwaitCompute(m, next)
           IN  /\ r \in Progress
               /\ r.pc \in {next, "dropped", "waiting"}
               /\ r.pc = "waiting" => r.on \in Computes /\ r.next = next
               /\ r.pc = "dropped" => promise \in Computes /\ comp[promise].pc = "failed"
<1>1. st[m] \in Progress /\ promise \in 0..MaxMe
  BY Typed DEF Types, Others
<1>2. promise # 0 => promise \in Computes
  BY <1>1, Bounds DEF Computes
<1>3. [st[m] EXCEPT !.pc = next] \in Progress
  BY <1>1 DEF Progress, Stages
<1>4. [Quiet EXCEPT !.pc = "dropped"] \in Progress
  BY QuietIsTyped DEF Stages, Ended
<1>5. [st[m] EXCEPT !.pc = "waiting", !.on = promise, !.next = next] \in Progress
  <2>1. promise \in Nat /\ "waiting" \in Stages /\ next \in {"none", "counting", "items", "read"}
    <3>1. promise \in Nat
      BY <1>1, Bounds
    <3> QED BY <3>1 DEF Stages
  <2>2. [st[m] EXCEPT !.pc = "waiting"] \in Progress
    BY <1>1, <2>1 DEF Progress
  <2>3. [[st[m] EXCEPT !.pc = "waiting"] EXCEPT !.on = promise] \in Progress
    BY <2>1, <2>2 DEF Progress
  <2>4. [[[st[m] EXCEPT !.pc = "waiting"] EXCEPT !.on = promise] EXCEPT !.next = next] \in Progress
    BY <2>1, <2>3 DEF Progress
  <2> QED BY <2>4
<1>6. CASE promise = 0
  BY <1>6, <1>3, <1>1 DEF AwaitCompute, Progress
<1>7. CASE promise # 0 /\ comp[promise].pc = "failed"
  BY <1>7, <1>2, <1>4 DEF AwaitCompute, Quiet
<1>8. CASE promise # 0 /\ comp[promise].pc # "failed"
  BY <1>8, <1>2, <1>5, <1>1 DEF AwaitCompute, Progress
<1> QED BY <1>6, <1>7, <1>8

LEMMA HasFirst ==
    ASSUME NEW S \in SUBSET Nat, S # {}
    PROVE  \E x \in S : \A y \in S : x <= y
<1>1. \E x \in S : \A y \in S : ~(<<y, x>> \in OpToRel(<, Nat))
  BY WFMin, NatLessThanWellFounded
<1>2. PICK x \in S : \A y \in S : ~(y < x)
  BY <1>1 DEF OpToRel
<1>3. \A y \in S : x <= y
  BY <1>2
<1> QED BY <1>3

LEMMA HasLast ==
    ASSUME NEW n \in Nat, NEW S \in SUBSET (1..n), S # {}
    PROVE  \E x \in S : \A y \in S : y <= x
<1> DEFINE T == {n - x : x \in S}
<1>1. \A x \in S : x \in Nat /\ n - x \in Nat
  OBVIOUS
<1>2. T \in SUBSET Nat /\ T # {}
  BY <1>1
<1>3. PICK t \in T : \A y \in T : t <= y
  <2> HIDE DEF T
  <2> QED BY <1>2, HasFirst
<1>4. PICK x \in S : t = n - x
  BY <1>3
<1>5. ASSUME NEW y \in S PROVE y <= x
  <2>1. n - x <= n - y
    BY <1>3, <1>4
  <2> QED BY <2>1, <1>1
<1> QED BY <1>5

\* The first message of a batch that blocks, if there is one.
LEMMA FirstBlocks ==
    ASSUME TypeOK, Logged, NEW batch \in SUBSET (1..Len(log)), Blocker(batch) # {}
    PROVE  LET f == CHOOSE f \in Blocker(batch) : TRUE
           IN  /\ Blocker(batch) = {f}
               /\ f \in batch /\ Blocks(log[f]) /\ log[f] \in Messages
               /\ log[f].n \in 1..MaxStreams
               /\ \A i \in batch : Blocks(log[i]) => f <= i
<1> DEFINE B == {i \in batch : Blocks(log[i])}
           f == CHOOSE f \in Blocker(batch) : TRUE
<1>1. Blocker(batch) = {i \in B : \A j \in B : i <= j}
  BY DEF Blocker
<1>2. f \in Blocker(batch)
  OBVIOUS
<1>3. \A i \in batch : i \in Nat
  OBVIOUS
<1>4. f \in batch /\ Blocks(log[f]) /\ \A i \in batch : Blocks(log[i]) => f <= i
  BY <1>1, <1>2
<1>5. Blocker(batch) = {f}
  BY <1>1, <1>2, <1>3
<1>6. log[f] \in Messages
  BY <1>4, Places
<1>7. log[f].n \in 1..MaxStreams
  BY <1>4, <1>6, Kinds DEF Blocks
<1> QED BY <1>4, <1>5, <1>6, <1>7

LEMMA NoneBlocks ==
    ASSUME TypeOK, Logged, NEW batch \in SUBSET (1..Len(log)), Blocker(batch) = {}
    PROVE  \A i \in batch : ~Blocks(log[i])
<1> DEFINE B == {i \in batch : Blocks(log[i])}
<1>1. SUFFICES ASSUME B # {} PROVE FALSE
  OBVIOUS
<1>2. B \in SUBSET Nat
  <2>1. \A i \in batch : i \in Nat
    OBVIOUS
  <2> QED BY <2>1
<1>4. PICK f \in B : \A i \in B : f <= i
  <2> HIDE DEF B
  <2> QED BY <1>1, <1>2, HasFirst
<1>5. f \in Blocker(batch)
  BY <1>4 DEF Blocker
<1> QED BY <1>5

\* What a delivered message is made to wait for, and what is blocked on from then on.
LEMMA BlockersAreStreams ==
    ASSUME TypeOK, Logged, NEW batch \in SUBSET (1..Len(log)), NEW i \in batch
    PROVE  BlockedBy(batch, i) \in 0..MaxStreams
<1>1. blocker \in 0..MaxStreams
  BY Typed DEF Types, Others
<1>2. CASE blocker = 0 /\ \E f \in Blocker(batch) : f < i
  <2>1. Blocker(batch) # {}
    BY <1>2
  <2> QED BY <1>2, <2>1, FirstBlocks, Bounds DEF BlockedBy
<1>3. CASE ~(blocker = 0 /\ \E f \in Blocker(batch) : f < i)
  BY <1>1, <1>3, Bounds DEF BlockedBy
<1> QED BY <1>2, <1>3

--------------------------------------------------------------------------------
(* Basics holds at first, and the server and the delivery preserve it. *)

LEMMA IdlingIsTyped ==
    \A pc \in Ended \cup InCore \cup {"waiting", "failed"}, object \in Objects :
        /\ [Idling EXCEPT !.pc = pc] \in Computing
        /\ [Idling EXCEPT !.pc = pc, !.object = object] \in Computing
<1> DEFINE Pcs == Ended \cup InCore \cup {"waiting", "failed"}
<1>1. -1 \in Unset..MaxPosts
  BY Bounds DEF Unset
<1>2. 0 \in 0..MaxMe /\ 1 \in Objects
  BY Bounds DEF Objects
<1>3. Idling = [pc |-> "none", on |-> 0, object |-> 1, from |-> -1, read |-> {}]
  BY DEF Idling, Unset
<1>4. Idling \in Computing
  BY <1>1, <1>2, <1>3 DEF Computing, Ended
<1>5. ASSUME NEW pc \in Pcs, NEW object \in Objects
      PROVE  [Idling EXCEPT !.pc = pc] \in Computing
  BY <1>4 DEF Computing
<1>6. ASSUME NEW pc \in Pcs, NEW object \in Objects
      PROVE  [[Idling EXCEPT !.pc = pc] EXCEPT !.object = object] \in Computing
  BY <1>4, <1>5 DEF Computing
<1> QED BY <1>5, <1>6

LEMMA InitBasics == Init => Basics
<1> SUFFICES ASSUME Init PROVE Basics
  OBVIOUS
<1>1. PICK streams \in 0..MaxStreams :
        /\ log = [i \in 1..streams |-> Message("stream", i)]
        /\ delivered = streams
        /\ known = 1..streams
        /\ st = [m \in Messages |->
                    [Quiet EXCEPT !.pc = IF m.type = "stream" /\ m.n <= streams
                                         THEN "done" ELSE "none"]]
        /\ posted \in IF streams >= Target THEN {0, 1} ELSE {0}
        /\ reads \in IF posted = 1 THEN {<<Unset>>, <<0>>} ELSE {<<Unset>>}
  BY DEF Init
<1>2. streams \in Nat /\ \A i \in 1..streams : i \in 1..MaxStreams
  BY <1>1, Bounds
<1>3. log \in Seq(Messages) /\ Len(log) = streams
  BY <1>1, <1>2, Kinds
<1>4. \A i \in 1..streams : log[i] = Message("stream", i) /\ log[i].type = "stream" /\ log[i].n = i
  BY <1>1, Kinds
<1>5. -1 \in Unset..MaxPosts /\ 0 \in Unset..MaxPosts /\ posted \in 0..MaxPosts
  BY <1>1, Bounds DEF Unset
<1>6. reads \in Seq(Unset..MaxPosts) /\ Current = 1 /\ reads[1] \in Unset..MaxPosts
  <2>1. reads = <<-1>> \/ reads = <<0>>
    BY <1>1 DEF Unset
  <2>2. CASE reads = <<-1>>
    BY <2>2, <1>5 DEF Current
  <2>3. CASE reads = <<0>>
    BY <2>3, <1>5 DEF Current
  <2> QED BY <2>1, <2>2, <2>3
<1>7. st \in [Messages -> Progress]
  BY <1>1, QuietIsTyped DEF Stages, Ended
<1>8. heap \in [Objects -> Unset..MaxPosts]
  BY <1>5, <1>6 DEF Init, Unset
<1>9. comp \in [Computes -> Computing]
  <2>1. Idling \in Computing /\ [Idling EXCEPT !.pc = "unread"] \in Computing
    <3>1. Idling = [pc |-> "none", on |-> 0, object |-> 1, from |-> -1, read |-> {}]
      BY DEF Idling, Unset
    <3>2. 0 \in 0..MaxMe /\ 1 \in Objects
      BY Bounds DEF Objects
    <3>3. Idling \in Computing
      BY <1>5, <3>1, <3>2 DEF Computing, Ended
    <3>4. "unread" \in Ended \cup InCore \cup {"waiting", "failed"}
      BY DEF InCore
    <3> QED BY <3>2, <3>3, <3>4, IdlingIsTyped
  <2> QED BY <2>1 DEF Init
<1>10. me \in [version : 1..MaxMe, object : Objects \ {0}]
  BY Bounds DEF Init, Objects
<1>11. TypeOK
  <2>1. known \subseteq 1..MaxStreams /\ delivered \in 0..Len(log)
    BY <1>1, <1>2, <1>3
  <2>2. /\ promise \in 0..MaxMe /\ unread \in Nat /\ lastReads \in Objects
        /\ failures \in 0..MaxFailures /\ blocker \in 0..MaxStreams
    BY Bounds DEF Init, Objects
  <2>3. Current \in 1..MaxMe
    BY <1>6, Bounds
  <2>4. /\ posts \subseteq 1..MaxPosts /\ init \in {"no", "pending", "yes", "failed"}
        /\ overlap \subseteq {"update", "computation"} /\ ahead \in BOOLEAN /\ overtaken \in BOOLEAN
        /\ leapt \in BOOLEAN /\ unnoticed \in BOOLEAN /\ piled \in BOOLEAN
    BY DEF Init
  <2>5. Types
    BY <1>3, <1>5, <1>6, <1>7, <1>8, <1>9, <1>10, <2>1, <2>2, <2>3, <2>4 DEF Types, Others
  <2> QED BY <2>5, Typed
<1>12. Logged
  BY <1>3, <1>4, <1>6 DEF Logged
<1>13. ASSUME NEW m \in Messages PROVE StagedMessage(m)
  <2>1. st[m] = [Quiet EXCEPT !.pc = IF m.type = "stream" /\ m.n <= streams THEN "done" ELSE "none"]
    BY <1>1
  <2>2. st[m].pc = IF m.type = "stream" /\ m.n <= streams THEN "done" ELSE "none"
    BY <2>1 DEF Quiet
  <2>3. m \in Arrived <=> m.type = "stream" /\ m.n <= streams
    <3>1. m \in Arrived <=> \E i \in 1..streams : m = log[i]
      BY <1>1 DEF Arrived
    <3>2. ASSUME m.type = "stream", m.n <= streams PROVE \E i \in 1..streams : m = log[i]
      <4>1. m.n \in 1..streams /\ m = Message("stream", m.n)
        BY <1>2, <3>2, Kinds
      <4> QED BY <1>4, <4>1
    <3> QED BY <1>2, <1>4, <3>1, <3>2
  <2> QED BY <2>2, <2>3 DEF StagedMessage, Fits, StreamStages, PostStages, MeStages
<1>14. \A c \in Computes : comp[c].pc \in {"none", "unread"}
  BY DEF Init, Idling
<1> QED BY <1>11, <1>12, <1>13, <1>14 DEF Basics, Staged, StagedComputation

\* What the server publishes is new, and is what there is at the server by then.
LEMMA LogGrows ==
    ASSUME Basics, NEW news \in Seq(Messages), Publish(news),
           posted' \in Nat, posted <= posted', Current' \in Nat, Current <= Current',
           \A j \in 1..Len(news) : news[j] \notin Published,
           \A i, j \in 1..Len(news) : news[i] = news[j] => i = j,
           \A j \in 1..Len(news) :
               /\ news[j].type = "me" => news[j].n <= Current'
               /\ news[j].type = "post" => news[j].n <= posted' /\ Message("stream", Target) \in Published,
           \A v \in (Current + 1)..Current' : \E j \in 1..Len(news) : news[j] = Message("me", v)
    PROVE  Logged'
<1> DEFINE n == Len(log)
<1>1. /\ log' \in Seq(Messages) /\ Len(log') = n + Len(news)
      /\ \A i \in 1..n : log'[i] = log[i]
      /\ \A i \in 1..Len(news) : log'[n + i] = news[i]
      /\ \A i \in 1..Len(log') : i \in 1..n \/ \E j \in 1..Len(news) : i = n + j
  BY Appended DEF Basics
<1>2. n \in Nat /\ Len(news) \in Nat /\ posted \in Nat /\ Current \in Nat
  <2>1. Len(news) \in Nat
    OBVIOUS
  <2> QED BY <2>1, Numbers DEF Basics
<1>3. \A i \in 1..n : log[i] \in Published /\ log[i] \in Messages
  <2>1. DOMAIN log = 1..n
    BY Numbers DEF Basics
  <2> QED BY <2>1, Places DEF Basics, Published
<1>8. /\ \A i \in 1..n : i \in 1..Len(log')
      /\ \A j \in 1..Len(news) : n + j \in 1..Len(log') /\ \A i \in 1..n : i \in 1..(n + j - 1)
  <2> HIDE DEF n
  <2> QED BY <1>1, <1>2
<1> HIDE DEF n
<1>4. ASSUME NEW i \in 1..Len(log'), NEW j \in 1..Len(log'), log'[i] = log'[j]
      PROVE  i = j
  <2>1. CASE i \in 1..n /\ j \in 1..n
    BY <1>1, <1>4, <2>1 DEF Basics, Logged, n
  <2>2. CASE i \in 1..n /\ j \notin 1..n
    BY <1>1, <1>3, <1>4, <2>2
  <2>3. CASE i \notin 1..n /\ j \in 1..n
    BY <1>1, <1>3, <1>4, <2>3
  <2>4. CASE i \notin 1..n /\ j \notin 1..n
    BY <1>1, <1>4, <2>4
  <2> QED BY <2>1, <2>2, <2>3, <2>4
<1>5. Message("stream", Target) \in Published => \E t \in 1..n : log[t] = Message("stream", Target)
  <2>1. DOMAIN log = 1..n
    BY Numbers DEF Basics, n
  <2> QED BY <2>1 DEF Published
<1>6. ASSUME NEW i \in 1..Len(log')
      PROVE  /\ log'[i].type = "me" => log'[i].n <= Current'
             /\ log'[i].type = "post" =>
                    log'[i].n <= posted' /\ \E j \in 1..(i - 1) : log'[j] = Message("stream", Target)
  <2>1. CASE i \in 1..n
    <3>1. /\ log[i].type = "me" => log[i].n <= Current
          /\ log[i].type = "post" => log[i].n <= posted /\ \E j \in 1..(i - 1) : log[j] = Message("stream", Target)
      BY <2>1 DEF Basics, Logged, n
    <3>2. log'[i] = log[i] /\ log[i].n \in Nat
      BY <1>1, <1>3, <2>1, Kinds
    <3>3. \A j \in 1..(i - 1) : log'[j] = log[j]
      BY <1>1, <1>2, <2>1
    <3>4. log'[i].type = "me" => log'[i].n <= Current'
      BY <1>2, <3>1, <3>2
    <3>5. log'[i].type = "post" => log'[i].n <= posted'
      BY <1>2, <3>1, <3>2
    <3>6. log'[i].type = "post" => \E j \in 1..(i - 1) : log'[j] = Message("stream", Target)
      BY <3>1, <3>2, <3>3
    <3> QED BY <3>4, <3>5, <3>6
  <2>2. CASE i \notin 1..n
    <3>1. PICK j \in 1..Len(news) : i = n + j /\ log'[i] = news[j]
      BY <1>1, <2>2
    <3>2. Message("stream", Target) \in Published =>
            \E t \in 1..(i - 1) : log'[t] = Message("stream", Target)
      <4> SUFFICES ASSUME Message("stream", Target) \in Published
                   PROVE  \E t \in 1..(i - 1) : log'[t] = Message("stream", Target)
        OBVIOUS
      <4>1. PICK t \in 1..n : log[t] = Message("stream", Target)
        BY <1>5
      <4>2. log'[t] = Message("stream", Target) /\ t \in 1..(n + j - 1)
        BY <1>1, <1>8, <4>1
      <4>3. i - 1 = n + j - 1
        BY <1>2, <3>1
      <4>4. t \in 1..(i - 1)
        BY <4>2, <4>3
      <4> QED BY <4>2, <4>4
    <3> QED BY <3>1, <3>2
  <2> QED BY <2>1, <2>2
<1>7. ASSUME NEW v \in 2..Current'
      PROVE  \E i \in 1..Len(log') : log'[i] = Message("me", v)
  <2>1. CASE v \in 2..Current
    <3>1. PICK i \in 1..n : log[i] = Message("me", v)
      BY <2>1 DEF Basics, Logged, n
    <3> QED BY <1>1, <1>8, <3>1
  <2>2. CASE v \notin 2..Current
    <3>1. v \in (Current + 1)..Current'
      BY <1>2, <2>2
    <3>2. PICK j \in 1..Len(news) : news[j] = Message("me", v)
      BY <3>1
    <3> QED BY <1>1, <1>8, <3>2
  <2> QED BY <2>1, <2>2
<1> QED BY <1>4, <1>6, <1>7 DEF Logged

\* While nothing arrives and the processing stays where it is, Staged stays.
LEMMA StaysStaged ==
    ASSUME Basics, delivered' = delivered, \A i \in 1..Len(log) : log'[i] = log[i],
           Current' \in Nat, Current <= Current', UNCHANGED <<st, comp>>
    PROVE  Arrived' = Arrived /\ Staged'
<1>1. /\ delivered \in Nat /\ delivered <= Len(log) /\ Len(log) \in Nat /\ Current \in Nat
  BY Numbers DEF Basics
<1>2. \A i \in 1..delivered : i \in 1..Len(log)
  BY <1>1
<1>3. Arrived' = Arrived
  BY <1>2 DEF Arrived
<1>4. ASSUME NEW m \in Messages PROVE StagedMessage(m)'
  <2>1. StagedMessage(m) /\ m.n \in Nat
    BY Kinds DEF Basics, Staged
  <2>2. st[m].seen \in m.n..Current => st[m].seen \in m.n..Current'
    BY <1>1, <2>1
  <2> QED BY <1>3, <2>1, <2>2 DEF StagedMessage, Fits
<1>5. ASSUME NEW c \in Computes PROVE StagedComputation(c)'
  BY DEF Basics, Staged, StagedComputation
<1> QED BY <1>3, <1>4, <1>5 DEF Staged

\* What the server does leaves the agent alone.
LEMMA ServerBasics ==
    ASSUME Basics, Logged',
           NEW news \in Seq(Messages), Publish(news),
           reads' \in Seq(Unset..MaxPosts), Current' \in Current..MaxMe, posted' \in 0..MaxPosts,
           UNCHANGED <<delivered, st, blocker, cached, counters, failures, overlap, ahead, overtaken, leapt, unnoticed, piled>>
    PROVE  Basics' /\ Arrived' = Arrived
<1>1. /\ log' \in Seq(Messages) /\ Len(log') = Len(log) + Len(news) /\ Len(news) \in Nat
      /\ \A i \in 1..Len(log) : log'[i] = log[i]
  BY Appended DEF Basics
<1>2. Types /\ Len(log) \in Nat /\ delivered \in Nat /\ delivered <= Len(log) /\ Current \in Nat /\ 1 <= Current
  BY Typed, Numbers DEF Basics
<1>3. Current' \in 1..MaxMe /\ Current' \in Nat /\ Current <= Current' /\ delivered \in 0..Len(log')
  BY <1>1, <1>2, Bounds
<1>4. Types'
  BY <1>1, <1>2, <1>3 DEF Types, Others, cached, counters
<1>5. Arrived' = Arrived /\ Staged'
  BY <1>1, <1>3, StaysStaged DEF counters
<1> QED BY <1>4, <1>5, Typed DEF Basics

LEMMA ServerPostsBasics == Basics /\ ServerPosts => Basics' /\ Arrived' = Arrived
<1> SUFFICES ASSUME Basics, ServerPosts PROVE Basics' /\ Arrived' = Arrived
  OBVIOUS
<1>1. /\ posted < MaxPosts /\ posted' = posted + 1 /\ Message("stream", Target) \in Published
      /\ UNCHANGED <<delivered, st, blocker, cached, counters, failures, overlap, ahead, overtaken, leapt, unnoticed, piled>>
  BY DEF ServerPosts
<1>2. Types /\ posted \in Nat /\ Current \in Nat /\ 1 <= Current /\ Current <= MaxMe
  BY Typed, Numbers DEF Basics
<1>3. /\ posted' \in Nat /\ posted < posted' /\ posted' \in 1..MaxPosts /\ posted' \in 0..MaxPosts
      /\ posted \in Unset..MaxPosts
  BY <1>1, <1>2, Bounds DEF Unset
<1> DEFINE post == Message("post", posted')
           mine == Message("me", Current + 1)
<1>4. post \in Messages /\ post.type = "post" /\ post.n = posted'
  BY <1>3, Kinds
<1>5. mine.type = "me" /\ mine.n = Current + 1
  BY Kinds
<1>6. \A i \in 1..Len(log) : log[i] # post /\ log[i] # mine
  <2> SUFFICES ASSUME NEW i \in 1..Len(log) PROVE log[i] # post /\ log[i] # mine
    OBVIOUS
  <2>1. log[i].type = "post" => log[i].n <= posted
    BY DEF Basics, Logged
  <2>2. log[i].type = "me" => log[i].n <= Current
    BY DEF Basics, Logged
  <2> HIDE DEF post, mine
  <2> QED BY <1>2, <1>3, <1>4, <1>5, <2>1, <2>2
<1>7. post \notin Published /\ mine \notin Published
  BY <1>6, Numbers DEF Basics, Published
<1> HIDE DEF post, mine
<1>8. CASE reads[Current] # Unset
  <2>1. Publish(<<post>>) /\ reads' = reads
    BY <1>8 DEF ServerPosts, post
  <2>2. <<post>> \in Seq(Messages) /\ Len(<<post>>) = 1 /\ <<post>>[1] = post
    BY <1>4
  <2>3. Current' = Current /\ Current' \in Current..MaxMe
    BY <1>2, <2>1, Bounds DEF Current
  <2>4. Logged'
    <3> DEFINE news == <<post>>
    <3>1. \A j \in 1..Len(news) : j = 1 /\ news[j] = post
      BY <2>2
    <3>2. news \in Seq(Messages) /\ Publish(news)
      BY <2>1, <2>2
    <3> HIDE DEF news
    <3>3. \A v \in (Current + 1)..Current' : FALSE
      BY <1>2, <2>3
    <3> QED BY <1>1, <1>2, <1>3, <1>4, <1>7, <2>3, <3>1, <3>2, <3>3, LogGrows
  <2> QED BY <1>1, <1>2, <1>3, <2>1, <2>2, <2>3, <2>4, ServerBasics DEF Types, Others
<1>9. CASE reads[Current] = Unset
  <2>1. Publish(<<post, mine>>) /\ reads' = Append(reads, posted) /\ Current < MaxMe
    BY <1>9 DEF ServerPosts, post, mine
  <2>2. reads' \in Seq(Unset..MaxPosts) /\ Current' = Current + 1
    BY <1>2, <1>3, <2>1 DEF Types, Others, Current
  <2>3. Current' \in Current..MaxMe /\ mine \in Messages
    <3>1. Current + 1 \in 2..MaxMe
      BY <1>2, <2>1, Bounds
    <3>2. mine \in Messages
      BY <3>1, Kinds DEF mine
    <3> QED BY <1>2, <2>1, <2>2, <3>2, Bounds
  <2>4. <<post, mine>> \in Seq(Messages)
    BY <1>4, <2>3
  <2>5. Logged'
    <3> DEFINE news == <<post, mine>>
    <3>1. Len(news) = 2 /\ news[1] = post /\ news[2] = mine
      OBVIOUS
    <3>2. news \in Seq(Messages) /\ Publish(news)
      BY <2>1, <2>4
    <3> HIDE DEF news
    <3>3. \A j \in 1..Len(news) : (j = 1 /\ news[j] = post) \/ (j = 2 /\ news[j] = mine)
      BY <3>1
    <3>4. \A v \in (Current + 1)..Current' : v = Current + 1 /\ news[2] = Message("me", v) /\ 2 \in 1..Len(news)
      BY <1>2, <2>2, <3>1 DEF mine
    <3>5. post # mine
      BY <1>4, <1>5
    <3>6. Current' \in Nat /\ Current <= Current' /\ Current + 1 <= Current'
      BY <1>2, <2>2
    <3>7. \A i, j \in 1..Len(news) : news[i] = news[j] => i = j
      BY <3>3, <3>5
    <3>8. \A j \in 1..Len(news) : news[j] \notin Published
      BY <1>7, <3>3
    <3>9. \A j \in 1..Len(news) :
               /\ news[j].type = "me" => news[j].n <= Current'
               /\ news[j].type = "post" => news[j].n <= posted' /\ Message("stream", Target) \in Published
      BY <1>1, <1>3, <1>4, <1>5, <3>3, <3>6
    <3>10. \A v \in (Current + 1)..Current' : \E j \in 1..Len(news) : news[j] = Message("me", v)
      BY <3>4
    <3> QED BY <1>3, <3>2, <3>6, <3>7, <3>8, <3>9, <3>10, LogGrows
  <2> QED BY <1>1, <1>3, <2>1, <2>2, <2>3, <2>4, <2>5, ServerBasics
<1> QED BY <1>8, <1>9

LEMMA ServerMarksReadBasics == Basics /\ ServerMarksRead => Basics' /\ Arrived' = Arrived
<1> SUFFICES ASSUME Basics, ServerMarksRead PROVE Basics' /\ Arrived' = Arrived
  OBVIOUS
<1> DEFINE mine == Message("me", Current + 1)
           news == <<mine>>
<1>1. /\ Current < MaxMe /\ reads' = Append(reads, Unset) /\ Publish(news) /\ posted' = posted
      /\ UNCHANGED <<delivered, st, blocker, cached, counters, failures, overlap, ahead, overtaken, leapt, unnoticed, piled>>
  BY DEF ServerMarksRead
<1>2. Types /\ posted \in Nat /\ Current \in Nat /\ 1 <= Current /\ Current <= MaxMe /\ posted \in 0..MaxPosts
  BY Typed, Numbers DEF Basics, Types, Others
<1>3. mine \in Messages /\ mine.type = "me" /\ mine.n = Current + 1
  <2>1. Current + 1 \in 2..MaxMe
    BY <1>1, <1>2, Bounds
  <2> QED BY <2>1, Kinds
<1>4. reads' \in Seq(Unset..MaxPosts) /\ Current' = Current + 1
  <2>1. Unset \in Unset..MaxPosts
    BY Bounds DEF Unset
  <2> QED BY <1>1, <1>2, <2>1 DEF Types, Others, Current
<1>5. Current' \in Current..MaxMe /\ Current' \in Nat /\ Current <= Current' /\ Current + 1 <= Current'
  BY <1>1, <1>2, <1>4, Bounds
<1>6. mine \notin Published
  <2>1. \A i \in 1..Len(log) : log[i].type = "me" => log[i].n <= Current
    BY DEF Basics, Logged
  <2>2. \A i \in 1..Len(log) : log[i] # mine
    <3> HIDE DEF mine
    <3> QED BY <1>2, <1>3, <2>1
  <2> QED BY <2>2, Numbers DEF Basics, Published
<1>7. news \in Seq(Messages) /\ Len(news) = 1 /\ news[1] = mine
  BY <1>3
<1>8. \A v \in (Current + 1)..Current' : \E j \in 1..Len(news) : news[j] = Message("me", v)
  <2> SUFFICES ASSUME NEW v \in (Current + 1)..Current'
               PROVE  \E j \in 1..Len(news) : news[j] = Message("me", v)
    OBVIOUS
  <2>1. v = Current + 1
    BY <1>2, <1>4
  <2> QED BY <1>7, <2>1
<1> HIDE DEF mine, news
<1>9. \A j \in 1..Len(news) : j = 1 /\ news[j] = mine
  BY <1>7
<1>10. Logged'
  <2>1. \A i, j \in 1..Len(news) : news[i] = news[j] => i = j
    BY <1>9
  <2>2. \A j \in 1..Len(news) : news[j] \notin Published
    BY <1>6, <1>9
  <2>3. \A j \in 1..Len(news) :
           /\ news[j].type = "me" => news[j].n <= Current'
           /\ news[j].type = "post" => news[j].n <= posted' /\ Message("stream", Target) \in Published
    BY <1>3, <1>5, <1>9
  <2>4. posted' \in Nat /\ posted <= posted'
    BY <1>1, <1>2
  <2> QED BY <1>1, <1>5, <1>7, <1>8, <2>1, <2>2, <2>3, <2>4, LogGrows
<1> QED BY <1>1, <1>2, <1>4, <1>5, <1>7, <1>10, ServerBasics

LEMMA ServerAddsStreamBasics == Basics /\ ServerAddsStream => Basics' /\ Arrived' = Arrived
<1> SUFFICES ASSUME Basics, ServerAddsStream PROVE Basics' /\ Arrived' = Arrived
  OBVIOUS
<1>1. PICK k \in 1..MaxStreams :
        /\ Message("stream", k) \notin Published
        /\ Publish(<<Message("stream", k)>>)
  BY DEF ServerAddsStream
<1>2. /\ UNCHANGED <<reads, posted>>
      /\ UNCHANGED <<delivered, st, blocker, cached, counters, failures, overlap, ahead, overtaken, leapt, unnoticed, piled>>
  BY DEF ServerAddsStream
<1> DEFINE stream == Message("stream", k)
           news == <<stream>>
<1>3. stream \in Messages /\ stream.type = "stream"
  BY Kinds
<1>4. stream \notin Published
  BY <1>1
<1>5. news \in Seq(Messages) /\ Len(news) = 1 /\ news[1] = stream /\ Publish(news)
  BY <1>1, <1>3
<1>6. Types /\ posted \in Nat /\ Current \in Nat /\ 1 <= Current /\ Current <= MaxMe /\ posted \in 0..MaxPosts
  BY Typed, Numbers DEF Basics, Types, Others
<1>7. Current' = Current /\ Current' \in Current..MaxMe /\ reads' \in Seq(Unset..MaxPosts)
  BY <1>2, <1>6, Bounds DEF Current, Types
<1> HIDE DEF stream, news
<1>8. \A j \in 1..Len(news) : j = 1 /\ news[j] = stream
  BY <1>5
<1>9. \A v \in (Current + 1)..Current' : FALSE
  BY <1>6, <1>7
<1>10. Logged'
  BY <1>2, <1>3, <1>4, <1>5, <1>6, <1>7, <1>8, <1>9, LogGrows
<1> QED BY <1>2, <1>5, <1>6, <1>7, <1>10, ServerBasics

--------------------------------------------------------------------------------
(* The delivery and the steps of messages preserve Basics. *)

\* The messages delivered are new, each starts or waits, and the others stay where they are.
LEMMA DeliverGives ==
    ASSUME Basics, Deliver
    PROVE  \E size \in 1..MaxBatch :
            LET batch == (delivered + 1)..(delivered + size)
            IN  /\ batch \in SUBSET (1..Len(log))
                /\ \A i \in 1..(delivered + size) : i \in 1..delivered \/ i \in batch
                /\ \A i \in batch : delivered < i /\ i <= delivered + size
                /\ delivered' = delivered + size /\ delivered' \in 0..Len(log)
                /\ Arrived' = Arrived \cup {log[i] : i \in batch}
                /\ st' \in [Messages -> Progress]
                /\ \A i \in batch :
                    LET b == BlockedBy(batch, i)
                    IN  /\ b \in 0..MaxStreams
                        /\ st'[log[i]].pc = IF b = 0 THEN "ready" ELSE "blocked"
                        /\ st'[log[i]].on = b
                /\ \A m \in Messages : m \notin {log[i] : i \in batch} => st'[m] = st[m]
                /\ blocker' \in 0..MaxStreams
                /\ blocker' = IF blocker = 0 /\ Blocker(batch) # {}
                              THEN log[CHOOSE f \in Blocker(batch) : TRUE].n ELSE blocker
<1>1. PICK size \in 1..MaxBatch :
        LET batch == (delivered + 1)..(delivered + size)
        IN  /\ delivered + size <= Len(log)
            /\ delivered' = delivered + size
            /\ st' = [m \in Messages |->
                        IF m \in {log[i] : i \in batch}
                        THEN LET b == BlockedBy(batch, Position(m))
                             IN  [st[m] EXCEPT !.pc = IF b = 0 THEN "ready" ELSE "blocked",
                                               !.on = b]
                        ELSE st[m]]
            /\ blocker' = IF blocker = 0 /\ Blocker(batch) # {}
                          THEN log[CHOOSE f \in Blocker(batch) : TRUE].n ELSE blocker
  BY DEF Deliver
<1> DEFINE batch == (delivered + 1)..(delivered + size)
           By(m) == BlockedBy(batch, Position(m))
           Stage(m) == IF By(m) = 0 THEN "ready" ELSE "blocked"
<1>2. delivered + size <= Len(log) /\ delivered' = delivered + size
  BY <1>1
<1>3. /\ st' = [m \in Messages |-> IF m \in {log[i] : i \in batch}
                                   THEN [[st[m] EXCEPT !.pc = Stage(m)] EXCEPT !.on = By(m)]
                                   ELSE st[m]]
      /\ blocker' = IF blocker = 0 /\ Blocker(batch) # {}
                    THEN log[CHOOSE f \in Blocker(batch) : TRUE].n ELSE blocker
  BY <1>1
<1>4. Len(log) \in Nat /\ delivered \in Nat /\ size \in Nat /\ 1 <= size
  <2>1. size \in Nat /\ 1 <= size
    BY Bounds
  <2> QED BY <2>1, Numbers DEF Basics
<1>5. /\ batch \in SUBSET (1..Len(log)) /\ delivered' \in 0..Len(log)
      /\ \A i \in 1..(delivered + size) : i \in 1..delivered \/ i \in batch
      /\ \A i \in batch : delivered < i /\ i <= delivered + size
      /\ \A i \in batch : i \in 1..(delivered + size)
      /\ \A i \in 1..delivered : i \in 1..(delivered + size)
  <2>1. delivered' \in 0..Len(log)
    BY <1>2, <1>4
  <2> QED BY <2>1, <1>2, <1>4
<1> HIDE DEF batch
<1>6. st \in [Messages -> Progress] /\ blocker \in 0..MaxStreams
  BY Typed DEF Basics, Types, Others
<1>7. Arrived' = Arrived \cup {log[i] : i \in batch}
  <2>1. log' = log
    BY DEF Deliver, server
  <2>2. Arrived' = {log[i] : i \in 1..(delivered + size)}
    BY <1>2, <2>1 DEF Arrived
  <2>3. \A m \in Arrived' : m \in Arrived \cup {log[i] : i \in batch}
    BY <1>5, <2>2 DEF Arrived
  <2>4. \A m \in Arrived \cup {log[i] : i \in batch} : m \in Arrived'
    BY <1>5, <2>2 DEF Arrived
  <2> QED BY <2>3, <2>4
<1>8. \A i \in batch : log[i] \in Messages /\ Position(log[i]) = i
  BY <1>5, Places DEF Basics
<1>9. ASSUME NEW i \in batch
      PROVE  /\ By(log[i]) = BlockedBy(batch, i) /\ By(log[i]) \in 0..MaxStreams
             /\ st'[log[i]] \in Progress
             /\ st'[log[i]].pc = IF BlockedBy(batch, i) = 0 THEN "ready" ELSE "blocked"
             /\ st'[log[i]].on = BlockedBy(batch, i)
  <2> DEFINE m == log[i]
             b == By(m)
             pc == Stage(m)
  <2>1. b = BlockedBy(batch, i)
    BY <1>8
  <2>2. BlockedBy(batch, i) \in 0..MaxStreams
    BY <1>5, BlockersAreStreams DEF Basics
  <2>3. b \in Nat /\ m \in Messages /\ st[m] \in Progress
    BY <1>6, <1>8, <2>1, <2>2, Bounds
  <2>4. pc \in Stages /\ pc = IF BlockedBy(batch, i) = 0 THEN "ready" ELSE "blocked"
    BY <2>1 DEF Stages
  <2>5. st'[m] = [[st[m] EXCEPT !.pc = pc] EXCEPT !.on = b]
    BY <1>3, <1>8
  <2> HIDE DEF b, pc, m, By, Stage
  <2>6. [st[m] EXCEPT !.pc = pc] \in Progress /\ [st[m] EXCEPT !.pc = pc].pc = pc
    BY <2>3, <2>4 DEF Progress
  <2>7. st'[m] \in Progress /\ st'[m].pc = pc /\ st'[m].on = b
    BY <2>3, <2>5, <2>6 DEF Progress
  <2> QED BY <2>1, <2>2, <2>4, <2>7 DEF m, b
<1>10. \A m \in Messages : m \notin {log[i] : i \in batch} => st'[m] = st[m]
  BY <1>3
<1>11. st' \in [Messages -> Progress]
  <2>1. \A m \in Messages : st'[m] \in Progress
    BY <1>6, <1>9, <1>10
  <2>2. DOMAIN st' = Messages /\ st' = [m \in Messages |-> st'[m]]
    BY <1>3
  <2> QED BY <2>1, <2>2
<1>12. blocker' \in 0..MaxStreams
  <2>1. CASE blocker = 0 /\ Blocker(batch) # {}
    <3>1. log[CHOOSE f \in Blocker(batch) : TRUE].n \in 1..MaxStreams
      BY <1>5, <2>1, FirstBlocks DEF Basics
    <3>2. blocker' = log[CHOOSE f \in Blocker(batch) : TRUE].n
      BY <1>3, <2>1
    <3> HIDE DEF Stage, By
    <3>3. blocker' \in 1..MaxStreams
      BY <3>1, <3>2
    <3> QED BY <3>3, Bounds
  <2>2. CASE ~(blocker = 0 /\ Blocker(batch) # {})
    BY <1>3, <1>6, <2>2
  <2> QED BY <2>1, <2>2
<1> HIDE DEF By, Stage
<1> WITNESS size \in 1..MaxBatch
<1> QED BY <1>2, <1>3, <1>5, <1>7, <1>9, <1>10, <1>11, <1>12 DEF batch

LEMMA DeliverBasics == Basics /\ Deliver => Basics'
<1> SUFFICES ASSUME Basics, Deliver PROVE Basics'
  OBVIOUS
<1>1. PICK size \in 1..MaxBatch :
        LET batch == (delivered + 1)..(delivered + size)
        IN  /\ delivered' \in 0..Len(log) /\ st' \in [Messages -> Progress]
            /\ Arrived' = Arrived \cup {log[i] : i \in batch}
            /\ \A i \in batch : st'[log[i]].pc \in {"ready", "blocked"}
            /\ \A m \in Messages : m \notin {log[i] : i \in batch} => st'[m] = st[m]
            /\ blocker' \in 0..MaxStreams
  BY DeliverGives
<1> DEFINE new == {log[i] : i \in (delivered + 1)..(delivered + size)}
<1>2. /\ delivered' \in 0..Len(log) /\ st' \in [Messages -> Progress] /\ blocker' \in 0..MaxStreams
      /\ Arrived' = Arrived \cup new
      /\ \A m \in new : st'[m].pc \in {"ready", "blocked"}
      /\ \A m \in Messages : m \notin new => st'[m] = st[m]
  BY <1>1
<1> HIDE DEF new
<1>3. UNCHANGED <<server, cached, counters, failures, overlap, ahead, overtaken, leapt, unnoticed, piled>>
  BY DEF Deliver
<1>4. Types
  BY Typed DEF Basics
<1>5. Types'
  BY <1>2, <1>3, <1>4 DEF Types, Others, server, cached, counters, Current
<1>6. ASSUME NEW m \in Messages PROVE StagedMessage(m)'
  <2>1. StagedMessage(m) /\ Current' = Current
    BY <1>3 DEF Basics, Staged, server, Current
  <2>2. CASE m \in new
    <3>1. st'[m].pc \in {"ready", "blocked"} /\ m \in Arrived'
      BY <1>2, <2>2
    <3> QED BY <3>1 DEF StagedMessage, Fits, StreamStages, PostStages, MeStages
  <2>3. CASE m \notin new
    <3>1. st'[m] = st[m] /\ (m \in Arrived' <=> m \in Arrived)
      BY <1>2, <2>3
    <3> QED BY <2>1, <3>1 DEF StagedMessage, Fits
  <2> QED BY <2>2, <2>3
<1>7. ASSUME NEW c \in Computes PROVE StagedComputation(c)'
  BY <1>3 DEF Basics, Staged, StagedComputation, counters
<1>8. Logged'
  BY <1>3 DEF Basics, Logged, server, Current
<1> QED BY <1>5, <1>6, <1>7, <1>8, Typed DEF Basics, Staged

\* What a step of one message has to establish.
LEMMA MessageBasics ==
    ASSUME Basics, NEW m \in Arrived, UNCHANGED <<server, delivered>>,
           st' \in [Messages -> Progress], \A o \in Messages \ {m} : st'[o] = st[o],
           Fits(m, st'[m]), st'[m].pc # "none", Others',
           \A c \in Computes : StagedComputation(c)'
    PROVE  Basics' /\ Arrived' = Arrived
<1>1. Types
  BY Typed DEF Basics
<1>2. Types'
  BY <1>1 DEF Types, server, Current
<1>3. Arrived' = Arrived /\ Logged' /\ Current' = Current
  BY DEF Basics, Logged, Arrived, server, Current
<1>4. ASSUME NEW o \in Messages PROVE StagedMessage(o)'
  <2>1. CASE o = m
    BY <1>3, <2>1 DEF StagedMessage, Fits
  <2>2. CASE o # m
    <3>1. st'[o] = st[o] /\ StagedMessage(o)
      BY <2>2 DEF Basics, Staged
    <3> QED BY <1>3, <3>1 DEF StagedMessage, Fits
  <2> QED BY <2>1, <2>2
<1> QED BY <1>2, <1>3, <1>4, Typed DEF Basics, Staged

\* ... if it moves the message to a stage without conditions.
LEMMA MoveBasics ==
    ASSUME Basics, NEW m \in Arrived, UNCHANGED <<server, delivered>>,
           NEW pc \in Stages \ {"none", "waiting", "answered"}, Move(m, pc),
           m.type = "stream" => pc \in StreamStages,
           m.type = "post" => pc \in PostStages,
           m.type = "me" => pc \in MeStages,
           Others', \A c \in Computes : StagedComputation(c)'
    PROVE  /\ Basics' /\ Arrived' = Arrived /\ m \in Messages
           /\ st'[m].pc = pc /\ \A o \in Messages \ {m} : st'[o] = st[o]
<1>1. m \in Messages
  BY Places DEF Basics
<1>2. st' \in [Messages -> Progress] /\ st'[m].pc = pc /\ \A o \in Messages \ {m} : st'[o] = st[o]
  BY <1>1, Moved DEF Basics
<1>3. Fits(m, st'[m]) /\ st'[m].pc # "none"
  BY <1>2 DEF Fits
<1> QED BY <1>1, <1>2, <1>3, MessageBasics

LEMMA ComputationsStay ==
    ASSUME Basics, comp' = comp
    PROVE  \A c \in Computes : StagedComputation(c)'
  BY DEF Basics, Staged, StagedComputation

LEMMA FailingCounts ==
    ASSUME Basics, Fail
    PROVE  failures' \in 0..MaxFailures /\ failures' > 0
<1>1. failures \in 0..MaxFailures
  BY Typed DEF Basics, Types, Others
<1> QED BY <1>1, Bounds DEF Fail, MayFail

\* A message in one of these stages is of the kind that has it.
LEMMA OfKind ==
    ASSUME Basics, NEW m \in Arrived
    PROVE  /\ m \in Messages /\ Fits(m, st[m]) /\ st[m] \in Progress
           /\ m.type \in {"stream", "post", "me"}
           /\ st[m].pc \in {"init", "counting"} => m.type = "post"
           /\ st[m].pc \in {"items", "read", "resolving", "answered"} => m.type = "me"
           /\ st[m].pc = "waiting" => m.type \in {"post", "me"}
<1>1. m \in Messages /\ m.type \in {"stream", "post", "me"}
  BY Places, Kinds DEF Basics
<1>2. Fits(m, st[m]) /\ st[m] \in Progress
  BY <1>1, Typed DEF Basics, Staged, StagedMessage, Types
<1> QED BY <1>1, <1>2 DEF Fits, StreamStages, PostStages, MeStages

LEMMA ReleaseBasics ==
    ASSUME Basics, NEW m \in Arrived, Release(m)
    PROVE  /\ Basics' /\ Arrived' = Arrived
           /\ st'[m].pc = "ready" /\ \A o \in Messages \ {m} : st'[o] = st[o]
<1>1. /\ Move(m, "ready") /\ blocker' = IF Blocks(m) THEN m.n ELSE blocker
      /\ piled' = (piled \/ Blocks(m))
      /\ UNCHANGED <<server, delivered, cached, counters, failures, overlap, ahead, overtaken, leapt, unnoticed>>
  BY DEF Release
<1>2. Blocks(m) => m.n \in 1..MaxStreams
  BY OfKind, Kinds DEF Blocks
<1>3. Others
  BY Typed DEF Basics, Types
<1>4. blocker' \in 0..MaxStreams
  BY <1>1, <1>2, <1>3, Bounds DEF Others
<1>5. piled' \in BOOLEAN
  BY <1>1
<1>6. Others'
  BY <1>1, <1>3, <1>4, <1>5 DEF Others, cached, counters
<1>7. \A c \in Computes : StagedComputation(c)'
  BY <1>1, ComputationsStay DEF counters
<1>8. "ready" \in Stages \ {"none", "waiting", "answered"}
  BY DEF Stages
<1>9. "ready" \in StreamStages /\ "ready" \in PostStages /\ "ready" \in MeStages
  BY DEF StreamStages, PostStages, MeStages
<1> QED BY <1>1, <1>6, <1>7, <1>8, <1>9, MoveBasics

LEMMA ResolveStreamBasics ==
    ASSUME Basics, NEW m \in Arrived, ResolveStream(m)
    PROVE  /\ Basics' /\ Arrived' = Arrived
           /\ st'[m].pc \in {"done", "fetching"} /\ \A o \in Messages \ {m} : st'[o] = st[o]
<1>1. /\ m.type = "stream"
      /\ \/ Move(m, "done") /\ blocker' = 0 /\ known' = known \cup {m.n}
         \/ Move(m, "fetching") /\ UNCHANGED <<known, blocker>>
      /\ UNCHANGED <<server, delivered, me, posts, init, counters, failures, overlap, ahead, overtaken, leapt, unnoticed, piled>>
  BY DEF ResolveStream, FinishStream
<1>2. Others /\ m.n \in 1..MaxStreams
  BY <1>1, OfKind, Typed, Kinds DEF Basics, Types
<1>3. known' \subseteq 1..MaxStreams /\ blocker' \in 0..MaxStreams
  <2>1. known' \subseteq 1..MaxStreams
    BY <1>1, <1>2 DEF Others
  <2>2. 0 \in 0..MaxStreams
    BY Bounds
  <2>3. blocker' = 0 \/ blocker' = blocker
    BY <1>1
  <2> QED BY <1>2, <2>1, <2>2, <2>3 DEF Others
<1>4. Others'
  BY <1>1, <1>2, <1>3 DEF Others, counters
<1>5. \A c \in Computes : StagedComputation(c)'
  BY <1>1, ComputationsStay DEF counters
<1>6. PICK pc \in {"done", "fetching"} : Move(m, pc)
  BY <1>1
<1>7. pc \in Stages \ {"none", "waiting", "answered"} /\ pc \in StreamStages
  BY <1>6 DEF Stages, Ended, StreamStages
<1> QED BY <1>1, <1>4, <1>5, <1>6, <1>7, MoveBasics

LEMMA StreamAnswerBasics ==
    ASSUME Basics, NEW m \in Arrived, StreamAnswer(m)
    PROVE  /\ Basics' /\ Arrived' = Arrived
           /\ st'[m].pc = "done" /\ \A o \in Messages \ {m} : st'[o] = st[o]
<1>1. /\ m.type = "stream" /\ Move(m, "done") /\ blocker' = 0
      /\ \/ known' = known \cup {m.n} /\ UNCHANGED failures
         \/ Fail /\ UNCHANGED known
      /\ UNCHANGED <<server, delivered, me, posts, init, counters, overlap, ahead, overtaken, leapt, unnoticed, piled>>
  BY DEF StreamAnswer, FinishStream
<1>2. Others /\ m.n \in 1..MaxStreams
  BY <1>1, OfKind, Typed, Kinds DEF Basics, Types
<1>3. known' \subseteq 1..MaxStreams /\ blocker' \in 0..MaxStreams
  <2>1. known' \subseteq 1..MaxStreams
    BY <1>1, <1>2 DEF Others
  <2>2. 0 \in 0..MaxStreams
    BY Bounds
  <2>3. blocker' = 0 \/ blocker' = blocker
    BY <1>1
  <2> QED BY <1>2, <2>1, <2>2, <2>3 DEF Others
<1>4. failures' \in 0..MaxFailures
  BY <1>1, <1>2, FailingCounts DEF Others
<1>5. Others'
  BY <1>1, <1>2, <1>3, <1>4 DEF Others, counters
<1>6. \A c \in Computes : StagedComputation(c)'
  BY <1>1, ComputationsStay DEF counters
<1>7. "done" \in Stages \ {"none", "waiting", "answered"} /\ "done" \in StreamStages
  BY DEF Stages, Ended, StreamStages
<1> QED BY <1>1, <1>5, <1>6, <1>7, MoveBasics

\* An update begins: it goes on, waits, or is given up with the computation it waits for.
LEMMA UpdateStarts ==
    ASSUME Basics, NEW m \in Arrived, m.type = "post", NEW old \in BOOLEAN, StartUpdate(m, old)
    PROVE  /\ st' \in [Messages -> Progress] /\ \A o \in Messages \ {m} : st'[o] = st[o]
           /\ Fits(m, st'[m]) /\ st'[m].pc \in {"counting", "waiting", "dropped"}
           /\ st'[m].pc = "dropped" => promise \in Computes /\ comp[promise].pc = "failed"
           /\ overlap' \subseteq {"update", "computation"}
<1> DEFINE a == AwaitCompute(m, "counting")
           r == [a EXCEPT !.old = old]
<1>1. m \in Messages /\ st \in [Messages -> Progress]
  BY OfKind, Typed DEF Basics, Types
<1>2. /\ a \in Progress /\ a.pc \in {"counting", "dropped", "waiting"}
      /\ a.pc = "waiting" => a.on \in Computes /\ a.next = "counting"
      /\ a.pc = "dropped" => promise \in Computes /\ comp[promise].pc = "failed"
  BY <1>1, Awaited DEF Basics
<1>3. st' = [st EXCEPT ![m] = r]
  BY DEF StartUpdate
<1> HIDE DEF a
<1>4. r \in Progress /\ r.pc = a.pc /\ r.on = a.on /\ r.next = a.next
  BY <1>2 DEF Progress
<1> HIDE DEF r
<1>5. st' \in [Messages -> Progress] /\ st'[m] = r /\ \A o \in Messages \ {m} : st'[o] = st[o]
  BY <1>1, <1>3, <1>4
<1>6. Fits(m, r)
  BY <1>2, <1>4 DEF Fits, PostStages
<1>7. overlap' \subseteq {"update", "computation"}
  BY Typed DEF StartUpdate, Basics, Types, Others, When
<1> QED BY <1>2, <1>4, <1>5, <1>6, <1>7

LEMMA ResolvePostBasics ==
    ASSUME Basics, NEW m \in Arrived, ResolvePost(m)
    PROVE  /\ Basics' /\ Arrived' = Arrived
           /\ st'[m].pc \in {"init", "counting", "waiting", "dropped"}
           /\ \A o \in Messages \ {m} : st'[o] = st[o]
           /\ st'[m].pc = "dropped" => init = "failed" \/ (promise \in Computes /\ comp[promise].pc = "failed")
<1>1. /\ m.type = "post"
      /\ UNCHANGED <<server, delivered, blocker, known, me, counters, failures, ahead, overtaken, leapt, unnoticed, piled>>
  BY DEF ResolvePost
<1>2. Others /\ m.n \in 1..MaxPosts /\ m \in Messages
  BY <1>1, OfKind, Typed, Kinds DEF Basics, Types
<1>3. \A c \in Computes : StagedComputation(c)'
  BY <1>1, ComputationsStay DEF counters
<1>4. posts' \subseteq 1..MaxPosts /\ init' \in {"no", "pending", "yes", "failed"}
  BY <1>2 DEF ResolvePost, Others
<1>5. CASE \E old \in BOOLEAN : StartUpdate(m, old)
  <2>1. /\ st' \in [Messages -> Progress] /\ \A o \in Messages \ {m} : st'[o] = st[o]
        /\ Fits(m, st'[m]) /\ st'[m].pc \in {"counting", "waiting", "dropped"}
        /\ st'[m].pc = "dropped" => promise \in Computes /\ comp[promise].pc = "failed"
        /\ overlap' \subseteq {"update", "computation"}
    BY <1>1, <1>5, UpdateStarts
  <2>2. Others'
    BY <1>1, <1>2, <1>4, <2>1 DEF Others, counters
  <2> QED BY <1>1, <1>3, <2>1, <2>2, MessageBasics
<1>6. CASE Move(m, IF init = "failed" THEN "dropped" ELSE "init") /\ overlap' = overlap
  <2>1. PICK pc \in {"init", "dropped"} : Move(m, pc) /\ (pc = "dropped" => init = "failed")
    BY <1>6
  <2>2. pc \in Stages \ {"none", "waiting", "answered"} /\ pc \in PostStages
    BY <2>1 DEF Stages, Ended, PostStages
  <2>3. Others'
    BY <1>1, <1>2, <1>4, <1>6 DEF Others, counters
  <2> QED BY <1>1, <1>3, <2>1, <2>2, <2>3, MoveBasics
<1> QED BY <1>5, <1>6 DEF ResolvePost

LEMMA StorePostBasics ==
    ASSUME Basics, NEW m \in Arrived, StorePost(m)
    PROVE  /\ Basics' /\ Arrived' = Arrived
           /\ st'[m].pc \in {"counting", "waiting", "dropped"}
           /\ \A o \in Messages \ {m} : st'[o] = st[o]
           /\ st'[m].pc = "dropped" => init = "failed" \/ (promise \in Computes /\ comp[promise].pc = "failed")
<1>1. /\ m.type = "post" /\ init \in {"yes", "failed"}
      /\ UNCHANGED <<server, delivered, blocker, known, me, init, counters, failures, ahead, overtaken, leapt, unnoticed, piled>>
  BY OfKind DEF StorePost
<1>2. Others /\ m.n \in 1..MaxPosts /\ m \in Messages
  BY <1>1, OfKind, Typed, Kinds DEF Basics, Types
<1>3. \A c \in Computes : StagedComputation(c)'
  BY <1>1, ComputationsStay DEF counters
<1>4. posts' \subseteq 1..MaxPosts
  BY <1>2 DEF StorePost, Others
<1>5. CASE init = "yes"
  <2>1. StartUpdate(m, FALSE)
    BY <1>5 DEF StorePost
  <2>2. /\ st' \in [Messages -> Progress] /\ \A o \in Messages \ {m} : st'[o] = st[o]
        /\ Fits(m, st'[m]) /\ st'[m].pc \in {"counting", "waiting", "dropped"}
        /\ st'[m].pc = "dropped" => promise \in Computes /\ comp[promise].pc = "failed"
        /\ overlap' \subseteq {"update", "computation"}
    BY <1>1, <2>1, UpdateStarts
  <2>3. Others'
    BY <1>1, <1>2, <1>4, <2>2 DEF Others, counters
  <2> QED BY <1>1, <1>3, <2>2, <2>3, MessageBasics
<1>6. CASE init # "yes"
  <2>1. Move(m, "dropped") /\ UNCHANGED <<posts, overlap>> /\ init = "failed"
    BY <1>1, <1>6 DEF StorePost
  <2>2. "dropped" \in Stages \ {"none", "waiting", "answered"} /\ "dropped" \in PostStages
    BY DEF Stages, Ended, PostStages
  <2>3. Others'
    BY <1>1, <1>2, <2>1 DEF Others, counters
  <2> QED BY <1>1, <1>3, <2>1, <2>2, <2>3, MoveBasics
<1> QED BY <1>5, <1>6

LEMMA CountBasics ==
    ASSUME Basics, NEW m \in Arrived, Count(m)
    PROVE  /\ Basics' /\ Arrived' = Arrived
           /\ st'[m].pc = IF Target \in known THEN "done" ELSE "dropped"
           /\ \A o \in Messages \ {m} : st'[o] = st[o]
<1>1. /\ m.type = "post"
      /\ Move(m, IF Target \in known THEN "done" ELSE "dropped")
      /\ UNCHANGED <<server, delivered, blocker, cached, comp, promise, lastReads, failures,
                     overlap, ahead, overtaken, leapt, unnoticed, piled>>
  BY OfKind DEF Count
<1>2. Others /\ m.n \in 1..MaxPosts /\ m \in Messages
  BY <1>1, OfKind, Typed, Kinds DEF Basics, Types
<1>3. \A c \in Computes : StagedComputation(c)'
  BY <1>1, ComputationsStay
<1>4. unread' \in Nat
  BY <1>2 DEF Count, Others
<1>5. heap' \in [Objects -> Unset..MaxPosts]
  <2>1. m.n - 1 \in Unset..MaxPosts
    BY <1>2, Bounds DEF Unset
  <2> QED BY <1>2, <2>1 DEF Count, Others
<1>6. Others'
  BY <1>1, <1>2, <1>4, <1>5 DEF Others, cached
<1>7. PICK pc \in {"done", "dropped"} : pc = IF Target \in known THEN "done" ELSE "dropped"
  OBVIOUS
<1>8. pc \in Stages \ {"none", "waiting", "answered"} /\ pc \in PostStages
  BY <1>7 DEF Stages, Ended, PostStages
<1> QED BY <1>1, <1>3, <1>6, <1>7, <1>8, MoveBasics

LEMMA UpdateFailsBasics ==
    ASSUME Basics, NEW m \in Arrived, UpdateFails(m) \/ MeFetchFails(m)
    PROVE  /\ Basics' /\ Arrived' = Arrived
           /\ st'[m].pc = "dropped" /\ failures' > 0
           /\ \A o \in Messages \ {m} : st'[o] = st[o]
<1>1. /\ m.type \in {"post", "me"} /\ Move(m, "dropped") /\ Fail
      /\ UNCHANGED <<server, delivered, blocker, cached, counters, overlap, ahead, overtaken, leapt, unnoticed, piled>>
  BY OfKind DEF UpdateFails, MeFetchFails
<1>2. Others
  BY Typed DEF Basics, Types
<1>3. failures' \in 0..MaxFailures /\ failures' > 0
  BY <1>1, FailingCounts
<1>4. Others'
  BY <1>1, <1>2, <1>3 DEF Others, cached, counters
<1>5. \A c \in Computes : StagedComputation(c)'
  BY <1>1, ComputationsStay DEF counters
<1>6. "dropped" \in Stages \ {"none", "waiting", "answered"} /\ "dropped" \in PostStages /\ "dropped" \in MeStages
  BY DEF Stages, Ended, PostStages, MeStages
<1> QED BY <1>1, <1>3, <1>4, <1>5, <1>6, MoveBasics

\* The cache grows by posts the server has.
LEMMA PostsCached ==
    ASSUME Basics, NEW answer \in SUBSET (1..MaxPosts), CachePosts(answer)
    PROVE  posts' \subseteq 1..MaxPosts /\ ahead' \in BOOLEAN
<1>1. posts \subseteq 1..MaxPosts
  BY Typed DEF Basics, Types, Others
<1>2. posts' \subseteq 1..MaxPosts
  BY <1>1 DEF CachePosts
<1>3. ahead' \in BOOLEAN
  BY DEF CachePosts
<1> QED BY <1>2, <1>3

\* A step that no message takes.
LEMMA QuietBasics ==
    ASSUME Basics, UNCHANGED <<server, delivered, st>>, Others', \A c \in Computes : StagedComputation(c)'
    PROVE  Basics' /\ Arrived' = Arrived
<1>1. Types'
  BY Typed DEF Basics, Types, server, Current
<1>2. Arrived' = Arrived /\ Logged' /\ Current' = Current
  BY DEF Basics, Logged, Arrived, server, Current
<1>3. \A m \in Messages : StagedMessage(m)'
  BY <1>2 DEF Basics, Staged, StagedMessage, Fits
<1> QED BY <1>1, <1>2, <1>3, Typed DEF Basics, Staged

LEMMA InitAnswerBasics == Basics /\ InitAnswer => Basics' /\ Arrived' = Arrived
<1> SUFFICES ASSUME Basics, InitAnswer PROVE Basics' /\ Arrived' = Arrived
  OBVIOUS
<1>1. UNCHANGED <<server, delivered, st, blocker, known, me, counters, overlap, overtaken, leapt, unnoticed, piled>>
  BY DEF InitAnswer
<1>2. Others
  BY Typed DEF Basics, Types
<1>3. posts' \subseteq 1..MaxPosts /\ ahead' \in BOOLEAN /\ init' \in {"yes", "failed"} /\ failures' \in 0..MaxFailures
  <2>1. CASE init' = "yes" /\ CachePosts(1..posted) /\ UNCHANGED failures
    <3>1. 1..posted \in SUBSET (1..MaxPosts)
      BY Numbers, Bounds DEF Basics
    <3> QED BY <1>2, <2>1, <3>1, PostsCached DEF Others
  <2>2. CASE init' = "failed" /\ Fail /\ UNCHANGED <<posts, ahead>>
    BY <1>2, <2>2, FailingCounts DEF Others
  <2> QED BY <2>1, <2>2 DEF InitAnswer
<1>4. Others'
  BY <1>1, <1>2, <1>3 DEF Others, counters
<1>5. \A c \in Computes : StagedComputation(c)'
  BY <1>1, ComputationsStay DEF counters
<1> QED BY <1>1, <1>4, <1>5, QuietBasics

LEMMA ResumeBasics ==
    ASSUME Basics, NEW m \in Arrived, Resume(m)
    PROVE  /\ Basics' /\ Arrived' = Arrived /\ m.type \in {"post", "me"}
           /\ st[m].pc = "waiting" /\ st'[m].pc \in {"counting", "items", "read", "dropped"}
           /\ \A o \in Messages \ {m} : st'[o] = st[o]
           /\ st'[m].pc = "dropped" => st[m].on \in Computes /\ comp[st[m].on].pc = "failed"
<1>1. /\ st[m].pc = "waiting"
      /\ UNCHANGED <<server, delivered, blocker, cached, counters, failures, overlap, ahead, overtaken, leapt, unnoticed, piled>>
  BY DEF Resume
<1>2. /\ m \in Messages /\ m.type \in {"post", "me"} /\ Fits(m, st[m]) /\ st[m].on \in Computes
      /\ st \in [Messages -> Progress] /\ Others
  BY <1>1, OfKind, Typed DEF Basics, Types, Fits
<1>3. Others'
  BY <1>1, <1>2 DEF Others, cached, counters
<1>4. \A c \in Computes : StagedComputation(c)'
  BY <1>1, ComputationsStay DEF counters
<1>5. CASE comp[st[m].on].pc = "failed"
  <2>1. Move(m, "dropped")
    BY <1>5 DEF Resume
  <2>2. "dropped" \in Stages \ {"none", "waiting", "answered"} /\ "dropped" \in PostStages /\ "dropped" \in MeStages
    BY DEF Stages, Ended, PostStages, MeStages
  <2> QED BY <1>1, <1>2, <1>3, <1>4, <1>5, <2>1, <2>2, MoveBasics
<1>6. CASE comp[st[m].on].pc # "failed"
  <2> DEFINE old == st[m]
             shown == IF old.next = "items" THEN heap[lastReads] ELSE old.shown
             a == [old EXCEPT !.pc = old.next]
             b == [a EXCEPT !.on = 0]
             c == [b EXCEPT !.next = "none"]
             d == [c EXCEPT !.shown = shown]
  <2>1. st' = [st EXCEPT ![m] = d]
    BY <1>6 DEF Resume
  <2>2. /\ old \in Progress /\ old.next \in {"counting", "items", "read"} /\ old.next \in Stages
        /\ m.type = "post" => old.next = "counting"
        /\ m.type = "me" => old.next \in {"items", "read"}
    BY <1>1, <1>2 DEF Fits, Stages
  <2>3. shown \in Unset..MaxPosts
    BY <1>2, <2>2 DEF Others, Progress
  <2> HIDE DEF old, shown
  <2>4. a \in Progress /\ a.pc = old.next
    BY <2>2 DEF Progress
  <2> HIDE DEF a
  <2>5. b \in Progress /\ b.pc = old.next
    BY <2>4, Bounds DEF Progress
  <2> HIDE DEF b
  <2>6. c \in Progress /\ c.pc = old.next
    BY <2>5, Bounds DEF Progress
  <2> HIDE DEF c
  <2>7. d \in Progress /\ d.pc = old.next
    BY <2>3, <2>6, Bounds DEF Progress
  <2> HIDE DEF d
  <2>8. st' \in [Messages -> Progress] /\ st'[m] = d /\ \A o \in Messages \ {m} : st'[o] = st[o]
    BY <1>2, <2>1, <2>7
  <2>9. Fits(m, d) /\ d.pc \in {"counting", "items", "read"}
    BY <1>2, <2>2, <2>7 DEF Fits, PostStages, MeStages
  <2> QED BY <1>1, <1>2, <1>3, <1>4, <2>8, <2>9, MessageBasics
<1> QED BY <1>5, <1>6

LEMMA GetBasics ==
    ASSUME Basics, NEW m \in Arrived, GetLastReads(m) \/ GetLastReadItems(m)
    PROVE  /\ Basics' /\ Arrived' = Arrived /\ m.type = "me"
           /\ st'[m].pc \in {"items", "read", "waiting", "dropped"}
           /\ \A o \in Messages \ {m} : st'[o] = st[o]
           /\ st'[m].pc = "dropped" => promise \in Computes /\ comp[promise].pc = "failed"
<1>1. /\ m.type = "me"
      /\ UNCHANGED <<server, delivered, blocker, cached, counters, failures, overlap, ahead, overtaken, leapt, unnoticed, piled>>
  BY OfKind DEF GetLastReads, GetLastReadItems
<1>2. m \in Messages /\ st \in [Messages -> Progress] /\ Others
  BY OfKind, Typed DEF Basics, Types
<1>3. Others'
  BY <1>1, <1>2 DEF Others, cached, counters
<1>4. \A c \in Computes : StagedComputation(c)'
  BY <1>1, ComputationsStay DEF counters
<1>5. \E next \in {"items", "read"}, r \in Progress :
        /\ st' = [st EXCEPT ![m] = r]
        /\ r.pc \in {next, "dropped", "waiting"}
        /\ r.pc = "waiting" => r.on \in Computes /\ r.next = next
        /\ r.pc = "dropped" => promise \in Computes /\ comp[promise].pc = "failed"
  <2>1. CASE GetLastReads(m)
    <3> DEFINE a == AwaitCompute(m, "items")
               r == [a EXCEPT !.shown = heap[lastReads]]
    <3>1. st' = [st EXCEPT ![m] = r]
      BY <2>1 DEF GetLastReads
    <3>2. /\ a \in Progress /\ a.pc \in {"items", "dropped", "waiting"}
          /\ a.pc = "waiting" => a.on \in Computes /\ a.next = "items"
          /\ a.pc = "dropped" => promise \in Computes /\ comp[promise].pc = "failed"
      BY <1>2, Awaited DEF Basics
    <3>3. heap[lastReads] \in Unset..MaxPosts
      BY <1>2 DEF Others
    <3> HIDE DEF a
    <3>4. r \in Progress /\ r.pc = a.pc /\ r.on = a.on /\ r.next = a.next
      BY <3>2, <3>3 DEF Progress
    <3> HIDE DEF r
    <3> QED BY <3>1, <3>2, <3>4
  <2>2. CASE GetLastReadItems(m)
    <3> DEFINE a == AwaitCompute(m, "read")
    <3>1. st' = [st EXCEPT ![m] = a]
      BY <2>2 DEF GetLastReadItems
    <3>2. /\ a \in Progress /\ a.pc \in {"read", "dropped", "waiting"}
          /\ a.pc = "waiting" => a.on \in Computes /\ a.next = "read"
          /\ a.pc = "dropped" => promise \in Computes /\ comp[promise].pc = "failed"
      BY <1>2, Awaited DEF Basics
    <3> HIDE DEF a
    <3> QED BY <3>1, <3>2
  <2> QED BY <2>1, <2>2
<1>6. PICK next \in {"items", "read"}, r \in Progress :
        /\ st' = [st EXCEPT ![m] = r]
        /\ r.pc \in {next, "dropped", "waiting"}
        /\ r.pc = "waiting" => r.on \in Computes /\ r.next = next
        /\ r.pc = "dropped" => promise \in Computes /\ comp[promise].pc = "failed"
  BY <1>5
<1>7. st' \in [Messages -> Progress] /\ st'[m] = r /\ \A o \in Messages \ {m} : st'[o] = st[o]
  BY <1>2, <1>6
<1>8. Fits(m, r)
  BY <1>1, <1>6 DEF Fits, MeStages
<1> QED BY <1>1, <1>3, <1>4, <1>6, <1>7, <1>8, MessageBasics

LEMMA ReadMeBasics ==
    ASSUME Basics, NEW m \in Arrived, ReadMe(m)
    PROVE  /\ Basics' /\ Arrived' = Arrived /\ m.type = "me"
           /\ st'[m].pc = "resolving" /\ st'[m].seen = me.version
           /\ \A o \in Messages \ {m} : st'[o] = st[o]
<1> DEFINE a == [st[m] EXCEPT !.pc = "resolving"]
           b == [a EXCEPT !.seen = me.version]
<1>1. /\ m.type = "me" /\ st' = [st EXCEPT ![m] = b]
      /\ UNCHANGED <<server, delivered, blocker, cached, counters, failures, overlap, ahead, overtaken, leapt, unnoticed, piled>>
  BY OfKind DEF ReadMe
<1>2. m \in Messages /\ st \in [Messages -> Progress] /\ st[m] \in Progress /\ Others
  BY OfKind, Typed DEF Basics, Types
<1>3. me.version \in 0..MaxMe
  BY <1>2, Bounds DEF Others
<1>4. a \in Progress /\ a.pc = "resolving"
  BY <1>2 DEF Progress, Stages
<1> HIDE DEF a
<1>5. b \in Progress /\ b.pc = "resolving" /\ b.seen = me.version
  BY <1>3, <1>4 DEF Progress
<1> HIDE DEF b
<1>6. st' \in [Messages -> Progress] /\ st'[m] = b /\ \A o \in Messages \ {m} : st'[o] = st[o]
  BY <1>1, <1>2, <1>5
<1>7. Fits(m, b)
  BY <1>1, <1>5 DEF Fits, MeStages
<1>8. Others' /\ \A c \in Computes : StagedComputation(c)'
  BY <1>1, <1>2, ComputationsStay DEF Others, cached, counters
<1> QED BY <1>1, <1>5, <1>6, <1>7, <1>8, MessageBasics

\* A computation starts, at once or when the one before has ended, or does not.
LEMMA CoreStarts ==
    ASSUME Basics, NEW c \in Computes, NEW object \in Objects, StartCore(c, object)
    PROVE  /\ comp' \in [Computes -> Computing] /\ comp'[c].pc = "unread"
           /\ \A d \in Computes \ {c} : comp'[d] = comp[d]
           /\ \A d \in Computes : StagedComputation(d)'
           /\ promise' \in 0..MaxMe /\ unread' \in Nat /\ overlap' \subseteq {"update", "computation"}
<1> DEFINE r == [Idling EXCEPT !.pc = "unread", !.object = object]
<1>1. comp' = [comp EXCEPT ![c] = r] /\ promise' = c /\ unread' = 0
  BY DEF StartCore, ResetCounters
<1>2. comp \in [Computes -> Computing]
  BY Typed DEF Basics, Types, Others
<1>3. r \in Computing
  <2>1. "unread" \in Ended \cup InCore \cup {"waiting", "failed"}
    BY DEF InCore
  <2> QED BY <2>1, IdlingIsTyped
<1>4. r.pc = "unread"
  BY DEF Idling
<1> HIDE DEF r
<1>5. comp' \in [Computes -> Computing] /\ comp'[c] = r /\ \A d \in Computes \ {c} : comp'[d] = comp[d]
  BY <1>1, <1>2, <1>3
<1>6. \A d \in Computes : StagedComputation(d)'
  BY <1>4, <1>5 DEF Basics, Staged, StagedComputation
<1>7. promise' \in 0..MaxMe
  BY <1>1, Bounds DEF Computes
<1>8. overlap' \subseteq {"update", "computation"}
  BY Typed DEF StartCore, Basics, Types, Others, When
<1> QED BY <1>1, <1>4, <1>5, <1>6, <1>7, <1>8

LEMMA Recomputed ==
    ASSUME Basics, NEW m \in Arrived, m.type = "me", me'.object \in Objects, ComputeIfMoved(m)
    PROVE  /\ comp' \in [Computes -> Computing]
           /\ \A d \in Computes : StagedComputation(d)'
           /\ promise' \in 0..MaxMe /\ unread' \in Nat /\ overlap' \subseteq {"update", "computation"} /\ unnoticed' \in BOOLEAN
           /\ \A d \in Computes : comp'[d].pc = "failed" => comp[d].pc = "failed"
           /\ \A d \in Computes : comp'[d].pc = "posts" => comp[d] = comp'[d]
<1> DEFINE c == m.n
           object == me'.object
<1>1. c \in Computes
  BY OfKind, Kinds, Bounds DEF Computes
<1>2. Others
  BY Typed DEF Basics, Types
<1>3. \/ UNCHANGED <<comp, promise, unread, overlap>>
      \/ Compute(c, object)
  BY DEF ComputeIfMoved
<1>4. unnoticed' \in BOOLEAN
  <2> DEFINE u == heap'[me'.object] = st[m].shown /\ \E o \in CountedFrom : heap[o] # st[m].shown
  <2>1. unnoticed' = (unnoticed \/ u)
    BY DEF ComputeIfMoved
  <2> HIDE DEF u
  <2> QED BY <2>1
<1> HIDE DEF c, object
<1>5. CASE UNCHANGED <<comp, promise, unread, overlap>>
  BY <1>2, <1>4, <1>5, ComputationsStay DEF Others
<1>6. CASE promise = 0 /\ StartCore(c, object)
  BY <1>1, <1>6, <1>4, CoreStarts DEF object
<1>7. CASE /\ promise # 0
           /\ comp' = [comp EXCEPT ![c].pc = IF comp[promise].pc = "failed" THEN "dropped" ELSE "waiting",
                                   ![c].on = promise, ![c].object = object]
           /\ overlap' = overlap \cup When(\E d \in Computes : comp[d].pc = "waiting", "computation")
           /\ UNCHANGED <<promise, unread>>
  <2>0. overlap' \subseteq {"update", "computation"}
    BY <1>2, <1>7 DEF Others, When
  <2> DEFINE pc == IF comp[promise].pc = "failed" THEN "dropped" ELSE "waiting"
             x == [comp[c] EXCEPT !.pc = pc]
             y == [x EXCEPT !.on = promise]
             z == [y EXCEPT !.object = object]
  <2>1. comp' = [comp EXCEPT ![c] = z]
    BY <1>1, <1>2, <1>7 DEF Others
  <2>2. comp[c] \in Computing /\ pc \in Ended \cup InCore \cup {"waiting", "failed"} /\ pc \in {"dropped", "waiting"}
    BY <1>1, <1>2 DEF Others, Ended
  <2>3. promise \in 0..MaxMe /\ promise \in Computes
    BY <1>2, <1>7, Bounds DEF Others, Computes
  <2> HIDE DEF pc
  <2>4. x \in Computing /\ x.pc = pc
    BY <2>2 DEF Computing
  <2> HIDE DEF x
  <2>5. y \in Computing /\ y.pc = pc /\ y.on = promise
    BY <2>3, <2>4 DEF Computing
  <2> HIDE DEF y
  <2>6. z \in Computing /\ z.pc = pc /\ z.on = promise
    BY <2>5 DEF Computing, object
  <2> HIDE DEF z
  <2>7. comp' \in [Computes -> Computing] /\ comp'[c] = z /\ \A d \in Computes \ {c} : comp'[d] = comp[d]
    BY <1>1, <1>2, <2>1, <2>6 DEF Others
  <2>8. \A d \in Computes : StagedComputation(d)'
    BY <2>2, <2>3, <2>6, <2>7 DEF Basics, Staged, StagedComputation
  <2> QED BY <1>2, <1>4, <1>7, <2>0, <2>2, <2>6, <2>7, <2>8 DEF Others
<1> QED BY <1>3, <1>5, <1>6, <1>7 DEF Compute

\* The mark of a version of the user that there is.
LEMMA MarksTyped ==
    ASSUME Basics
    PROVE  \A v \in 1..Current : reads[v] \in Unset..MaxPosts
<1>1. reads \in Seq(Unset..MaxPosts)
  BY Typed DEF Basics, Types
<1> QED BY <1>1, ElementOfSeq DEF Current

LEMMA ApplyMeBasics ==
    ASSUME Basics, NEW m \in Arrived, ApplyMe(m)
    PROVE  /\ Basics' /\ Arrived' = Arrived /\ m.type = "me" /\ m.n \in 2..Current
           /\ st'[m].pc = IF CacheUpdateAction(st[m].seen, m.n) = "query" THEN "fetching" ELSE "done"
           /\ \A o \in Messages \ {m} : st'[o] = st[o]
           /\ me' = IF CacheUpdateAction(st[m].seen, m.n) = "update" THEN [me EXCEPT !.version = m.n] ELSE me
           /\ \A d \in Computes : comp'[d].pc = "failed" => comp[d].pc = "failed"
           /\ \A d \in Computes : comp'[d].pc = "posts" => comp[d] = comp'[d]
<1> DEFINE action == CacheUpdateAction(st[m].seen, m.n)
<1>1. /\ m.type = "me" /\ m \in Messages
      /\ Move(m, IF action = "query" THEN "fetching" ELSE "done")
      /\ IF action = "update"
         THEN /\ me' = [me EXCEPT !.version = m.n]
              /\ heap' = [heap EXCEPT ![me.object] = reads[m.n]]
              /\ ComputeIfMoved(m)
         ELSE UNCHANGED <<me, heap, comp, promise, unread, overlap, unnoticed>>
      /\ UNCHANGED <<server, delivered, blocker, known, posts, init, lastReads, failures, ahead, overtaken, leapt, piled>>
  BY OfKind DEF ApplyMe
<1>2. Others
  BY Typed DEF Basics, Types
<1>3. m.n \in 2..MaxMe /\ m.n \in 2..Current /\ m.n \in 1..Current
  <2>1. PICK i \in 1..Len(log) : m = log[i]
    BY Places DEF Basics
  <2>2. m.n <= Current /\ m.n \in 2..MaxMe
    BY <1>1, <2>1, Kinds DEF Basics, Logged
  <2>3. Current \in Nat
    BY Numbers DEF Basics
  <2> QED BY <2>2, <2>3, Bounds
<1> HIDE DEF action
<1>4. /\ me' \in [version : 1..MaxMe, object : Objects \ {0}]
      /\ heap' \in [Objects -> Unset..MaxPosts]
      /\ comp' \in [Computes -> Computing]
      /\ \A d \in Computes : StagedComputation(d)'
      /\ promise' \in 0..MaxMe /\ unread' \in Nat /\ overlap' \subseteq {"update", "computation"} /\ unnoticed' \in BOOLEAN
      /\ \A d \in Computes : comp'[d].pc = "failed" => comp[d].pc = "failed"
      /\ \A d \in Computes : comp'[d].pc = "posts" => comp[d] = comp'[d]
  <2>1. CASE action = "update"
    <3>1. me' \in [version : 1..MaxMe, object : Objects \ {0}]
      <4>1. m.n \in 1..MaxMe
        BY <1>3, Bounds
      <4> QED BY <1>1, <1>2, <2>1, <4>1 DEF Others
    <3>2. heap' \in [Objects -> Unset..MaxPosts]
      BY <1>1, <1>2, <1>3, <2>1, MarksTyped DEF Others
    <3>3. me'.object \in Objects
      BY <3>1
    <3> QED BY <1>1, <2>1, <3>1, <3>2, <3>3, Recomputed
  <2>2. CASE action # "update"
    BY <1>1, <1>2, <2>2, ComputationsStay DEF Others
  <2> QED BY <2>1, <2>2
<1>5. Others'
  BY <1>1, <1>2, <1>4 DEF Others
<1>6. PICK pc \in {"fetching", "done"} : pc = IF action = "query" THEN "fetching" ELSE "done"
  OBVIOUS
<1>7. pc \in Stages \ {"none", "waiting", "answered"} /\ pc \in MeStages
  BY <1>6 DEF Stages, Ended, MeStages
<1>8. Basics' /\ Arrived' = Arrived /\ st'[m].pc = pc /\ \A o \in Messages \ {m} : st'[o] = st[o]
  BY <1>1, <1>4, <1>5, <1>6, <1>7, MoveBasics
<1> QED BY <1>1, <1>3, <1>4, <1>6, <1>8 DEF action

LEMMA ServerAnswersMeBasics ==
    ASSUME Basics, NEW m \in Arrived, ServerAnswersMe(m)
    PROVE  /\ Basics' /\ Arrived' = Arrived /\ m.type = "me"
           /\ st'[m].pc = "answered" /\ st'[m].seen = Current
           /\ \A o \in Messages \ {m} : st'[o] = st[o]
<1> DEFINE a == [st[m] EXCEPT !.pc = "answered"]
           b == [a EXCEPT !.seen = Current]
<1>1. /\ m.type = "me" /\ st' = [st EXCEPT ![m] = b]
      /\ UNCHANGED <<server, delivered, blocker, cached, counters, failures, overlap, ahead, overtaken, leapt, unnoticed, piled>>
  BY DEF ServerAnswersMe
<1>2. m \in Messages /\ st \in [Messages -> Progress] /\ st[m] \in Progress /\ Others
  BY OfKind, Typed DEF Basics, Types
<1>3. Current \in 0..MaxMe /\ Current \in m.n..Current
  <2>1. PICK i \in 1..Len(log) : m = log[i]
    BY Places DEF Basics
  <2>2. m.n <= Current /\ m.n \in Nat
    BY <1>1, <1>2, <2>1, Kinds DEF Basics, Logged
  <2>3. Current \in Nat /\ Current <= MaxMe
    BY Numbers DEF Basics
  <2> QED BY <2>2, <2>3, Bounds
<1>4. a \in Progress /\ a.pc = "answered"
  BY <1>2 DEF Progress, Stages
<1> HIDE DEF a
<1>5. b \in Progress /\ b.pc = "answered" /\ b.seen = Current
  BY <1>3, <1>4 DEF Progress
<1> HIDE DEF b
<1>6. st' \in [Messages -> Progress] /\ st'[m] = b /\ \A o \in Messages \ {m} : st'[o] = st[o]
  BY <1>1, <1>2, <1>5
<1>7. Fits(m, b)
  BY <1>1, <1>3, <1>5 DEF Fits, MeStages
<1>8. Others' /\ \A c \in Computes : StagedComputation(c)'
  BY <1>1, <1>2, ComputationsStay DEF Others, cached, counters
<1> QED BY <1>1, <1>5, <1>6, <1>7, <1>8, MessageBasics

LEMMA MeAnswerBasics ==
    ASSUME Basics, NEW m \in Arrived, MeAnswer(m)
    PROVE  /\ Basics' /\ Arrived' = Arrived /\ m.type = "me"
           /\ st[m].pc = "answered" /\ st[m].seen \in m.n..Current
           /\ st'[m].pc = "done"
           /\ \A o \in Messages \ {m} : st'[o] = st[o]
           /\ me'.version = st[m].seen
           /\ overtaken' = (overtaken \/ st[m].seen < me.version)
           /\ \A d \in Computes : comp'[d].pc = "failed" => comp[d].pc = "failed"
           /\ \A d \in Computes : comp'[d].pc = "posts" => comp[d] = comp'[d]
<1>1. /\ m.type = "me" /\ m \in Messages /\ st[m].pc = "answered" /\ Move(m, "done")
      /\ me' = [version |-> st[m].seen, object |-> m.n]
      /\ heap' = [heap EXCEPT ![m.n] = reads[st[m].seen]]
      /\ overtaken' = (overtaken \/ st[m].seen < me.version)
      /\ leapt' = (leapt \/ st[m].seen > m.n)
      /\ ComputeIfMoved(m)
      /\ UNCHANGED <<server, delivered, blocker, known, posts, init, lastReads, failures, ahead, piled>>
  BY OfKind DEF MeAnswer
<1>2. Others /\ Fits(m, st[m])
  BY OfKind, Typed DEF Basics, Types
<1>3. st[m].seen \in m.n..Current /\ st[m].seen \in 1..Current /\ m.n \in Objects \ {0} /\ st[m].seen \in 1..MaxMe
  <2>1. m.n \in 2..MaxMe /\ st[m].seen \in m.n..Current
    BY <1>1, <1>2, Kinds DEF Fits
  <2>2. Current \in Nat /\ Current <= MaxMe
    BY Numbers DEF Basics
  <2> QED BY <2>1, <2>2, Bounds DEF Objects
<1>4. me' \in [version : 1..MaxMe, object : Objects \ {0}] /\ me'.object \in Objects /\ me'.version = st[m].seen
  BY <1>1, <1>3
<1>5. heap' \in [Objects -> Unset..MaxPosts]
  BY <1>1, <1>2, <1>3, MarksTyped DEF Others
<1>6. /\ comp' \in [Computes -> Computing]
      /\ \A d \in Computes : StagedComputation(d)'
      /\ promise' \in 0..MaxMe /\ unread' \in Nat /\ overlap' \subseteq {"update", "computation"} /\ unnoticed' \in BOOLEAN
      /\ \A d \in Computes : comp'[d].pc = "failed" => comp[d].pc = "failed"
      /\ \A d \in Computes : comp'[d].pc = "posts" => comp[d] = comp'[d]
  BY <1>1, <1>4, Recomputed
<1>7. overtaken' \in BOOLEAN /\ leapt' \in BOOLEAN
  BY <1>1
<1>8. Others'
  BY <1>1, <1>2, <1>4, <1>5, <1>6, <1>7 DEF Others
<1>9. "done" \in Stages \ {"none", "waiting", "answered"} /\ "done" \in MeStages
  BY DEF Stages, Ended, MeStages
<1>10. Basics' /\ Arrived' = Arrived /\ st'[m].pc = "done" /\ \A o \in Messages \ {m} : st'[o] = st[o]
  BY <1>1, <1>6, <1>8, <1>9, MoveBasics
<1> QED BY <1>1, <1>3, <1>4, <1>6, <1>10

--------------------------------------------------------------------------------
(* The steps of computations preserve Basics. *)

ComputingStages == Ended \cup InCore \cup {"waiting", "failed"}

\* What a step of one computation has to establish.
LEMMA ComputationBasics ==
    ASSUME Basics, NEW c \in Computes, UNCHANGED <<server, delivered, st>>, Others',
           \A d \in Computes \ {c} : comp'[d] = comp[d],
           comp'[c].pc # "waiting", comp'[c].pc = "posts" => comp'[c].from # Unset
    PROVE  Basics' /\ Arrived' = Arrived
<1>1. \A d \in Computes : StagedComputation(d)'
  BY DEF Basics, Staged, StagedComputation
<1> QED BY <1>1, QuietBasics

LEMMA ComputationMoves ==
    ASSUME Basics, NEW c \in Computes, NEW pc \in ComputingStages
    PROVE  /\ [comp EXCEPT ![c].pc = pc] \in [Computes -> Computing]
           /\ [comp EXCEPT ![c].pc = pc][c].pc = pc
           /\ [comp EXCEPT ![c].pc = pc][c].from = comp[c].from
           /\ \A d \in Computes \ {c} : [comp EXCEPT ![c].pc = pc][d] = comp[d]
<1>1. comp \in [Computes -> Computing]
  BY Typed DEF Basics, Types, Others
<1>2. [comp[c] EXCEPT !.pc = pc] \in Computing /\ [comp[c] EXCEPT !.pc = pc].pc = pc
      /\ [comp[c] EXCEPT !.pc = pc].from = comp[c].from
  BY <1>1 DEF Computing, ComputingStages
<1>3. [comp EXCEPT ![c].pc = pc] = [comp EXCEPT ![c] = [comp[c] EXCEPT !.pc = pc]]
  BY <1>1
<1> QED BY <1>1, <1>2, <1>3

LEMMA ComputationReads ==
    ASSUME Basics, NEW c \in Computes, NEW pc \in ComputingStages, NEW read \in SUBSET (1..MaxPosts),
           comp' = [comp EXCEPT ![c].pc = pc, ![c].read = read]
    PROVE  /\ comp' \in [Computes -> Computing] /\ comp'[c].pc = pc
           /\ \A d \in Computes \ {c} : comp'[d] = comp[d]
<1> DEFINE a == [comp[c] EXCEPT !.pc = pc]
           b == [a EXCEPT !.read = read]
<1>1. comp \in [Computes -> Computing]
  BY Typed DEF Basics, Types, Others
<1>2. a \in Computing /\ a.pc = pc
  BY <1>1 DEF Computing, ComputingStages
<1>3. comp' = [comp EXCEPT ![c] = b]
  BY <1>1
<1> HIDE DEF a
<1>4. b \in Computing /\ b.pc = pc
  BY <1>2 DEF Computing
<1> HIDE DEF b
<1> QED BY <1>1, <1>3, <1>4

LEMMA ComputationEnds ==
    ASSUME Basics, NEW c \in Computes, NEW pc \in Ended \cup {"failed"},
           comp' = [comp EXCEPT ![c] = [Idling EXCEPT !.pc = pc]]
    PROVE  /\ comp' \in [Computes -> Computing] /\ comp'[c].pc = pc
           /\ \A d \in Computes \ {c} : comp'[d] = comp[d]
<1> DEFINE r == [Idling EXCEPT !.pc = pc]
<1>1. comp \in [Computes -> Computing]
  BY Typed DEF Basics, Types, Others
<1>2. r \in Computing
  <2>1. pc \in Ended \cup InCore \cup {"waiting", "failed"} /\ 0 \in Objects
    BY Bounds DEF Objects
  <2> QED BY <2>1, IdlingIsTyped
<1>3. r.pc = pc
  BY DEF Idling
<1> HIDE DEF r
<1>4. comp' = [comp EXCEPT ![c] = r]
  BY DEF r
<1> QED BY <1>1, <1>2, <1>3, <1>4

\* No computation fails but by a request that does.
OnlyFailuresFail == \A d \in Computes : comp'[d].pc = "failed" => comp[d].pc = "failed" \/ failures' > 0

\* None goes for the posts but after an answer.
NoneGoesForPosts == \A d \in Computes : comp'[d].pc = "posts" => comp[d] = comp'[d]

LEMMA ComputeResumesBasics ==
    ASSUME Basics, NEW c \in Computes, ComputeResumes(c)
    PROVE  Basics' /\ Arrived' = Arrived /\ OnlyFailuresFail /\ NoneGoesForPosts
<1>1. UNCHANGED <<server, delivered, st, blocker, cached, heap, lastReads, failures, ahead, overtaken, leapt, unnoticed, piled>>
  BY DEF ComputeResumes
<1>2. Others
  BY Typed DEF Basics, Types
<1>3. CASE comp[comp[c].on].pc = "done"
  <2>1. comp[c].object \in Objects
    BY <1>2 DEF Others, Computing
  <2>2. StartCore(c, comp[c].object)
    BY <1>3 DEF ComputeResumes
  <2>3. /\ comp' \in [Computes -> Computing] /\ comp'[c].pc = "unread"
        /\ \A d \in Computes \ {c} : comp'[d] = comp[d]
        /\ promise' \in 0..MaxMe /\ unread' \in Nat /\ overlap' \subseteq {"update", "computation"}
    BY <2>1, <2>2, CoreStarts
  <2>4. Others'
    BY <1>1, <1>2, <2>3 DEF Others, cached
  <2> QED BY <1>1, <2>3, <2>4, ComputationBasics DEF OnlyFailuresFail, NoneGoesForPosts
<1>4. CASE comp[comp[c].on].pc # "done"
  <2>1. /\ comp' = [comp EXCEPT ![c] = [Idling EXCEPT !.pc = "dropped"]]
        /\ UNCHANGED <<promise, unread, overlap>>
    BY <1>4 DEF ComputeResumes
  <2>2. /\ comp' \in [Computes -> Computing] /\ comp'[c].pc = "dropped"
        /\ \A d \in Computes \ {c} : comp'[d] = comp[d]
    BY <2>1, ComputationEnds DEF Ended
  <2>3. Others'
    BY <1>1, <1>2, <2>1, <2>2 DEF Others, cached
  <2> QED BY <1>1, <2>2, <2>3, ComputationBasics DEF OnlyFailuresFail, NoneGoesForPosts
<1> QED BY <1>3, <1>4

LEMMA ServerAnswersUnreadBasics ==
    ASSUME Basics, NEW c \in Computes, ServerAnswersUnread(c)
    PROVE  Basics' /\ Arrived' = Arrived /\ OnlyFailuresFail /\ NoneGoesForPosts
<1>1. UNCHANGED <<server, delivered, st, blocker, cached, heap, promise, unread, lastReads,
                  failures, overlap, ahead, overtaken, leapt, unnoticed, piled>>
  BY DEF ServerAnswersUnread
<1>2. Others
  BY Typed DEF Basics, Types
<1>3. PICK pc \in {"nothing", "something"} : comp' = [comp EXCEPT ![c].pc = pc]
  BY DEF ServerAnswersUnread
<1>4. pc \in ComputingStages
  BY <1>3 DEF ComputingStages, InCore
<1>5. /\ comp' \in [Computes -> Computing] /\ comp'[c].pc = pc
      /\ \A d \in Computes \ {c} : comp'[d] = comp[d]
  BY <1>3, <1>4, ComputationMoves
<1>6. Others'
  BY <1>1, <1>2, <1>5 DEF Others, cached
<1> QED BY <1>1, <1>3, <1>5, <1>6, ComputationBasics DEF OnlyFailuresFail, NoneGoesForPosts

LEMMA UnreadAnswerBasics ==
    ASSUME Basics, NEW c \in Computes, UnreadAnswer(c)
    PROVE  /\ Basics' /\ Arrived' = Arrived /\ OnlyFailuresFail
           /\ init' = "yes" => init = "yes"
           /\ \A d \in Computes \ {c} : comp'[d] = comp[d]
           /\ comp'[c].pc = "posts" => comp'[c].from = heap[comp[c].object] /\ comp'[c].from # Unset
<1> DEFINE from == IF comp[c].pc = "nothing" THEN Unset ELSE heap[comp[c].object]
           pc == IF from = Unset THEN "count" ELSE "posts"
           a == [comp[c] EXCEPT !.pc = pc]
           b == [a EXCEPT !.from = from]
<1>1. /\ init' = IF from # Unset /\ init = "no" THEN "pending" ELSE init
      /\ UNCHANGED <<server, delivered, st, blocker, known, me, posts, heap, promise, unread,
                     lastReads, failures, overlap, ahead, overtaken, leapt, unnoticed, piled>>
  BY DEF UnreadAnswer
<1>2. Others /\ comp \in [Computes -> Computing] /\ comp[c] \in Computing
  BY Typed DEF Basics, Types, Others
<1>3. from \in Unset..MaxPosts
  <2>1. Unset \in Unset..MaxPosts
    BY Bounds DEF Unset
  <2>2. heap[comp[c].object] \in Unset..MaxPosts
    BY <1>2 DEF Others, Computing
  <2> QED BY <2>1, <2>2
<1>4. comp' = [comp EXCEPT ![c] = b]
  BY <1>2 DEF UnreadAnswer
<1>5. pc \in ComputingStages /\ pc \in {"count", "posts"} /\ (pc = "posts" => from = heap[comp[c].object] /\ from # Unset)
  BY DEF ComputingStages, InCore
<1> HIDE DEF from, pc
<1>6. a \in Computing /\ a.pc = pc
  BY <1>2, <1>5 DEF Computing, ComputingStages
<1> HIDE DEF a
<1>7. b \in Computing /\ b.pc = pc /\ b.from = from
  BY <1>3, <1>6 DEF Computing
<1> HIDE DEF b
<1>8. /\ comp' \in [Computes -> Computing] /\ comp'[c] = b
      /\ \A d \in Computes \ {c} : comp'[d] = comp[d]
  BY <1>2, <1>4, <1>7
<1>9. Others'
  BY <1>1, <1>2, <1>8 DEF Others
<1> QED BY <1>1, <1>5, <1>7, <1>8, <1>9, ComputationBasics DEF OnlyFailuresFail

LEMMA PostsReadBasics ==
    ASSUME Basics, NEW c \in Computes, PostsRead(c)
    PROVE  Basics' /\ Arrived' = Arrived /\ OnlyFailuresFail /\ NoneGoesForPosts
<1> DEFINE first == FirstUnread(comp[c].from)
           latest == CHOOSE n \in posts : \A k \in posts : k <= n
<1>1. /\ comp[c].pc = "posts"
      /\ UNCHANGED <<server, delivered, st, blocker, cached, heap, promise, unread,
                     lastReads, failures, overlap, ahead, overtaken, leapt, unnoticed, piled>>
  BY DEF PostsRead
<1>2. Others /\ comp[c] \in Computing /\ posts \in SUBSET (1..MaxPosts)
  BY Typed DEF Basics, Types, Others
<1>3. first \in Nat /\ 1 <= first
  <2>1. comp[c].from # Unset /\ comp[c].from \in Unset..MaxPosts
    BY <1>1, <1>2 DEF Basics, Staged, StagedComputation, Computing
  <2> QED BY <2>1, Bounds DEF FirstUnread, Unset
<1>4. \E pc \in {"count", "page"}, read \in SUBSET (1..MaxPosts) :
        comp' = [comp EXCEPT ![c].pc = pc, ![c].read = read]
  <2>1. CASE init = "failed" \/ posts = {}
    <3>1. comp' = [comp EXCEPT ![c].pc = "count", ![c].read = {}]
      BY <2>1 DEF PostsRead
    <3> QED BY <3>1
  <2>2. CASE ~(init = "failed" \/ posts = {}) /\ first \in posts
    <3>1. comp' = [comp EXCEPT ![c].pc = "count", ![c].read = {n \in posts : n >= first}]
      BY <2>2 DEF PostsRead
    <3>2. {n \in posts : n >= first} \in SUBSET (1..MaxPosts)
      BY <1>2
    <3> QED BY <3>1, <3>2
  <2>3. CASE ~(init = "failed" \/ posts = {}) /\ first \notin posts
    <3>1. comp' = [comp EXCEPT ![c].pc = "page", ![c].read = first..latest]
      BY <2>3 DEF PostsRead
    <3>2. latest \in 1..MaxPosts
      <4>1. \E n \in posts : \A k \in posts : k <= n
        BY <1>2, <2>3, Bounds, HasLast
      <4> QED BY <1>2, <4>1
    <3>3. first..latest \in SUBSET (1..MaxPosts)
      <4> HIDE DEF first, latest
      <4> QED BY <1>3, <3>2, Bounds
    <3> QED BY <3>1, <3>3
  <2> QED BY <2>1, <2>2, <2>3
<1>5. PICK pc \in {"count", "page"}, read \in SUBSET (1..MaxPosts) :
        comp' = [comp EXCEPT ![c].pc = pc, ![c].read = read]
  BY <1>4
<1>6. pc \in ComputingStages
  BY <1>5 DEF ComputingStages, InCore
<1>7. /\ comp' \in [Computes -> Computing] /\ comp'[c].pc = pc
      /\ \A d \in Computes \ {c} : comp'[d] = comp[d]
  BY <1>5, <1>6, ComputationReads
<1>8. Others'
  BY <1>1, <1>2, <1>7 DEF Others, cached
<1> QED BY <1>1, <1>5, <1>7, <1>8, ComputationBasics DEF OnlyFailuresFail, NoneGoesForPosts

LEMMA PageAnswerBasics ==
    ASSUME Basics, NEW c \in Computes, PageAnswer(c)
    PROVE  /\ Basics' /\ Arrived' = Arrived /\ OnlyFailuresFail /\ NoneGoesForPosts
           /\ posts \subseteq posts' /\ UNCHANGED <<st, init, heap, reads, me>>
<1>1. UNCHANGED <<server, delivered, st, blocker, known, me, init, heap, promise, unread,
                  lastReads, overlap, overtaken, leapt, unnoticed, piled>>
  BY DEF PageAnswer
<1>2. Others /\ comp[c] \in Computing
  BY Typed DEF Basics, Types, Others
<1>3. "count" \in ComputingStages
  BY DEF ComputingStages, InCore
<1>4. CASE /\ comp' = [comp EXCEPT ![c].pc = "count"]
           /\ CachePosts(comp[c].read)
           /\ UNCHANGED failures
  <2>1. /\ comp' \in [Computes -> Computing] /\ comp'[c].pc = "count"
        /\ \A d \in Computes \ {c} : comp'[d] = comp[d]
    BY <1>3, <1>4, ComputationMoves
  <2>2. comp[c].read \in SUBSET (1..MaxPosts)
    BY <1>2 DEF Computing
  <2>3. posts' \subseteq 1..MaxPosts /\ ahead' \in BOOLEAN /\ posts \subseteq posts'
    BY <1>4, <2>2, PostsCached DEF CachePosts
  <2>4. Others'
    BY <1>1, <1>2, <1>4, <2>1, <2>3 DEF Others
  <2> QED BY <1>1, <2>1, <2>3, <2>4, ComputationBasics DEF OnlyFailuresFail, NoneGoesForPosts, server
<1>5. CASE /\ comp' = [comp EXCEPT ![c].pc = "count", ![c].read = {}]
           /\ Fail
           /\ UNCHANGED <<posts, ahead>>
  <2>1. /\ comp' \in [Computes -> Computing] /\ comp'[c].pc = "count"
        /\ \A d \in Computes \ {c} : comp'[d] = comp[d]
    <3>1. {} \in SUBSET (1..MaxPosts)
      OBVIOUS
    <3> QED BY <1>3, <1>5, <3>1, ComputationReads
  <2>2. failures' \in 0..MaxFailures
    BY <1>5, FailingCounts
  <2>3. Others'
    BY <1>1, <1>2, <1>5, <2>1, <2>2 DEF Others
  <2> QED BY <1>1, <1>5, <2>1, <2>3, ComputationBasics DEF OnlyFailuresFail, NoneGoesForPosts, server
<1> QED BY <1>4, <1>5 DEF PageAnswer

LEMMA ComputeFinishBasics ==
    ASSUME Basics, NEW c \in Computes, ComputeFinish(c)
    PROVE  Basics' /\ Arrived' = Arrived /\ OnlyFailuresFail /\ NoneGoesForPosts
<1>1. /\ comp' = [comp EXCEPT ![c] = [Idling EXCEPT !.pc = "done"]]
      /\ unread' = unread + Cardinality(comp[c].read)
      /\ lastReads' = comp[c].object /\ promise' = 0
      /\ UNCHANGED <<server, delivered, st, blocker, cached, heap, failures, overlap, ahead,
                     overtaken, leapt, unnoticed, piled>>
  BY DEF ComputeFinish
<1>2. Others /\ comp[c] \in Computing
  BY Typed DEF Basics, Types, Others
<1>3. /\ comp' \in [Computes -> Computing] /\ comp'[c].pc = "done"
      /\ \A d \in Computes \ {c} : comp'[d] = comp[d]
  BY <1>1, ComputationEnds DEF Ended
<1>4. unread' \in Nat
  <2>1. IsFiniteSet(1..MaxPosts)
    BY Bounds, FS_Interval
  <2>2. IsFiniteSet(comp[c].read)
    BY <1>2, <2>1, FS_Subset DEF Computing
  <2>3. Cardinality(comp[c].read) \in Nat
    BY <2>2, FS_CardinalityType
  <2> QED BY <1>1, <1>2, <2>3 DEF Others
<1>5. promise' \in 0..MaxMe /\ lastReads' \in Objects
  BY <1>1, <1>2, Bounds DEF Computing
<1>6. Others'
  BY <1>1, <1>2, <1>3, <1>4, <1>5 DEF Others, cached
<1> QED BY <1>1, <1>3, <1>6, ComputationBasics DEF OnlyFailuresFail, NoneGoesForPosts

LEMMA ComputeFailsBasics ==
    ASSUME Basics, NEW c \in Computes, ComputeFails(c)
    PROVE  Basics' /\ Arrived' = Arrived /\ OnlyFailuresFail /\ NoneGoesForPosts
<1>1. /\ comp' = [comp EXCEPT ![c] = [Idling EXCEPT !.pc = "failed"]] /\ Fail
      /\ UNCHANGED <<server, delivered, st, blocker, cached, heap, promise, unread, lastReads,
                     overlap, ahead, overtaken, leapt, unnoticed, piled>>
  BY DEF ComputeFails
<1>2. Others
  BY Typed DEF Basics, Types
<1>3. /\ comp' \in [Computes -> Computing] /\ comp'[c].pc = "failed"
      /\ \A d \in Computes \ {c} : comp'[d] = comp[d]
  BY <1>1, ComputationEnds
<1>4. failures' \in 0..MaxFailures /\ failures' > 0
  BY <1>1, FailingCounts
<1>5. Others'
  BY <1>1, <1>2, <1>3, <1>4 DEF Others, cached
<1> QED BY <1>1, <1>3, <1>4, <1>5, ComputationBasics DEF OnlyFailuresFail, NoneGoesForPosts

--------------------------------------------------------------------------------
(* Basics is inductive. *)

LEMMA NextBasics == Basics /\ [Next]_vars => Basics'
<1> SUFFICES ASSUME Basics, [Next]_vars PROVE Basics'
  OBVIOUS
<1>1. CASE UNCHANGED vars
  <2>1. TypeOK' /\ Logged' /\ Arrived' = Arrived
    BY <1>1 DEF Basics, TypeOK, Logged, Current, Arrived, vars, server, cached, counters
  <2>2. Staged'
    BY <1>1, <2>1 DEF Basics, Staged, StagedMessage, StagedComputation, Fits, Current, vars, server, cached, counters
  <2> QED BY <2>1, <2>2 DEF Basics
<1>2. CASE ServerPosts \/ ServerMarksRead \/ ServerAddsStream
  BY <1>2, ServerPostsBasics, ServerMarksReadBasics, ServerAddsStreamBasics
<1>3. CASE Deliver
  BY <1>3, DeliverBasics
<1>4. CASE InitAnswer
  BY <1>4, InitAnswerBasics
<1>5. ASSUME NEW m \in Arrived, MessageStep(m) PROVE Basics'
  BY <1>5, ReleaseBasics, ResumeBasics, ResolveStreamBasics, StreamAnswerBasics, ResolvePostBasics,
     StorePostBasics, CountBasics, UpdateFailsBasics, GetBasics, ReadMeBasics, ApplyMeBasics,
     ServerAnswersMeBasics, MeAnswerBasics DEF MessageStep
<1>6. ASSUME NEW c \in Computes, ComputeStep(c) PROVE Basics'
  BY <1>6, ComputeResumesBasics, ServerAnswersUnreadBasics, UnreadAnswerBasics, PostsReadBasics,
     PageAnswerBasics, ComputeFinishBasics, ComputeFailsBasics DEF ComputeStep
<1> QED BY <1>1, <1>2, <1>3, <1>4, <1>5, <1>6 DEF Next

\* The values stay in their types, whatever is published, delivered, answered or fails.
THEOREM TypeCorrect == Spec => []TypeOK
<1>1. Basics => TypeOK
  BY DEF Basics
<1> QED BY <1>1, InitBasics, NextBasics, PTL DEF Spec

--------------------------------------------------------------------------------
(* What blocks what, while no stream message has waited for another. *)

Resolving(m) == m.type = "stream" /\ st[m].pc \in {"ready", "fetching"}

\* A stream message that is resolved is the blocker, and everything after it waits for it.
ResolvingGoesAlone ==
    \A i \in 1..delivered : Resolving(log[i]) =>
        /\ blocker = log[i].n
        /\ \A j \in 1..delivered : i < j => st[log[j]].pc = "blocked" /\ st[log[j]].on = log[i].n

\* The blocker is being resolved.
BlockerIsResolved ==
    blocker # 0 => \E i \in 1..delivered : log[i] = Message("stream", blocker) /\ Resolving(log[i])

\* What waits does so for an earlier stream message, which does not wait itself.
WaitsForEarlier ==
    \A j \in 1..delivered : st[log[j]].pc = "blocked" =>
        \E i \in 1..delivered : /\ i < j /\ log[i] = Message("stream", st[log[j]].on)
                                /\ st[log[i]].pc # "blocked"

\* Nothing after a stream message that waits has gone on.
WaitingStreamsHold ==
    \A i, j \in 1..delivered :
        i < j /\ log[i].type = "stream" /\ st[log[i]].pc = "blocked" => st[log[j]].pc = "blocked"

Ordered == ResolvingGoesAlone /\ BlockerIsResolved /\ WaitsForEarlier /\ WaitingStreamsHold

InOrder == ~piled => Ordered

LEMMA InitInOrder == Init => InOrder
<1> SUFFICES ASSUME Init PROVE Ordered
  BY DEF InOrder
<1>1. blocker = 0
  BY DEF Init
<1>2. ASSUME NEW i \in 1..delivered
      PROVE  st[log[i]].pc \notin {"blocked", "ready", "fetching"}
  <2>1. log[i] \in Messages
    BY InitBasics, Places DEF Basics
  <2>2. \A m \in Messages : st[m].pc \in {"done", "none"}
    BY DEF Init, Quiet
  <2> QED BY <2>1, <2>2
<1> QED BY <1>1, <1>2 DEF Ordered, ResolvingGoesAlone, BlockerIsResolved, WaitsForEarlier,
                         WaitingStreamsHold, Resolving

\* A step keeps the order if it moves no stream message and none that waits.
LEMMA OrderStays ==
    ASSUME Basics, InOrder, UNCHANGED <<delivered, blocker>>, piled => piled',
           \A i \in 1..delivered : log'[i] = log[i],
           \A o \in Messages : \/ st'[o] = st[o]
                               \/ o.type # "stream" /\ st[o].pc # "blocked" /\ st'[o].pc # "blocked"
    PROVE  InOrder'
<1> SUFFICES ASSUME ~piled' PROVE Ordered'
  BY DEF InOrder
<1>1. Ordered
  BY DEF InOrder
<1>2. \A i \in 1..delivered : log[i] \in Messages
  BY Places DEF Basics
<1>3. \A i \in 1..delivered :
        /\ log[i].type = "stream" => st'[log[i]] = st[log[i]]
        /\ st[log[i]].pc = "blocked" => st'[log[i]] = st[log[i]]
        /\ st'[log[i]].pc = "blocked" => st'[log[i]] = st[log[i]]
  BY <1>2
<1>4. ResolvingGoesAlone'
  BY <1>1, <1>3 DEF Ordered, ResolvingGoesAlone, Resolving
<1>5. BlockerIsResolved'
  BY <1>1, <1>3 DEF Ordered, BlockerIsResolved, Resolving
<1>6. WaitsForEarlier'
  <2> SUFFICES ASSUME NEW j \in 1..delivered, st'[log[j]].pc = "blocked"
               PROVE  \E i \in 1..delivered : /\ i < j /\ log[i] = Message("stream", st'[log[j]].on)
                                              /\ st'[log[i]].pc # "blocked"
    BY DEF WaitsForEarlier
  <2>1. st'[log[j]] = st[log[j]]
    BY <1>3
  <2>2. PICK i \in 1..delivered : /\ i < j /\ log[i] = Message("stream", st[log[j]].on)
                                  /\ st[log[i]].pc # "blocked"
    BY <1>1, <2>1 DEF Ordered, WaitsForEarlier
  <2>3. log[i].type = "stream"
    BY <2>2, Kinds
  <2>4. st'[log[i]] = st[log[i]]
    BY <1>3, <2>3
  <2> QED BY <2>1, <2>2, <2>4
<1>7. WaitingStreamsHold'
  BY <1>1, <1>3 DEF Ordered, WaitingStreamsHold
<1> QED BY <1>4, <1>5, <1>6, <1>7 DEF Ordered

\* While nothing runs, what waits does so because of the blocker.
LEMMA IdleWaits ==
    ASSUME Basics, Ordered, Idle, blocker = 0
    PROVE  \A i \in 1..delivered : st[log[i]].pc # "blocked" /\ ~Resolving(log[i])
<1>1. \A i \in 1..delivered : log[i] \in Arrived /\ log[i] \in Messages
  BY Places DEF Basics
<1>2. \A i \in 1..delivered : ~Resolving(log[i])
  <2> SUFFICES ASSUME NEW i \in 1..delivered, Resolving(log[i]) PROVE FALSE
    OBVIOUS
  <2>1. log[i].n = 0 /\ log[i].type = "stream"
    BY DEF Ordered, ResolvingGoesAlone, Resolving
  <2> QED BY <1>1, <2>1, Kinds
<1>3. ASSUME NEW j \in 1..delivered, st[log[j]].pc = "blocked" PROVE FALSE
  <2>1. PICK i \in 1..delivered : log[i] = Message("stream", st[log[j]].on) /\ st[log[i]].pc # "blocked"
    BY <1>3 DEF Ordered, WaitsForEarlier
  <2>2. log[i].type = "stream"
    BY <2>1, Kinds
  <2>3. st[log[i]].pc \in StreamStages
    BY <1>1, <2>2, OfKind DEF Fits
  <2>4. st[log[i]].pc \in Ended
    BY <1>2, <2>1, <2>2, <2>3 DEF Resolving, StreamStages, Ended
  <2>5. Ready(log[j])
    BY <1>3, <2>1, <2>4 DEF Ready, StreamDone
  <2> QED BY <1>1, <2>5 DEF Idle
<1> QED BY <1>2, <1>3

LEMMA DeliverInOrder == Basics /\ InOrder /\ Deliver => InOrder'
<1> SUFFICES ASSUME Basics, InOrder, Deliver, ~piled' PROVE Ordered'
  BY DEF InOrder
<1>0. Ordered
  <2>1. piled' = piled
    BY DEF Deliver
  <2> QED BY <2>1 DEF InOrder
<1> USE <1>0
<1>1. PICK size \in 1..MaxBatch :
        LET batch == (delivered + 1)..(delivered + size)
        IN  /\ batch \in SUBSET (1..Len(log))
            /\ \A i \in 1..(delivered + size) : i \in 1..delivered \/ i \in batch
            /\ \A i \in batch : delivered < i /\ i <= delivered + size
            /\ delivered' = delivered + size /\ delivered' \in 0..Len(log)
            /\ \A i \in batch :
                LET b == BlockedBy(batch, i)
                IN  /\ b \in 0..MaxStreams
                    /\ st'[log[i]].pc = IF b = 0 THEN "ready" ELSE "blocked"
                    /\ st'[log[i]].on = b
            /\ \A m \in Messages : m \notin {log[i] : i \in batch} => st'[m] = st[m]
            /\ blocker' = IF blocker = 0 /\ Blocker(batch) # {}
                          THEN log[CHOOSE f \in Blocker(batch) : TRUE].n ELSE blocker
  BY DeliverGives
<1> DEFINE batch == (delivered + 1)..(delivered + size)
           f == CHOOSE f \in Blocker(batch) : TRUE
<1>2. /\ batch \in SUBSET (1..Len(log)) /\ delivered' = delivered + size
      /\ \A i \in batch : delivered < i
      /\ \A i \in 1..delivered' : i \in 1..delivered \/ i \in batch
  BY <1>1
<1>3. \A i \in batch : /\ st'[log[i]].pc = IF BlockedBy(batch, i) = 0 THEN "ready" ELSE "blocked"
                       /\ st'[log[i]].on = BlockedBy(batch, i)
  BY <1>1
<1>4. blocker' = IF blocker = 0 /\ Blocker(batch) # {} THEN log[f].n ELSE blocker
  BY <1>1
<1>5. delivered \in Nat /\ delivered' \in Nat /\ Len(log) \in Nat /\ delivered <= delivered'
  <2>1. size \in Nat /\ 1 <= size
    BY Bounds
  <2> QED BY <1>2, <2>1, Numbers DEF Basics
<1>6. /\ \A i \in 1..delivered' : i \in 1..Len(log) /\ i \in Nat
      /\ \A i \in 1..delivered : i \in 1..delivered' /\ i \in 1..Len(log) /\ i <= delivered
      /\ \A i \in batch : i \in 1..delivered'
  BY <1>1, <1>5, Numbers DEF Basics
<1>7. \A i \in 1..delivered : \A j \in batch : i < j /\ ~(j < i) /\ i # j
  BY <1>2, <1>5, <1>6
<1> HIDE DEF batch
<1>8. \A i \in 1..Len(log) : log[i] \in Messages
  BY Places DEF Basics
<1>9. \A i \in 1..delivered : st'[log[i]] = st[log[i]]
  <2>1. ASSUME NEW i \in 1..delivered, NEW j \in batch, log[i] = log[j] PROVE FALSE
    BY <1>2, <1>6, <1>7, <2>1 DEF Basics, Logged
  <2>2. \A m \in Messages : m \notin {log[i] : i \in batch} => st'[m] = st[m]
    BY <1>1 DEF batch
  <2> QED BY <1>6, <1>8, <2>1, <2>2
<1>10. log' = log /\ Idle
  BY DEF Deliver, server
<1>11. CASE blocker # 0
  <2>1. \A i \in batch : BlockedBy(batch, i) = blocker
    BY <1>11 DEF BlockedBy
  <2>2. \A i \in batch : st'[log[i]].pc = "blocked" /\ st'[log[i]].on = blocker
    BY <1>3, <1>11, <2>1
  <2>3. blocker' = blocker
    BY <1>4, <1>11
  <2>4. PICK b \in 1..delivered : log[b] = Message("stream", blocker) /\ Resolving(log[b])
    BY <1>11 DEF Ordered, BlockerIsResolved
  <2>5. ResolvingGoesAlone'
    <3> SUFFICES ASSUME NEW i \in 1..delivered', log[i].type = "stream",
                        st'[log[i]].pc \in {"ready", "fetching"}
                 PROVE  /\ blocker = log[i].n
                        /\ \A j \in 1..delivered' : i < j => st'[log[j]].pc = "blocked" /\ st'[log[j]].on = log[i].n
      BY <1>10, <2>3 DEF ResolvingGoesAlone, Resolving
    <3>1. i \in 1..delivered
      BY <1>2, <2>2
    <3>2. /\ blocker = log[i].n
          /\ \A j \in 1..delivered : i < j => st[log[j]].pc = "blocked" /\ st[log[j]].on = log[i].n
      BY <1>9, <3>1 DEF Ordered, ResolvingGoesAlone, Resolving
    <3> QED BY <1>2, <1>9, <2>2, <3>2
  <2>6. BlockerIsResolved'
    BY <1>6, <1>9, <1>10, <2>3, <2>4 DEF BlockerIsResolved, Resolving
  <2>7. WaitsForEarlier'
    <3> SUFFICES ASSUME NEW j \in 1..delivered', st'[log[j]].pc = "blocked"
                 PROVE  \E i \in 1..delivered' : /\ i < j /\ log[i] = Message("stream", st'[log[j]].on)
                                                 /\ st'[log[i]].pc # "blocked"
      BY <1>10 DEF WaitsForEarlier
    <3>1. CASE j \in 1..delivered
      <4>1. PICK i \in 1..delivered : /\ i < j /\ log[i] = Message("stream", st[log[j]].on)
                                      /\ st[log[i]].pc # "blocked"
        BY <1>9, <3>1 DEF Ordered, WaitsForEarlier
      <4> QED BY <1>6, <1>9, <3>1, <4>1
    <3>2. CASE j \in batch
      <4>1. st[log[b]].pc # "blocked"
        BY <2>4 DEF Resolving
      <4> QED BY <1>6, <1>7, <1>9, <2>2, <2>4, <3>2, <4>1
    <3> QED BY <1>2, <3>1, <3>2
  <2>8. WaitingStreamsHold'
    <3> SUFFICES ASSUME NEW i \in 1..delivered', NEW j \in 1..delivered', i < j,
                        log[i].type = "stream", st'[log[i]].pc = "blocked"
                 PROVE  st'[log[j]].pc = "blocked"
      BY <1>10 DEF WaitingStreamsHold
    <3>1. CASE j \in batch
      BY <2>2, <3>1
    <3>2. CASE j \in 1..delivered /\ i \in 1..delivered
      BY <1>9, <3>2 DEF Ordered, WaitingStreamsHold
    <3> QED BY <1>2, <1>7, <3>1, <3>2
  <2> QED BY <2>5, <2>6, <2>7, <2>8 DEF Ordered
<1>12. CASE blocker = 0 /\ Blocker(batch) = {}
  <2>1. \A i \in batch : log[i].type # "stream"
    BY <1>2, <1>12, NoneBlocks DEF Basics, Blocks
  <2>2. \A i \in batch : BlockedBy(batch, i) = 0
    BY <1>12 DEF BlockedBy
  <2>3. \A i \in batch : st'[log[i]].pc = "ready"
    BY <1>3, <2>2
  <2>4. blocker' = 0
    BY <1>4, <1>12
  <2>5. \A i \in 1..delivered : st[log[i]].pc # "blocked" /\ ~Resolving(log[i])
    BY <1>10, <1>12, IdleWaits
  <2>6. \A i \in 1..delivered' : st'[log[i]].pc # "blocked" /\ ~Resolving(log[i])'
    BY <1>2, <1>9, <1>10, <2>1, <2>3, <2>5 DEF Resolving
  <2> QED BY <1>10, <2>4, <2>6 DEF Ordered, ResolvingGoesAlone, BlockerIsResolved, WaitsForEarlier, WaitingStreamsHold
<1>13. CASE blocker = 0 /\ Blocker(batch) # {}
  <2>1. /\ Blocker(batch) = {f} /\ f \in batch /\ log[f].type = "stream"
        /\ log[f].n \in 1..MaxStreams
        /\ \A i \in batch : log[i].type = "stream" => f <= i
    BY <1>2, <1>13, FirstBlocks DEF Basics, Blocks
  <2> HIDE DEF f
  <2>2. blocker' = log[f].n /\ log[f] = Message("stream", log[f].n) /\ log[f].n # 0
    <3>1. log[f] \in Messages
      BY <1>2, <1>8, <2>1
    <3>2. log[f].n # 0
      BY <2>1, Bounds
    <3> QED BY <1>4, <1>13, <2>1, <3>1, <3>2, Kinds
  <2>3. \A i \in batch : BlockedBy(batch, i) = IF f < i THEN log[f].n ELSE 0
    BY <1>13, <2>1 DEF BlockedBy
  <2>4. \A i \in batch : /\ f < i => st'[log[i]].pc = "blocked" /\ st'[log[i]].on = log[f].n
                         /\ ~(f < i) => st'[log[i]].pc = "ready"
    BY <1>3, <2>2, <2>3
  <2>5. f \in 1..delivered' /\ ~(f < f) /\ f \in Nat
    BY <1>6, <2>1
  <2>6. \A i \in 1..delivered : st[log[i]].pc # "blocked" /\ ~Resolving(log[i])
    BY <1>10, <1>13, IdleWaits
  <2>7. \A i \in 1..delivered' : /\ i \in batch /\ f < i => st'[log[i]].pc = "blocked" /\ st'[log[i]].on = log[f].n
                                 /\ ~(i \in batch /\ f < i) => st'[log[i]].pc # "blocked"
                                 /\ st'[log[i]].pc = "blocked" => i \in batch /\ f < i
    BY <1>2, <1>9, <2>4, <2>6
  <2>8. \A i \in 1..delivered' : Resolving(log[i])' => i = f
    <3> SUFFICES ASSUME NEW i \in 1..delivered', log[i].type = "stream",
                        st'[log[i]].pc \in {"ready", "fetching"}
                 PROVE  i = f
      BY <1>10 DEF Resolving
    <3>1. i \in batch
      BY <1>2, <1>9, <2>6 DEF Resolving
    <3>2. ~(f < i)
      BY <2>7, <3>1
    <3> QED BY <1>6, <2>1, <2>5, <3>1, <3>2
  <2>9. \A i \in 1..delivered' : f < i => i \in batch
    BY <1>2, <1>7, <2>1
  <2>10. ResolvingGoesAlone'
    BY <1>10, <2>2, <2>7, <2>8, <2>9 DEF ResolvingGoesAlone
  <2>11. BlockerIsResolved'
    <3>1. log'[f].type = "stream" /\ st'[log'[f]].pc \in {"ready", "fetching"}
      BY <1>10, <2>1, <2>4, <2>5
    <3> QED BY <1>10, <2>2, <2>5, <3>1 DEF BlockerIsResolved, Resolving
  <2>12. WaitsForEarlier'
    BY <1>10, <2>2, <2>4, <2>1, <2>5, <2>7 DEF WaitsForEarlier
  <2>13. WaitingStreamsHold'
    <3> SUFFICES ASSUME NEW i \in 1..delivered', NEW j \in 1..delivered', i < j,
                        log[i].type = "stream", st'[log[i]].pc = "blocked"
                 PROVE  st'[log[j]].pc = "blocked"
      BY <1>10 DEF WaitingStreamsHold
    <3>1. f < j
      BY <1>6, <2>5, <2>7
    <3> QED BY <2>7, <2>9, <3>1
  <2> QED BY <2>10, <2>11, <2>12, <2>13 DEF Ordered
<1> QED BY <1>11, <1>12, <1>13

LEMMA ReleaseInOrder ==
    ASSUME Basics, InOrder, NEW m \in Arrived, Release(m)
    PROVE  InOrder'
<1> SUFFICES ASSUME ~piled' PROVE InOrder'
  BY DEF InOrder
<1>1. /\ st[m].pc = "blocked" /\ StreamDone(st[m].on)
      /\ \A o \in Arrived : st[o].pc = "blocked" /\ StreamDone(st[o].on) => Position(m) <= Position(o)
      /\ blocker' = IF Blocks(m) THEN m.n ELSE blocker
      /\ piled' = (piled \/ Blocks(m)) /\ UNCHANGED <<log, delivered>>
  BY DEF Release, server
<1>2. Ordered /\ m.type # "stream" /\ blocker' = blocker
  BY <1>1 DEF InOrder, Blocks
<1>3. st'[m].pc = "ready" /\ \A o \in Messages \ {m} : st'[o] = st[o]
  BY ReleaseBasics
<1>4. PICK p \in 1..delivered : m = log[p]
  BY Places DEF Basics
<1>5. \A i \in 1..delivered : log[i] \in Messages /\ log[i] \in Arrived /\ Position(log[i]) = i /\ i \in Nat
  BY Places DEF Basics
<1>6. \A i \in 1..delivered : i = p \/ st'[log[i]] = st[log[i]]
  <2>1. \A i \in 1..delivered : log[i] = m => i = p
    BY <1>4, <1>5
  <2> QED BY <1>3, <1>5, <2>1
<1>7. \A i \in 1..delivered : log[i].type = "stream" => st'[log[i]] = st[log[i]] /\ i # p
  BY <1>2, <1>4, <1>6
\* A stream message that is resolved comes after this one, which would wait for it otherwise.
<1>8. \A i \in 1..delivered : Resolving(log[i]) => ~(i < p)
  <2> SUFFICES ASSUME NEW i \in 1..delivered, Resolving(log[i]), i < p PROVE FALSE
    OBVIOUS
  <2>1. st[m].on = log[i].n
    BY <1>2, <1>4 DEF Ordered, ResolvingGoesAlone
  <2>2. log[i] = Message("stream", st[m].on)
    BY <1>5, <2>1, Kinds DEF Resolving
  <2> QED BY <1>1, <2>2 DEF StreamDone, Resolving, Ended
\* One that waits comes after it too: it would go on first.
<1>9. \A i \in 1..delivered : log[i].type = "stream" /\ st[log[i]].pc = "blocked" => ~(i < p)
  <2> SUFFICES ASSUME NEW i \in 1..delivered, log[i].type = "stream", st[log[i]].pc = "blocked", i < p
               PROVE  FALSE
    OBVIOUS
  <2>1. PICK b \in 1..delivered : /\ b < i /\ log[b] = Message("stream", st[log[i]].on)
                                  /\ st[log[b]].pc # "blocked"
    BY <1>2 DEF Ordered, WaitsForEarlier
  <2>2. b < p
    BY <1>5, <2>1
  <2>3. log[b].type = "stream" /\ ~Resolving(log[b])
    BY <1>8, <2>1, <2>2, Kinds
  <2>4. st[log[b]].pc \in StreamStages
    BY <1>5, <2>3, OfKind DEF Fits
  <2>5. StreamDone(st[log[i]].on)
    BY <2>1, <2>3, <2>4 DEF StreamDone, Resolving, StreamStages, Ended
  <2>6. p <= i
    BY <1>1, <1>4, <1>5, <2>5
  <2> QED BY <1>5, <2>6
<1>10. ResolvingGoesAlone'
  <2> SUFFICES ASSUME NEW i \in 1..delivered, log[i].type = "stream", st'[log[i]].pc \in {"ready", "fetching"}
               PROVE  /\ blocker = log[i].n
                      /\ \A j \in 1..delivered : i < j => st'[log[j]].pc = "blocked" /\ st'[log[j]].on = log[i].n
    BY <1>1, <1>2 DEF ResolvingGoesAlone, Resolving
  <2>1. Resolving(log[i])
    BY <1>7 DEF Resolving
  <2> QED BY <1>2, <1>6, <1>8, <2>1 DEF Ordered, ResolvingGoesAlone
<1>11. BlockerIsResolved'
  BY <1>1, <1>2, <1>7 DEF Ordered, BlockerIsResolved, Resolving
<1>12. WaitsForEarlier'
  <2> SUFFICES ASSUME NEW j \in 1..delivered, st'[log[j]].pc = "blocked"
               PROVE  \E i \in 1..delivered : /\ i < j /\ log[i] = Message("stream", st'[log[j]].on)
                                              /\ st'[log[i]].pc # "blocked"
    BY <1>1 DEF WaitsForEarlier
  <2>1. st'[log[j]] = st[log[j]]
    BY <1>3, <1>4, <1>6
  <2>2. PICK i \in 1..delivered : /\ i < j /\ log[i] = Message("stream", st[log[j]].on)
                                  /\ st[log[i]].pc # "blocked"
    BY <1>2, <2>1 DEF Ordered, WaitsForEarlier
  <2>3. st'[log[i]] = st[log[i]]
    BY <1>7, <2>2, Kinds
  <2> QED BY <2>1, <2>2, <2>3
<1>13. WaitingStreamsHold'
  <2> SUFFICES ASSUME NEW i \in 1..delivered, NEW j \in 1..delivered, i < j,
                      log[i].type = "stream", st'[log[i]].pc = "blocked"
               PROVE  st'[log[j]].pc = "blocked"
    BY <1>1 DEF WaitingStreamsHold
  <2>1. st[log[i]].pc = "blocked"
    BY <1>7
  <2>2. j # p /\ st[log[j]].pc = "blocked"
    BY <1>2, <1>9, <2>1 DEF Ordered, WaitingStreamsHold
  <2> QED BY <1>6, <2>2
<1> QED BY <1>10, <1>11, <1>12, <1>13 DEF InOrder, Ordered

LEMMA StreamInOrder ==
    ASSUME Basics, InOrder, NEW m \in Arrived, ResolveStream(m) \/ StreamAnswer(m)
    PROVE  InOrder'
<1> SUFFICES ASSUME ~piled' PROVE InOrder'
  BY DEF InOrder
<1>1. /\ Resolving(m) /\ piled' = piled /\ UNCHANGED <<log, delivered>>
      /\ (blocker' = 0 \/ (blocker' = blocker /\ Move(m, "fetching")))
  <2>1. CASE ResolveStream(m)
    <3>1. Resolving(m) /\ piled' = piled /\ UNCHANGED <<log, delivered>>
      BY <2>1 DEF ResolveStream, server, Resolving
    <3> QED BY <2>1, <3>1 DEF ResolveStream, FinishStream
  <2>2. CASE StreamAnswer(m)
    BY <2>2 DEF StreamAnswer, FinishStream, server, Resolving
  <2> QED BY <2>1, <2>2
<1>2. Ordered
  BY <1>1 DEF InOrder
<1>3. /\ \A o \in Messages \ {m} : st'[o] = st[o]
      /\ st'[m].pc \in {"done", "fetching"} /\ (blocker' = 0 => st'[m].pc = "done" \/ blocker = 0)
  <2>1. CASE ResolveStream(m) /\ Move(m, "fetching") /\ blocker' = blocker
    BY <2>1, ResolveStreamBasics
  <2>2. CASE ResolveStream(m) /\ Move(m, "done")
    <3>1. \A o \in Messages \ {m} : st'[o] = st[o]
      BY <2>2, ResolveStreamBasics
    <3>2. st'[m].pc = "done"
      BY <2>2, OfKind, Moved DEF Basics, Stages, Ended
    <3> QED BY <3>1, <3>2
  <2>3. CASE StreamAnswer(m)
    BY <2>3, StreamAnswerBasics
  <2> QED BY <2>1, <2>2, <2>3 DEF ResolveStream, FinishStream
<1>4. PICK p \in 1..delivered : m = log[p]
  BY Places DEF Basics
<1>5. \A i \in 1..delivered : log[i] \in Messages /\ log[i] \in Arrived /\ Position(log[i]) = i /\ i \in Nat
  BY Places DEF Basics
<1>6. \A i \in 1..delivered : i = p \/ st'[log[i]] = st[log[i]]
  <2>1. \A i \in 1..delivered : log[i] = m => i = p
    BY <1>4, <1>5
  <2> QED BY <1>3, <1>5, <2>1
<1>7. /\ blocker = m.n /\ m = Message("stream", m.n) /\ m.n # 0
      /\ \A j \in 1..delivered : p < j => st[log[j]].pc = "blocked" /\ st[log[j]].on = m.n
  <2>1. m \in Messages /\ m.type = "stream"
    BY <1>1, OfKind DEF Resolving
  <2> QED BY <1>1, <1>2, <1>4, <2>1, Kinds, Bounds DEF Ordered, ResolvingGoesAlone
\* There is no other.
<1>8. \A i \in 1..delivered : Resolving(log[i]) => i = p
  <2> SUFFICES ASSUME NEW i \in 1..delivered, Resolving(log[i]) PROVE i = p
    OBVIOUS
  <2>1. log[i].n = m.n
    BY <1>2, <1>7 DEF Ordered, ResolvingGoesAlone
  <2>2. log[i] = m
    BY <1>5, <1>7, <2>1, Kinds DEF Resolving
  <2> QED BY <1>4, <1>5, <2>2
<1>9. \A i \in 1..delivered : (st'[log[i]].pc = "blocked") = (st[log[i]].pc = "blocked")
  <2>1. st'[log[p]].pc # "blocked" /\ st[log[p]].pc # "blocked"
    BY <1>1, <1>3, <1>4 DEF Resolving
  <2> QED BY <1>6, <2>1
<1>10. \A i \in 1..delivered : Resolving(log[i])' => i = p
  BY <1>1, <1>6, <1>8 DEF Resolving
<1>11. ResolvingGoesAlone'
  <2> SUFFICES ASSUME NEW i \in 1..delivered, Resolving(log[i])'
               PROVE  /\ blocker' = log[i].n
                      /\ \A j \in 1..delivered : i < j => st'[log[j]].pc = "blocked" /\ st'[log[j]].on = log[i].n
    BY <1>1 DEF ResolvingGoesAlone
  <2>1. i = p
    BY <1>10
  <2>2. blocker' = blocker
    BY <1>1, <1>3, <1>4, <1>7, <2>1 DEF Resolving
  <2>3. \A j \in 1..delivered : i < j => st'[log[j]] = st[log[j]]
    BY <1>5, <1>6, <2>1
  <2> QED BY <1>4, <1>7, <2>1, <2>2, <2>3
<1>12. BlockerIsResolved'
  <2> SUFFICES ASSUME blocker' # 0
               PROVE  \E i \in 1..delivered : log[i] = Message("stream", blocker') /\ Resolving(log[i])'
    BY <1>1 DEF BlockerIsResolved
  <2>1. blocker' = m.n /\ Move(m, "fetching")
    BY <1>1, <1>7
  <2>2. st'[m].pc = "fetching"
    BY <2>1, OfKind, Moved DEF Basics, Stages, Ended
  <2> QED BY <1>1, <1>4, <1>7, <2>1, <2>2 DEF Resolving
<1>13. WaitsForEarlier'
  <2> SUFFICES ASSUME NEW j \in 1..delivered, st'[log[j]].pc = "blocked"
               PROVE  \E i \in 1..delivered : /\ i < j /\ log[i] = Message("stream", st'[log[j]].on)
                                              /\ st'[log[i]].pc # "blocked"
    BY <1>1 DEF WaitsForEarlier
  <2>1. st'[log[j]] = st[log[j]]
    BY <1>3, <1>4, <1>6
  <2>2. PICK i \in 1..delivered : /\ i < j /\ log[i] = Message("stream", st[log[j]].on)
                                  /\ st[log[i]].pc # "blocked"
    BY <1>2, <2>1 DEF Ordered, WaitsForEarlier
  <2> QED BY <1>9, <2>1, <2>2
<1>14. WaitingStreamsHold'
  BY <1>1, <1>2, <1>9 DEF Ordered, WaitingStreamsHold
<1> QED BY <1>11, <1>12, <1>13, <1>14 DEF InOrder, Ordered

\* The steps that are of no stream message, and of none that waits for one.
UpdateStep(m) == Resume(m) \/ ResolvePost(m) \/ StorePost(m) \/ Count(m) \/ UpdateFails(m) \/ MeFetchFails(m)
UserStep(m) == GetLastReads(m) \/ GetLastReadItems(m) \/ ReadMe(m) \/ ApplyMe(m) \/ ServerAnswersMe(m) \/ MeAnswer(m)

LEMMA OtherSteps ==
    ASSUME Basics, NEW m \in Arrived, UpdateStep(m) \/ UserStep(m)
    PROVE  /\ m \in Messages /\ m.type \in {"post", "me"}
           /\ st[m].pc # "blocked" /\ st'[m].pc \notin {"blocked", "ready"}
           /\ \A o \in Messages \ {m} : st'[o] = st[o]
           /\ UNCHANGED <<reads, posted, log, delivered, blocker, known, piled>>
<1>1. m \in Messages /\ m.type \in {"stream", "post", "me"}
  BY OfKind
<1>2. CASE Resume(m)
  BY <1>1, <1>2, ResumeBasics DEF Resume, server, cached
<1>3. CASE ResolvePost(m)
  BY <1>1, <1>3, ResolvePostBasics DEF ResolvePost, server
<1>4. CASE StorePost(m)
  BY <1>1, <1>4, StorePostBasics, OfKind DEF StorePost, server
<1>5. CASE Count(m)
  <2>1. st[m].pc = "counting" /\ UNCHANGED <<reads, posted, log, delivered, blocker, known, piled>>
    BY <1>5 DEF Count, server, cached
  <2>2. st'[m].pc \in {"done", "dropped"} /\ \A o \in Messages \ {m} : st'[o] = st[o]
    BY <1>5, CountBasics
  <2> QED BY <1>1, <2>1, <2>2, OfKind
<1>6. CASE UpdateFails(m) \/ MeFetchFails(m)
  <2>1. st[m].pc = "counting" \/ (st[m].pc = "fetching" /\ m.type = "me")
    BY <1>6 DEF UpdateFails, MeFetchFails
  <2>2. UNCHANGED <<reads, posted, log, delivered, blocker, known, piled>>
    BY <1>6 DEF UpdateFails, MeFetchFails, server, cached
  <2> QED BY <1>1, <1>6, <2>1, <2>2, OfKind, UpdateFailsBasics
<1>7. CASE GetLastReads(m) \/ GetLastReadItems(m)
  <2>1. st[m].pc \in {"ready", "items"} /\ UNCHANGED <<reads, posted, log, delivered, blocker, known, piled>>
    BY <1>7 DEF GetLastReads, GetLastReadItems, server, cached
  <2> QED BY <1>1, <1>7, <2>1, GetBasics
<1>8. CASE ReadMe(m)
  <2>1. st[m].pc = "read" /\ UNCHANGED <<reads, posted, log, delivered, blocker, known, piled>>
    BY <1>8 DEF ReadMe, server, cached
  <2> QED BY <1>1, <1>8, <2>1, ReadMeBasics
<1>9. CASE ApplyMe(m)
  <2>1. st[m].pc = "resolving" /\ UNCHANGED <<reads, posted, log, delivered, blocker, known, piled>>
    BY <1>9 DEF ApplyMe, server
  <2>2. /\ m.type = "me" /\ st'[m].pc \in {"fetching", "done"}
        /\ \A o \in Messages \ {m} : st'[o] = st[o]
    BY <1>9, ApplyMeBasics
  <2> QED BY <1>1, <2>1, <2>2
<1>10. CASE ServerAnswersMe(m)
  <2>1. st[m].pc = "fetching" /\ UNCHANGED <<reads, posted, log, delivered, blocker, known, piled>>
    BY <1>10 DEF ServerAnswersMe, server, cached
  <2> QED BY <1>1, <1>10, <2>1, ServerAnswersMeBasics
<1>11. CASE MeAnswer(m)
  <2>1. UNCHANGED <<reads, posted, log, delivered, blocker, known, piled>>
    BY <1>11 DEF MeAnswer, server
  <2> QED BY <1>1, <1>11, <2>1, MeAnswerBasics
<1> QED BY <1>2, <1>3, <1>4, <1>5, <1>6, <1>7, <1>8, <1>9, <1>10, <1>11 DEF UpdateStep, UserStep

\* What the steps of the server and of computations leave alone.
News == {Message(kind, k) : kind \in {"stream", "post", "me"}, k \in Nat}

LEMMA ServerSteps ==
    ASSUME Basics, ServerPosts \/ ServerMarksRead \/ ServerAddsStream
    PROVE  /\ \A i \in 1..Len(log) : log'[i] = log[i]
           /\ Len(log') \in Nat /\ Len(log) <= Len(log')
           /\ UNCHANGED <<delivered, st, blocker, cached, counters, failures, overlap, ahead, overtaken, leapt, unnoticed, piled>>
<1> DEFINE post == Message("post", posted + 1)
           mine == Message("me", Current + 1)
<1>1. post \in News /\ mine \in News
  BY Numbers DEF Basics, News
<1>2. \A k \in 1..MaxStreams : Message("stream", k) \in News
  BY Bounds DEF News
<1> HIDE DEF post, mine
<1>3. \E news \in Seq(News) : log' = log \o news
  <2>1. CASE ServerPosts
    <3>1. log' = log \o <<post>> \/ log' = log \o <<post, mine>>
      BY <2>1 DEF ServerPosts, Publish, post, mine
    <3>2. <<post>> \in Seq(News) /\ <<post, mine>> \in Seq(News)
      BY <1>1
    <3> QED BY <3>1, <3>2
  <2>2. CASE ServerMarksRead
    <3>1. log' = log \o <<mine>>
      BY <2>2 DEF ServerMarksRead, Publish, mine
    <3>2. <<mine>> \in Seq(News)
      BY <1>1
    <3> QED BY <3>1, <3>2
  <2>3. CASE ServerAddsStream
    <3>1. PICK k \in 1..MaxStreams : log' = log \o <<Message("stream", k)>>
      BY <2>3 DEF ServerAddsStream, Publish
    <3>2. <<Message("stream", k)>> \in Seq(News)
      BY <1>2
    <3> QED BY <3>1, <3>2
  <2> QED BY <2>1, <2>2, <2>3
<1>4. PICK news \in Seq(News) : log' = log \o news
  BY <1>3
<1>5. log \in Seq(Messages)
  BY Typed DEF Basics, Types
<1>6. Len(log') = Len(log) + Len(news) /\ Len(log) \in Nat /\ Len(news) \in Nat
  BY <1>4, <1>5
<1>7. \A i \in 1..Len(log) : log'[i] = log[i]
  BY <1>4, <1>5
<1>8. UNCHANGED <<delivered, st, blocker, cached, counters, failures, overlap, ahead, overtaken, leapt, unnoticed, piled>>
  BY DEF ServerPosts, ServerMarksRead, ServerAddsStream
<1>9. Len(log') \in Nat /\ Len(log) <= Len(log')
  BY <1>6
<1> QED BY <1>7, <1>8, <1>9

LEMMA ComputeSteps ==
    ASSUME NEW c \in Computes, ComputeStep(c)
    PROVE  /\ UNCHANGED <<reads, posted, log, delivered, st, blocker, known, me, heap, overtaken, leapt, unnoticed, piled>>
           /\ Idle \/ ComputeResumes(c)
  BY DEF ComputeStep, ComputeResumes, ServerAnswersUnread, UnreadAnswer, PostsRead, PageAnswer,
         ComputeFinish, ComputeFails, server, cached

LEMMA NextInOrder == Basics /\ InOrder /\ [Next]_vars => InOrder'
<1> SUFFICES ASSUME Basics, InOrder, [Next]_vars PROVE InOrder'
  OBVIOUS
<1>1. CASE UNCHANGED vars
  BY <1>1, OrderStays DEF vars, server
<1>2. CASE ServerPosts \/ ServerMarksRead \/ ServerAddsStream
  <2>1. \A i \in 1..delivered : i \in 1..Len(log)
    BY Numbers DEF Basics
  <2>2. \A i \in 1..delivered : log'[i] = log[i]
    BY <1>2, <2>1, ServerSteps
  <2> QED BY <1>2, <2>2, ServerSteps, OrderStays
<1>3. CASE Deliver
  BY <1>3, DeliverInOrder
<1>4. CASE InitAnswer
  BY <1>4, OrderStays DEF InitAnswer, server
<1>5. ASSUME NEW m \in Arrived, MessageStep(m) PROVE InOrder'
  <2>1. CASE Release(m)
    BY <2>1, ReleaseInOrder
  <2>2. CASE ResolveStream(m) \/ StreamAnswer(m)
    BY <2>2, StreamInOrder
  <2>3. CASE UpdateStep(m) \/ UserStep(m)
    BY <2>3, OtherSteps, OrderStays
  <2> QED BY <1>5, <2>1, <2>2, <2>3 DEF MessageStep, UpdateStep, UserStep
<1>6. ASSUME NEW c \in Computes, ComputeStep(c) PROVE InOrder'
  BY <1>6, ComputeSteps, OrderStays
<1> QED BY <1>1, <1>2, <1>3, <1>4, <1>5, <1>6 DEF Next

\* While a stream is resolved everything published after it waits, in its batch and in later
\* ones, unless a stream message has waited for another.
THEOREM BlockersAreAlone == Spec => []BlockersGoAlone
<1>1. Basics /\ InOrder => BlockersGoAlone
  <2> SUFFICES ASSUME Basics, Ordered, NEW s \in Arrived, NEW m \in Arrived,
                      Resolving(s), Position(m) > Position(s)
               PROVE  st[m].pc = "blocked"
    BY DEF InOrder, BlockersGoAlone, Resolving
  <2>1. PICK i \in 1..delivered : s = log[i]
    BY Places DEF Basics
  <2>2. PICK j \in 1..delivered : m = log[j]
    BY Places DEF Basics
  <2>3. Position(s) = i /\ Position(m) = j
    BY <2>1, <2>2, Places DEF Basics
  <2>4. i < j
    BY <2>3
  <2> QED BY <2>1, <2>2, <2>4 DEF Ordered, ResolvingGoesAlone
<1> QED BY <1>1, InitBasics, NextBasics, InitInOrder, NextInOrder, PTL DEF Spec

--------------------------------------------------------------------------------
(* What can be lost, and why. *)

NoneFailed ==
    failures = 0 => /\ init # "failed" /\ \A c \in Computes : comp[c].pc # "failed"
                    /\ \A m \in Messages : m.type = "stream" /\ st[m].pc = "done" => m.n \in known

NoneDropped == failures = 0 => \A m \in Messages : st[m].pc = "dropped" => m.type = "post" /\ piled

Lossless == NoneFailed /\ NoneDropped

LEMMA InitLossless == Init => Lossless
<1> SUFFICES ASSUME Init PROVE Lossless
  OBVIOUS
<1>1. PICK streams \in 0..MaxStreams :
        /\ known = 1..streams
        /\ st = [m \in Messages |->
                    [Quiet EXCEPT !.pc = IF m.type = "stream" /\ m.n <= streams
                                         THEN "done" ELSE "none"]]
  BY DEF Init
<1>2. \A m \in Messages : st[m].pc = IF m.type = "stream" /\ m.n <= streams THEN "done" ELSE "none"
  BY <1>1 DEF Quiet
<1>3. ASSUME NEW m \in Messages, m.type = "stream", st[m].pc = "done" PROVE m.n \in known
  <2>1. m.n <= streams /\ m.n \in 1..MaxStreams
    BY <1>2, <1>3, Kinds
  <2> QED BY <1>1, <2>1, Bounds
<1>4. init # "failed" /\ \A c \in Computes : comp[c].pc # "failed"
  BY DEF Init, Idling
<1> QED BY <1>2, <1>3, <1>4 DEF Lossless, NoneFailed, NoneDropped

\* A step that moves one message, or none, loses nothing ...
LEMMA MessageLossless ==
    ASSUME Lossless, NEW m \in Messages, \A o \in Messages \ {m} : st'[o] = st[o],
           known \subseteq known', piled => piled', init' = "failed" => init = "failed" \/ failures' # 0,
           failures' = failures \/ failures' # 0,
           \A c \in Computes : comp'[c].pc = "failed" => comp[c].pc = "failed" \/ failures' # 0,
           m.type = "stream" /\ st'[m].pc = "done" /\ failures' = 0 => m.n \in known',
           st'[m].pc = "dropped" /\ failures' = 0 => m.type = "post" /\ piled'
    PROVE  Lossless'
<1> SUFFICES ASSUME failures' = 0 PROVE Lossless'
  BY DEF Lossless, NoneFailed, NoneDropped
<1>1. init # "failed" /\ \A c \in Computes : comp[c].pc # "failed"
  BY DEF Lossless, NoneFailed
<1>2. init' # "failed" /\ \A c \in Computes : comp'[c].pc # "failed"
  BY <1>1
<1>3. ASSUME NEW o \in Messages, o.type = "stream", st'[o].pc = "done" PROVE o.n \in known'
  BY <1>3 DEF Lossless, NoneFailed
<1>4. ASSUME NEW o \in Messages, st'[o].pc = "dropped" PROVE o.type = "post" /\ piled'
  BY <1>4 DEF Lossless, NoneDropped
<1> QED BY <1>2, <1>3, <1>4 DEF Lossless, NoneFailed, NoneDropped

\* ... nor does one that moves none to an end.
LEMMA QuietLossless ==
    ASSUME Lossless, \A o \in Messages : st'[o] = st[o] \/ st'[o].pc \in {"ready", "blocked"},
           known \subseteq known', piled => piled', init' = "failed" => init = "failed" \/ failures' # 0,
           failures' = failures \/ failures' # 0,
           \A c \in Computes : comp'[c].pc = "failed" => comp[c].pc = "failed" \/ failures' # 0
    PROVE  Lossless'
<1> SUFFICES ASSUME failures' = 0 PROVE Lossless'
  BY DEF Lossless, NoneFailed, NoneDropped
<1>1. init # "failed" /\ \A c \in Computes : comp[c].pc # "failed"
  BY DEF Lossless, NoneFailed
<1>2. init' # "failed" /\ \A c \in Computes : comp'[c].pc # "failed"
  BY <1>1
<1>3. ASSUME NEW o \in Messages, o.type = "stream", st'[o].pc = "done" PROVE o.n \in known'
  BY <1>3 DEF Lossless, NoneFailed
<1>4. ASSUME NEW o \in Messages, st'[o].pc = "dropped" PROVE o.type = "post" /\ piled'
  BY <1>4 DEF Lossless, NoneDropped
<1> QED BY <1>2, <1>3, <1>4 DEF Lossless, NoneFailed, NoneDropped

\* The stream of a post that is processed is known, unless its request failed: the post waits for it.
LEMMA CountedInKnown ==
    ASSUME Basics, Ordered, NoneFailed, failures = 0, NEW m \in Arrived, m.type = "post", st[m].pc # "blocked"
    PROVE  Target \in known
<1>1. PICK j \in 1..delivered : m = log[j]
  BY Places DEF Basics
<1>2. j \in 1..Len(log) /\ delivered \in Nat
  BY Places, Numbers DEF Basics
<1>3. PICK i \in 1..(j - 1) : log[i] = Message("stream", Target)
  BY <1>1, <1>2 DEF Basics, Logged
<1>4. i \in 1..delivered /\ i < j
  BY <1>2
<1>5. log[i] \in Arrived /\ log[i] \in Messages /\ log[i].type = "stream" /\ log[i].n = Target
  BY <1>3, <1>4, Places, Kinds DEF Basics
<1>6. st[log[i]].pc \in StreamStages /\ st[log[i]].pc # "none"
  BY <1>5, OfKind DEF Fits, Basics, Staged, StagedMessage
<1>7. st[log[i]].pc # "blocked"
  BY <1>1, <1>4, <1>5 DEF Ordered, WaitingStreamsHold
<1>8. st[log[i]].pc \notin {"ready", "fetching"}
  BY <1>1, <1>4, <1>5 DEF Ordered, ResolvingGoesAlone, Resolving
<1>9. st[log[i]].pc = "done"
  BY <1>6, <1>7, <1>8 DEF StreamStages
<1> QED BY <1>5, <1>9 DEF NoneFailed

LEMMA NextLossless == Basics /\ InOrder /\ Lossless /\ [Next]_vars => Lossless'
<1> SUFFICES ASSUME Basics, InOrder, Lossless, [Next]_vars PROVE Lossless'
  OBVIOUS
<1>0. failures = 0 => init # "failed" /\ \A c \in Computes : comp[c].pc # "failed"
  BY DEF Lossless, NoneFailed
<1>1. CASE UNCHANGED vars
  BY <1>1, QuietLossless DEF vars, cached, counters
<1>2. CASE ServerPosts \/ ServerMarksRead \/ ServerAddsStream
  BY <1>2, ServerSteps, QuietLossless DEF cached, counters
<1>3. CASE Deliver
  <2>1. \A o \in Messages : st'[o] = st[o] \/ st'[o].pc \in {"ready", "blocked"}
    BY <1>3, DeliverGives
  <2>2. UNCHANGED <<known, init, comp, failures, piled>>
    BY <1>3 DEF Deliver, cached, counters
  <2> QED BY <2>1, <2>2, QuietLossless
<1>4. CASE InitAnswer
  <2>1. UNCHANGED <<st, known, comp, piled>>
    BY <1>4 DEF InitAnswer, counters
  <2>2. (failures' = failures /\ init' = "yes") \/ failures' > 0
    BY <1>4, FailingCounts DEF InitAnswer
  <2> QED BY <2>1, <2>2, QuietLossless
<1>5. ASSUME NEW m \in Arrived, MessageStep(m) PROVE Lossless'
  <2>0. m \in Messages /\ Fits(m, st[m])
    BY OfKind
  <2>1. CASE Release(m)
    <3>1. \A o \in Messages : st'[o] = st[o] \/ st'[o].pc \in {"ready", "blocked"}
      BY <2>1, ReleaseBasics
    <3>2. UNCHANGED <<known, init, comp, failures>> /\ (piled => piled')
      BY <2>1 DEF Release, cached, counters
    <3> QED BY <3>1, <3>2, QuietLossless
  <2>2. CASE ResolveStream(m)
    <3>1. UNCHANGED <<init, comp, failures, piled>> /\ known \subseteq known'
      BY <2>2 DEF ResolveStream, counters
    <3>2. st'[m].pc = "done" => m.n \in known'
      <4>1. CASE Move(m, "fetching")
        BY <2>0, <4>1, Moved DEF Basics, Stages, Ended
      <4> QED BY <2>2, <4>1 DEF ResolveStream
    <3> QED BY <2>0, <2>2, <3>1, <3>2, ResolveStreamBasics, MessageLossless
  <2>3. CASE StreamAnswer(m)
    <3>1. UNCHANGED <<init, comp, piled>> /\ known \subseteq known'
      BY <2>3 DEF StreamAnswer, counters
    <3>2. (failures' = failures /\ m.n \in known') \/ failures' > 0
      BY <2>3, FailingCounts DEF StreamAnswer
    <3> QED BY <2>0, <2>3, <3>1, <3>2, StreamAnswerBasics, MessageLossless
  <2>4. CASE UpdateStep(m) \/ UserStep(m)
    <3>1. /\ m.type \in {"post", "me"} /\ UNCHANGED <<known, piled>>
          /\ \A o \in Messages \ {m} : st'[o] = st[o]
      BY <2>4, OtherSteps
    <3>2. CASE Resume(m)
      <4>1. UNCHANGED <<init, comp, failures>>
        BY <3>2 DEF Resume, cached, counters
      <4>2. st'[m].pc = "dropped" => failures # 0
        BY <1>0, <3>2, ResumeBasics
      <4> QED BY <2>0, <3>1, <4>1, <4>2, MessageLossless
    <3>3. CASE ResolvePost(m)
      <4>1. UNCHANGED <<comp, failures>> /\ (init' = "failed" => init = "failed")
        BY <3>3 DEF ResolvePost, counters
      <4>2. st'[m].pc = "dropped" => failures # 0
        BY <1>0, <3>3, ResolvePostBasics
      <4> QED BY <2>0, <3>1, <4>1, <4>2, MessageLossless
    <3>4. CASE StorePost(m)
      <4>1. UNCHANGED <<init, comp, failures>>
        BY <3>4 DEF StorePost, counters
      <4>2. st'[m].pc = "dropped" => failures # 0
        BY <1>0, <3>4, StorePostBasics
      <4> QED BY <2>0, <3>1, <4>1, <4>2, MessageLossless
    <3>5. CASE Count(m)
      <4>1. UNCHANGED <<init, comp, failures>> /\ st[m].pc = "counting"
        BY <3>5 DEF Count, cached
      <4>2. m.type = "post"
        BY <4>1, OfKind
      <4>3. failures = 0 /\ ~piled => Target \in known
        BY <4>1, <4>2, CountedInKnown DEF InOrder, Lossless
      <4>4. st'[m].pc = "dropped" /\ failures = 0 => piled
        BY <3>5, <4>3, CountBasics
      <4> QED BY <2>0, <3>1, <4>1, <4>2, <4>4, MessageLossless
    <3>6. CASE UpdateFails(m) \/ MeFetchFails(m)
      <4>1. UNCHANGED <<init, comp>>
        BY <3>6 DEF UpdateFails, MeFetchFails, cached, counters
      <4>2. failures' > 0 /\ failures' # 0
        BY <3>6, UpdateFailsBasics
      <4> QED BY <2>0, <3>1, <4>1, <4>2, MessageLossless
    <3>7. CASE GetLastReads(m) \/ GetLastReadItems(m)
      <4>1. UNCHANGED <<init, comp, failures>>
        BY <3>7 DEF GetLastReads, GetLastReadItems, cached, counters
      <4>2. st'[m].pc = "dropped" => failures # 0
        BY <1>0, <3>7, GetBasics
      <4> QED BY <2>0, <3>1, <4>1, <4>2, MessageLossless
    <3>8. CASE ReadMe(m) \/ ServerAnswersMe(m)
      <4>1. UNCHANGED <<init, comp, failures>>
        BY <3>8 DEF ReadMe, ServerAnswersMe, cached, counters
      <4>2. st'[m].pc \in {"resolving", "answered"}
        BY <3>8, ReadMeBasics, ServerAnswersMeBasics
      <4> QED BY <2>0, <3>1, <4>1, <4>2, MessageLossless
    <3>9. CASE ApplyMe(m)
      <4>1. UNCHANGED <<init, failures>>
        BY <3>9 DEF ApplyMe
      <4>2. st'[m].pc \in {"fetching", "done"} /\ \A d \in Computes : comp'[d].pc = "failed" => comp[d].pc = "failed"
        BY <3>9, ApplyMeBasics
      <4> QED BY <2>0, <3>1, <4>1, <4>2, MessageLossless
    <3>10. CASE MeAnswer(m)
      <4>1. UNCHANGED <<init, failures>>
        BY <3>10 DEF MeAnswer
      <4>2. st'[m].pc = "done" /\ \A d \in Computes : comp'[d].pc = "failed" => comp[d].pc = "failed"
        BY <3>10, MeAnswerBasics
      <4> QED BY <2>0, <3>1, <4>1, <4>2, MessageLossless
    <3> QED BY <2>4, <3>2, <3>3, <3>4, <3>5, <3>6, <3>7, <3>8, <3>9, <3>10 DEF UpdateStep, UserStep
  <2> QED BY <1>5, <2>1, <2>2, <2>3, <2>4 DEF MessageStep, UpdateStep, UserStep
<1>6. ASSUME NEW c \in Computes, ComputeStep(c) PROVE Lossless'
  <2>1. UNCHANGED <<st, known, piled>>
    BY <1>6, ComputeSteps
  <2>2. init' = "failed" => init = "failed"
    BY <1>6 DEF ComputeStep, ComputeResumes, ServerAnswersUnread, UnreadAnswer, PostsRead, PageAnswer,
                ComputeFinish, ComputeFails, cached
  <2>3. failures' = failures \/ Fail
    BY <1>6 DEF ComputeStep, ComputeResumes, ServerAnswersUnread, UnreadAnswer, PostsRead, PageAnswer,
                ComputeFinish, ComputeFails
  <2>4. failures' = failures \/ failures' > 0
    BY <2>3, FailingCounts
  <2>5. OnlyFailuresFail
    BY <1>6, ComputeResumesBasics, ServerAnswersUnreadBasics, UnreadAnswerBasics, PostsReadBasics,
       PageAnswerBasics, ComputeFinishBasics, ComputeFailsBasics DEF ComputeStep
  <2>6. failures' > 0 => failures' # 0
    OBVIOUS
  <2> QED BY <2>1, <2>2, <2>4, <2>5, <2>6, QuietLossless DEF OnlyFailuresFail
<1> QED BY <1>1, <1>2, <1>3, <1>4, <1>5, <1>6 DEF Next

\* A message is given up only after a request that failed, or a post if stream messages have
\* waited for one another.
THEOREM LostOnlyByFailures == Spec => []LostOnlyByFailure
<1>1. Basics /\ Lossless => LostOnlyByFailure
  <2> SUFFICES ASSUME Basics, Lossless, NEW m \in Messages, st[m].pc = "dropped"
               PROVE  failures > 0 \/ piled
    BY DEF LostOnlyByFailure
  <2>1. failures \in Nat
    BY Typed, Bounds DEF Basics, Types, Others
  <2>2. CASE failures = 0
    BY <2>2 DEF Lossless, NoneDropped
  <2>3. CASE failures # 0
    BY <2>1, <2>3
  <2> QED BY <2>2, <2>3
<1> QED BY <1>1, InitBasics, NextBasics, InitInOrder, NextInOrder, InitLossless, NextLossless, PTL DEF Spec

--------------------------------------------------------------------------------
(* The version of the cached user. *)

\* What a message has read of the cached user is not ahead of it, and a directive that is going
\* to be applied is still the next one: two directives never apply to the same version.
Applicable ==
    \A m \in Messages : m.type = "me" /\ st[m].pc = "resolving" =>
        st[m].seen <= me.version /\ (st[m].seen = m.n - 1 => me.version = m.n - 1)

\* A change that was processed is in the cached user.
Applied ==
    ~overtaken => \A m \in Messages : m.type = "me" /\ st[m].pc = "done" => m.n <= me.version

UserKept == Applicable /\ Applied /\ me.version <= Current

LEMMA InitUserKept == Init => UserKept
<1> SUFFICES ASSUME Init PROVE UserKept
  OBVIOUS
<1>1. \A m \in Messages : m.type = "me" => st[m].pc = "none"
  BY DEF Init, Quiet
<1>2. me.version = 1 /\ 1 <= Current
  BY InitBasics, Numbers DEF Init, Basics
<1> QED BY <1>1, <1>2 DEF UserKept, Applicable, Applied

\* A step that changes no user keeps this if it ends the processing of none.
LEMMA UserStays ==
    ASSUME UserKept, UNCHANGED <<me, reads>>, overtaken => overtaken',
           \A o \in Messages : \/ st'[o] = st[o] \/ o.type # "me"
                               \/ st'[o].pc \notin {"resolving", "done"}
                               \/ st'[o].pc = "resolving" /\ st'[o].seen = me.version,
           me.version \in Nat
    PROVE  UserKept'
<1>1. Applicable'
  <2> SUFFICES ASSUME NEW m \in Messages, m.type = "me", st'[m].pc = "resolving"
               PROVE  st'[m].seen <= me.version /\ (st'[m].seen = m.n - 1 => me.version = m.n - 1)
    BY DEF Applicable
  <2>1. CASE st'[m] = st[m]
    BY <2>1 DEF UserKept, Applicable
  <2>2. CASE st'[m].seen = me.version
    BY <2>2
  <2> QED BY <2>1, <2>2
<1>2. Applied'
  <2> SUFFICES ASSUME ~overtaken', NEW m \in Messages, m.type = "me", st'[m].pc = "done"
               PROVE  m.n <= me.version
    BY DEF Applied
  <2>1. st'[m] = st[m]
    OBVIOUS
  <2> QED BY <2>1 DEF UserKept, Applied
<1> QED BY <1>1, <1>2 DEF UserKept, Current

LEMMA ApplyMeKeeps ==
    ASSUME Basics, UserKept, NEW m \in Arrived, ApplyMe(m)
    PROVE  UserKept'
<1>1. /\ m.type = "me" /\ m.n \in 2..Current /\ m \in Messages
      /\ st'[m].pc = IF CacheUpdateAction(st[m].seen, m.n) = "query" THEN "fetching" ELSE "done"
      /\ \A o \in Messages \ {m} : st'[o] = st[o]
      /\ me' = IF CacheUpdateAction(st[m].seen, m.n) = "update" THEN [me EXCEPT !.version = m.n] ELSE me
  BY ApplyMeBasics, OfKind
<1>2. st[m].pc = "resolving" /\ overtaken' = overtaken /\ Current' = Current
  BY DEF ApplyMe, server, Current
<1>3. st[m].seen \in Nat /\ m.n \in Nat /\ me.version \in Nat /\ m.n <= Current /\ Current \in Nat
  <2>1. st[m] \in Progress /\ me \in [version : 1..MaxMe, object : Objects \ {0}]
    BY OfKind, Typed DEF Basics, Types, Others
  <2>2. st[m].seen \in Nat /\ me.version \in Nat
    BY <2>1, Bounds DEF Progress
  <2>3. Current \in Nat
    BY Numbers DEF Basics
  <2> QED BY <1>1, <2>2, <2>3
<1>4. st[m].seen <= me.version /\ (st[m].seen = m.n - 1 => me.version = m.n - 1)
  BY <1>1, <1>2 DEF UserKept, Applicable
<1>5. \A o \in Messages : o.type = "me" /\ o.n = m.n => o = m
  BY <1>1, Kinds
<1>5a. \A o \in Messages : o.n \in Nat
  BY Kinds
<1>6. CASE st[m].seen = m.n - 1
  <2>1. CacheUpdateAction(st[m].seen, m.n) = "update"
    <3>1. ~(st[m].seen >= m.n)
      BY <1>3, <1>6
    <3> QED BY <1>6, <3>1 DEF CacheUpdateAction
  <2>2. me'.version = m.n /\ me.version = m.n - 1 /\ st'[m].pc = "done"
    <3>1. me' = [me EXCEPT !.version = m.n] /\ me \in [version : 1..MaxMe, object : Objects \ {0}]
      BY <1>1, <2>1, Typed DEF Basics, Types, Others
    <3>2. me'.version = m.n
      BY <3>1
    <3> QED BY <1>1, <1>4, <1>6, <2>1, <3>2
  <2>3. Applicable'
    <3> SUFFICES ASSUME NEW o \in Messages, o.type = "me", st'[o].pc = "resolving"
                 PROVE  st'[o].seen <= m.n /\ (st'[o].seen = o.n - 1 => m.n = o.n - 1)
      BY <2>2 DEF Applicable
    <3>1. o # m /\ st'[o] = st[o]
      BY <1>1, <2>2
    <3>2. st[o].seen <= me.version /\ (st[o].seen = o.n - 1 => me.version = o.n - 1)
      BY <3>1 DEF UserKept, Applicable
    <3>3. st[o].seen \in Nat
      <4>1. st[o] \in Progress
        BY Typed DEF Basics, Types
      <4> QED BY <4>1, Bounds DEF Progress
    <3>4. o.n # m.n
      BY <1>5, <3>1
    <3> QED BY <1>3, <1>5a, <2>2, <3>1, <3>2, <3>3, <3>4
  <2>4. Applied'
    <3> SUFFICES ASSUME ~overtaken, NEW o \in Messages, o.type = "me", st'[o].pc = "done"
                 PROVE  o.n <= m.n
      BY <1>2, <2>2 DEF Applied
    <3>1. CASE o = m
      BY <1>3, <3>1
    <3>2. CASE o # m
      <4>1. o.n <= me.version
        BY <1>1, <3>2 DEF UserKept, Applied
      <4> QED BY <1>3, <1>5a, <2>2, <4>1
    <3> QED BY <3>1, <3>2
  <2> QED BY <1>2, <1>3, <2>2, <2>3, <2>4 DEF UserKept
<1>7. CASE st[m].seen # m.n - 1
  <2>1. CacheUpdateAction(st[m].seen, m.n) # "update" /\ me' = me
    BY <1>1, <1>7 DEF CacheUpdateAction
  <2>2. st'[m].pc = "done" => m.n <= st[m].seen
    <3>1. CacheUpdateAction(st[m].seen, m.n) = IF st[m].seen >= m.n THEN "skip" ELSE "query"
      BY <1>7 DEF CacheUpdateAction
    <3> QED BY <1>1, <1>3, <3>1
  <2>3. Applicable'
    <3>1. \A o \in Messages : o.type = "me" /\ st'[o].pc = "resolving" => st'[o] = st[o]
      BY <1>1
    <3> QED BY <2>1, <3>1 DEF UserKept, Applicable
  <2>4. Applied'
    <3> SUFFICES ASSUME ~overtaken, NEW o \in Messages, o.type = "me", st'[o].pc = "done"
                 PROVE  o.n <= me.version
      BY <1>2, <2>1 DEF Applied
    <3>1. CASE o = m
      BY <1>3, <1>4, <2>2, <3>1
    <3>2. CASE o # m
      BY <1>1, <3>2 DEF UserKept, Applied
    <3> QED BY <3>1, <3>2
  <2> QED BY <1>2, <2>1, <2>3, <2>4 DEF UserKept
<1> QED BY <1>6, <1>7

LEMMA MeAnswerKeeps ==
    ASSUME Basics, UserKept, NEW m \in Arrived, MeAnswer(m)
    PROVE  UserKept'
<1>1. /\ m.type = "me" /\ m \in Messages /\ st[m].seen \in m.n..Current
      /\ st'[m].pc = "done"
      /\ \A o \in Messages \ {m} : st'[o] = st[o]
      /\ me'.version = st[m].seen
      /\ overtaken' = (overtaken \/ st[m].seen < me.version)
  BY MeAnswerBasics, OfKind
<1>2. Idle /\ Current' = Current
  BY DEF MeAnswer, server, Current
\* Nothing is resolving while the event loop idles.
<1>3. \A o \in Messages : st[o].pc # "resolving"
  <2> SUFFICES ASSUME NEW o \in Messages, st[o].pc = "resolving" PROVE FALSE
    OBVIOUS
  <2>1. o \in Arrived
    BY DEF Basics, Staged, StagedMessage
  <2> QED BY <1>2, <2>1 DEF Idle, Ready
<1>4. Applicable'
  BY <1>1, <1>3 DEF Applicable
<1>5. \A o \in Messages : o.n \in Nat
  BY Kinds
<1>6. me.version \in Nat /\ Current \in Nat
  <2>1. me \in [version : 1..MaxMe, object : Objects \ {0}]
    BY Typed DEF Basics, Types, Others
  <2> QED BY <2>1, Numbers, Bounds DEF Basics
<1>7. st[m].seen \in Nat /\ m.n <= st[m].seen /\ st[m].seen <= Current
  BY <1>1, <1>5, <1>6
<1>8. Applied'
  <2> SUFFICES ASSUME ~overtaken', NEW o \in Messages, o.type = "me", st'[o].pc = "done"
               PROVE  o.n <= me'.version
    BY DEF Applied
  <2>1. CASE o = m
    BY <1>1, <1>7, <2>1
  <2>2. CASE o # m
    <3>1. o.n <= me.version
      BY <1>1, <2>2 DEF UserKept, Applied
    <3>2. ~(st[m].seen < me.version)
      BY <1>1
    <3> QED BY <1>1, <1>5, <1>6, <1>7, <3>1, <3>2
  <2> QED BY <2>1, <2>2
<1> QED BY <1>1, <1>2, <1>4, <1>7, <1>8 DEF UserKept

LEMMA NextUserKept == Basics /\ UserKept /\ [Next]_vars => UserKept'
<1> SUFFICES ASSUME Basics, UserKept, [Next]_vars PROVE UserKept'
  OBVIOUS
<1>0. me.version \in Nat
  <2>1. me \in [version : 1..MaxMe, object : Objects \ {0}]
    BY Typed DEF Basics, Types, Others
  <2> QED BY <2>1, Bounds
<1>1. CASE UNCHANGED vars
  BY <1>0, <1>1, UserStays DEF vars, server, cached
<1>2. CASE ServerPosts \/ ServerMarksRead \/ ServerAddsStream
  <2>1. UNCHANGED <<st, me, overtaken>>
    BY <1>2, ServerSteps DEF cached
  <2>2. Current \in Nat /\ Current' \in Nat /\ Current <= Current'
    <3>1. reads \in Seq(Unset..MaxPosts) /\ Current \in Nat
      BY Typed, Numbers DEF Basics, Types
    <3>2. Len(reads') = Len(reads) \/ Len(reads') = Len(reads) + 1
      <4>1. CASE ServerPosts
        BY <3>1, <4>1 DEF ServerPosts
      <4>2. CASE ServerMarksRead
        BY <3>1, <4>2 DEF ServerMarksRead
      <4>3. CASE ServerAddsStream
        BY <4>3 DEF ServerAddsStream
      <4> QED BY <1>2, <4>1, <4>2, <4>3
    <3> QED BY <3>1, <3>2 DEF Current
  <2> QED BY <1>0, <2>1, <2>2 DEF UserKept, Applicable, Applied
<1>3. CASE Deliver
  <2>1. UNCHANGED <<me, reads, overtaken>>
    BY <1>3 DEF Deliver, cached, server
  <2>2. \A o \in Messages : st'[o] = st[o] \/ st'[o].pc \in {"ready", "blocked"}
    BY <1>3, DeliverGives
  <2> QED BY <1>0, <2>1, <2>2, UserStays
<1>4. CASE InitAnswer
  BY <1>0, <1>4, UserStays DEF InitAnswer, server
<1>5. ASSUME NEW m \in Arrived, MessageStep(m) PROVE UserKept'
  <2>1. CASE Release(m)
    <3>1. UNCHANGED <<me, reads, overtaken>>
      BY <2>1 DEF Release, cached, server
    <3>2. \A o \in Messages : st'[o] = st[o] \/ st'[o].pc = "ready"
      BY <2>1, ReleaseBasics
    <3> QED BY <1>0, <3>1, <3>2, UserStays
  <2>2. CASE ResolveStream(m) \/ StreamAnswer(m)
    <3>1. m.type = "stream" /\ UNCHANGED <<me, reads, overtaken>>
      BY <2>2 DEF ResolveStream, StreamAnswer, server
    <3>2. \A o \in Messages \ {m} : st'[o] = st[o]
      BY <2>2, ResolveStreamBasics, StreamAnswerBasics
    <3> QED BY <1>0, <3>1, <3>2, UserStays
  <2>3. CASE UpdateStep(m)
    <3>1. UNCHANGED <<me, reads, overtaken>>
      BY <2>3 DEF UpdateStep, Resume, ResolvePost, StorePost, Count, UpdateFails, MeFetchFails, cached, server
    <3>2. \A o \in Messages \ {m} : st'[o] = st[o]
      BY <2>3, OtherSteps
    <3>3. m.type = "post" \/ st'[m].pc \notin {"resolving", "done"}
      <4>1. CASE Resume(m)
        BY <4>1, ResumeBasics
      <4>2. CASE ResolvePost(m) \/ StorePost(m) \/ Count(m)
        BY <4>2, OfKind DEF ResolvePost, StorePost, Count
      <4>3. CASE UpdateFails(m) \/ MeFetchFails(m)
        BY <4>3, UpdateFailsBasics
      <4> QED BY <2>3, <4>1, <4>2, <4>3 DEF UpdateStep
    <3> QED BY <1>0, <3>1, <3>2, <3>3, UserStays
  <2>4. CASE GetLastReads(m) \/ GetLastReadItems(m) \/ ServerAnswersMe(m) \/ ReadMe(m)
    <3>1. UNCHANGED <<me, reads, overtaken>>
      BY <2>4 DEF GetLastReads, GetLastReadItems, ServerAnswersMe, ReadMe, cached, server
    <3>2. /\ \A o \in Messages \ {m} : st'[o] = st[o]
          /\ \/ st'[m].pc \in {"items", "read", "waiting", "dropped", "answered"}
             \/ st'[m].pc = "resolving" /\ st'[m].seen = me.version
      BY <2>4, GetBasics, ServerAnswersMeBasics, ReadMeBasics
    <3> QED BY <1>0, <3>1, <3>2, UserStays
  <2>5. CASE ApplyMe(m)
    BY <2>5, ApplyMeKeeps
  <2>6. CASE MeAnswer(m)
    BY <2>6, MeAnswerKeeps
  <2> QED BY <1>5, <2>1, <2>2, <2>3, <2>4, <2>5, <2>6 DEF MessageStep, UpdateStep
<1>6. ASSUME NEW c \in Computes, ComputeStep(c) PROVE UserKept'
  BY <1>0, <1>6, ComputeSteps, UserStays
<1> QED BY <1>1, <1>2, <1>3, <1>4, <1>5, <1>6 DEF Next

\* Once everything is processed, and nothing failed or was replaced by an older answer, the
\* cached user is the one the server has.
THEOREM UserIsTheServers == Spec => []UserIsCurrent
<1>1. Basics /\ Lossless /\ UserKept => UserIsCurrent
  <2> SUFFICES ASSUME Basics, Lossless, UserKept, Settled, failures = 0, ~overtaken
               PROVE  me.version = Current
    BY DEF UserIsCurrent
  <2>1. me.version \in Nat /\ 1 <= me.version /\ me.version <= Current /\ Current \in Nat
    <3>1. me \in [version : 1..MaxMe, object : Objects \ {0}]
      BY Typed DEF Basics, Types, Others
    <3> QED BY <3>1, Bounds, Numbers DEF Basics, UserKept
  <2>2. CASE Current = 1
    BY <2>1, <2>2
  <2>3. CASE Current # 1
    <3>1. Current \in 2..Current /\ 1 <= Current
      BY <2>1, <2>3
    <3>2. PICK i \in 1..Len(log) : log[i] = Message("me", Current)
      BY <3>1 DEF Basics, Logged
    <3> DEFINE m == log[i]
    <3>3. m \in Arrived /\ m \in Messages /\ m.type = "me" /\ m.n = Current
      BY <3>2, Kinds, Places DEF Basics, Settled
    <3> HIDE DEF m
    <3>4. st[m].pc \in Ended /\ st[m].pc # "none"
      BY <3>3 DEF Settled, Busy, Basics, Staged, StagedMessage
    <3>5. st[m].pc # "dropped"
      BY <3>3 DEF Lossless, NoneDropped
    <3>6. m.n <= me.version
      BY <3>3, <3>4, <3>5 DEF UserKept, Applied, Ended
    <3> QED BY <2>1, <3>3, <3>6
  <2> QED BY <2>2, <2>3
<1> QED BY <1>1, InitBasics, NextBasics, InitInOrder, NextInOrder, InitLossless, NextLossless,
           InitUserKept, NextUserKept, PTL DEF Spec

--------------------------------------------------------------------------------
(* Where the unread posts begin. *)

\* A mark is of posts the server has, and leaves one of them unread.
IsMark(k, last) == k # Unset => k + 1 \in 1..last

MarksAreBehind ==
    /\ \A v \in 1..Current : IsMark(reads[v], posted)
    /\ \A o \in Objects : IsMark(heap[o], posted)
    /\ \A c \in Computes : comp[c].pc = "posts" => IsMark(comp[c].from, posted)

\* A post that is not cached, though the cache is filled, is one whose message has yet to start.
CachedOrComes(n) ==
    \/ n \in posts
    \/ /\ Message("post", n) \in Published
       /\ st[Message("post", n)].pc \in {"none", "blocked", "ready"}

AllCachedOrCome == init = "yes" => \A n \in 1..posted : CachedOrComes(n)

LEMMA InitMarks == Init => MarksAreBehind /\ AllCachedOrCome
<1> SUFFICES ASSUME Init PROVE MarksAreBehind /\ AllCachedOrCome
  OBVIOUS
<1>1. Current = 1 /\ (reads[1] = Unset \/ (reads[1] = 0 /\ posted = 1))
  <2>1. reads = <<Unset>> \/ (reads = <<0>> /\ posted = 1)
    BY DEF Init
  <2> QED BY <2>1 DEF Current
<1>2. IsMark(reads[1], posted) /\ IsMark(Unset, posted)
  BY <1>1 DEF IsMark
<1>3. \A o \in Objects : heap[o] = IF o = 1 THEN reads[1] ELSE Unset
  BY DEF Init
<1>4. init # "yes" /\ \A c \in Computes : comp[c].pc # "posts"
  BY DEF Init, Idling
<1> QED BY <1>1, <1>2, <1>3, <1>4 DEF MarksAreBehind, AllCachedOrCome

\* Marks stay marks while the server adds posts, and nothing else makes new ones but what is
\* copied from another.
LEMMA MarksStay ==
    ASSUME Basics, MarksAreBehind, posted' \in Nat, posted <= posted',
           \A v \in 1..Current' : (v \in 1..Current /\ reads'[v] = reads[v]) \/ IsMark(reads'[v], posted'),
           \A o \in Objects : IsMark(heap'[o], posted') \/ heap'[o] = heap[o],
           \A c \in Computes : comp'[c].pc = "posts" =>
               IsMark(comp'[c].from, posted') \/ (comp[c].pc = "posts" /\ comp'[c].from = comp[c].from)
    PROVE  MarksAreBehind'
<1>1. posted \in Nat
  BY Numbers DEF Basics
<1>2. \A k : IsMark(k, posted) => IsMark(k, posted')
  BY <1>1 DEF IsMark
<1> QED BY <1>2 DEF MarksAreBehind

LEMMA CachedStay ==
    ASSUME Basics, AllCachedOrCome, posts \subseteq posts', UNCHANGED posted,
           init' = "yes" => init = "yes",
           \A i \in 1..Len(log) : i \in 1..Len(log') /\ log'[i] = log[i],
           DOMAIN log' = 1..Len(log'),
           \A m \in Messages : \/ st'[m] = st[m] \/ m.type # "post" \/ m.n \in posts'
                               \/ st[m].pc \notin {"none", "blocked", "ready"}
                               \/ st'[m].pc \in {"blocked", "ready"}
    PROVE  AllCachedOrCome'
<1> SUFFICES ASSUME init' = "yes", NEW n \in 1..posted PROVE CachedOrComes(n)'
  BY DEF AllCachedOrCome
<1>1. CachedOrComes(n)
  BY DEF AllCachedOrCome
<1>2. CASE n \in posts
  BY <1>2 DEF CachedOrComes
<1>3. CASE n \notin posts
  <2> DEFINE m == Message("post", n)
  <2>1. m \in Published /\ st[m].pc \in {"none", "blocked", "ready"}
    BY <1>1, <1>3 DEF CachedOrComes
  <2>2. m.type = "post" /\ m.n = n
    BY Kinds
  <2> HIDE DEF m
  <2>3. PICK i \in 1..Len(log) : log[i] = m
    BY <2>1, Numbers DEF Published, Basics
  <2>4. m \in Messages /\ m \in Published'
    BY <2>3, Places DEF Basics, Published
  <2>5. m.n \in posts' \/ st'[m].pc \in {"none", "blocked", "ready"}
    BY <2>1, <2>2, <2>4
  <2> QED BY <2>2, <2>4, <2>5 DEF CachedOrComes, m
<1> QED BY <1>2, <1>3

\* What the two need of a step that moves messages, or computations, only.
LEMMA AgentMarks ==
    ASSUME Basics, MarksAreBehind, AllCachedOrCome, UNCHANGED <<server, heap>>,
           posts \subseteq posts', init' = "yes" => init = "yes", NoneGoesForPosts,
           \A m \in Messages : \/ st'[m] = st[m] \/ m.type # "post" \/ m.n \in posts'
                               \/ st[m].pc \notin {"none", "blocked", "ready"}
                               \/ st'[m].pc \in {"blocked", "ready"}
    PROVE  MarksAreBehind' /\ AllCachedOrCome'
<1>1. posted \in Nat /\ DOMAIN log = 1..Len(log) /\ UNCHANGED <<reads, posted, log>>
  BY Numbers DEF Basics, server
<1>2. posted' \in Nat /\ posted <= posted' /\ Current' = Current
  BY <1>1 DEF Current
<1>3. \A c \in Computes : comp'[c].pc = "posts" => comp[c].pc = "posts" /\ comp'[c].from = comp[c].from
  BY DEF NoneGoesForPosts
<1>4. MarksAreBehind'
  BY <1>1, <1>2, <1>3, MarksStay
<1>5. AllCachedOrCome'
  BY <1>1, CachedStay
<1> QED BY <1>4, <1>5

\* A post is cached before its update begins.
LEMMA StoredIsCached ==
    ASSUME Basics, NEW m \in Arrived, ResolvePost(m) \/ StorePost(m), init' = "yes"
    PROVE  m.n \in posts' /\ posts \subseteq posts' /\ init = "yes"
<1>1. CASE ResolvePost(m) /\ m.n \in posts
  <2>1. posts' = posts /\ init' = init
    BY <1>1 DEF ResolvePost
  <2> QED BY <1>1, <2>1
<1>2. CASE ResolvePost(m) /\ m.n \notin posts
  BY <1>2 DEF ResolvePost
<1>3. CASE StorePost(m)
  BY <1>3 DEF StorePost
<1> QED BY <1>1, <1>2, <1>3

LEMMA PostMarks ==
    ASSUME Basics, MarksAreBehind, AllCachedOrCome, NEW m \in Arrived, ResolvePost(m) \/ StorePost(m)
    PROVE  MarksAreBehind' /\ AllCachedOrCome'
<1>1. /\ UNCHANGED <<server, heap, comp>>
      /\ \A o \in Messages \ {m} : st'[o] = st[o]
  BY OtherSteps DEF UpdateStep, ResolvePost, StorePost, counters
<1>2. posted \in Nat /\ DOMAIN log = 1..Len(log) /\ UNCHANGED <<reads, posted, log>> /\ Current' = Current
  BY <1>1, Numbers DEF Basics, server, Current
<1>3. MarksAreBehind'
  BY <1>1, <1>2, MarksStay
<1>4. CASE init' = "yes"
  <2>1. m.n \in posts' /\ posts \subseteq posts' /\ init = "yes"
    BY <1>4, StoredIsCached
  <2> QED BY <1>1, <1>2, <1>3, <2>1, CachedStay
<1>5. CASE init' # "yes"
  BY <1>3, <1>5 DEF AllCachedOrCome
<1> QED BY <1>4, <1>5

LEMMA CountMarks ==
    ASSUME Basics, MarksAreBehind, AllCachedOrCome, NEW m \in Arrived, Count(m)
    PROVE  MarksAreBehind' /\ AllCachedOrCome'
<1>1. /\ UNCHANGED <<server, comp, posts, init>> /\ st[m].pc = "counting"
      /\ heap' = heap \/ heap' = [heap EXCEPT ![lastReads] = IF heap[lastReads] = Unset THEN m.n - 1 ELSE heap[lastReads]]
  BY DEF Count, cached
<1>2. posted \in Nat /\ DOMAIN log = 1..Len(log) /\ UNCHANGED <<reads, posted, log>> /\ Current' = Current
  BY <1>1, Numbers DEF Basics, server, Current
<1>3. m.n \in 1..posted /\ m.n - 1 + 1 = m.n
  <2>1. m.type = "post" /\ m \in Messages
    BY <1>1, OfKind
  <2>2. PICK i \in 1..Len(log) : m = log[i]
    BY Places DEF Basics
  <2>3. m.n <= posted /\ m.n \in 1..MaxPosts
    BY <2>1, <2>2, Kinds DEF Basics, Logged
  <2> QED BY <1>2, <2>3, Bounds
<1>4. IsMark(m.n - 1, posted')
  BY <1>2, <1>3 DEF IsMark
<1>5. heap \in [Objects -> Unset..MaxPosts]
  BY Typed DEF Basics, Types, Others
<1>6. \A o \in Objects : IsMark(heap'[o], posted') \/ heap'[o] = heap[o]
  <2> SUFFICES ASSUME NEW o \in Objects, heap'[o] # heap[o] PROVE heap'[o] = m.n - 1
    BY <1>4
  <2> QED BY <1>1, <1>5
<1>7. MarksAreBehind'
  BY <1>1, <1>2, <1>6, MarksStay
<1>8. \A o \in Messages \ {m} : st'[o] = st[o]
  BY CountBasics
<1> QED BY <1>1, <1>2, <1>7, <1>8, CachedStay

LEMMA ApplyMarks ==
    ASSUME Basics, MarksAreBehind, AllCachedOrCome, NEW m \in Arrived, ApplyMe(m) \/ MeAnswer(m)
    PROVE  MarksAreBehind' /\ AllCachedOrCome'
<1>1. /\ UNCHANGED <<server, posts, init>>
  BY DEF ApplyMe, MeAnswer
<1>2. posted \in Nat /\ DOMAIN log = 1..Len(log) /\ UNCHANGED <<reads, posted, log>> /\ Current' = Current
  BY <1>1, Numbers DEF Basics, server, Current
<1>3. /\ m.type = "me" /\ NoneGoesForPosts
      /\ \A o \in Messages \ {m} : st'[o] = st[o]
  BY ApplyMeBasics, MeAnswerBasics DEF NoneGoesForPosts
<1>4. heap' = heap \/ \E o \in Objects, v \in 1..Current : heap' = [heap EXCEPT ![o] = reads[v]]
  <2>1. CASE ApplyMe(m)
    <3>1. m.n \in 2..Current
      BY <2>1, ApplyMeBasics
    <3>2. m.n \in 1..Current
      BY <3>1
    <3>3. me.object \in Objects
      BY Typed DEF Basics, Types, Others
    <3>4. heap' = heap \/ heap' = [heap EXCEPT ![me.object] = reads[m.n]]
      BY <2>1 DEF ApplyMe
    <3> QED BY <3>2, <3>3, <3>4
  <2>2. CASE MeAnswer(m)
    <3>1. st[m].seen \in m.n..Current /\ m.n \in 2..MaxMe
      BY <2>2, MeAnswerBasics, OfKind, Kinds
    <3>2. st[m].seen \in 1..Current /\ m.n \in Objects
      BY <3>1, Bounds, Numbers DEF Objects, Basics
    <3>3. heap' = [heap EXCEPT ![m.n] = reads[st[m].seen]]
      BY <2>2 DEF MeAnswer
    <3> QED BY <3>2, <3>3
  <2> QED BY <2>1, <2>2
<1>5. heap \in [Objects -> Unset..MaxPosts]
  BY Typed DEF Basics, Types, Others
<1>6. \A v \in 1..Current : IsMark(reads[v], posted')
  BY <1>2 DEF MarksAreBehind, IsMark
<1>7. \A o \in Objects : IsMark(heap'[o], posted') \/ heap'[o] = heap[o]
  <2> SUFFICES ASSUME NEW o \in Objects, heap'[o] # heap[o] PROVE \E v \in 1..Current : heap'[o] = reads[v]
    BY <1>6, <1>2
  <2> QED BY <1>4, <1>5
<1>8. \A c \in Computes : comp'[c].pc = "posts" => comp[c].pc = "posts" /\ comp'[c].from = comp[c].from
  BY <1>3 DEF NoneGoesForPosts
<1>9. MarksAreBehind'
  BY <1>2, <1>7, <1>8, MarksStay
<1> QED BY <1>1, <1>2, <1>3, <1>9, CachedStay

LEMMA ServerMarks ==
    ASSUME Basics, MarksAreBehind, AllCachedOrCome, ServerPosts \/ ServerMarksRead \/ ServerAddsStream
    PROVE  MarksAreBehind' /\ AllCachedOrCome'
<1>1. /\ UNCHANGED <<delivered, st, heap, comp, posts, init>>
      /\ \A i \in 1..Len(log) : log'[i] = log[i]
      /\ Len(log') \in Nat /\ Len(log) <= Len(log')
  BY ServerSteps DEF cached, counters
<1>2. Basics' /\ Arrived' = Arrived
  BY ServerPostsBasics, ServerMarksReadBasics, ServerAddsStreamBasics
<1>3. /\ DOMAIN log' = 1..Len(log') /\ posted \in Nat /\ posted' \in Nat
      /\ DOMAIN log = 1..Len(log) /\ Len(log) \in Nat /\ Current \in Nat /\ 1 <= Current
  <2>1. log' \in Seq(Messages) /\ posted' \in 0..MaxPosts
    BY <1>2, Typed DEF Basics, Types
  <2> QED BY <2>1, Bounds, Numbers DEF Basics
<1>4. \A i \in 1..Len(log) : i \in 1..Len(log') /\ log'[i] = log[i]
  BY <1>1, <1>3
<1>5. reads \in Seq(Unset..MaxPosts)
  BY Typed DEF Basics, Types
<1>6. \A v \in 1..Current' : (v \in 1..Current /\ reads'[v] = reads[v]) \/ IsMark(reads'[v], posted')
  <2>1. CASE ServerPosts /\ reads[Current] = Unset
    <3>1. reads' = Append(reads, posted) /\ posted' = posted + 1
      BY <2>1 DEF ServerPosts
    <3>2. IsMark(posted, posted')
      BY <1>3, <3>1 DEF IsMark
    <3>3. Current' = Current + 1 /\ \A v \in 1..Current' : (v \in 1..Current /\ reads'[v] = reads[v]) \/ reads'[v] = posted
      BY <1>5, <3>1 DEF Current
    <3> QED BY <3>2, <3>3
  <2>2. CASE ServerMarksRead
    <3>1. reads' = Append(reads, Unset)
      BY <2>2 DEF ServerMarksRead
    <3>2. IsMark(Unset, posted')
      BY DEF IsMark
    <3>3. \A v \in 1..Current' : (v \in 1..Current /\ reads'[v] = reads[v]) \/ reads'[v] = Unset
      BY <1>5, <3>1 DEF Current
    <3> QED BY <3>2, <3>3
  <2>3. CASE reads' = reads
    BY <2>3 DEF Current
  <2> QED BY <2>1, <2>2, <2>3 DEF ServerPosts, ServerAddsStream
<1>7. CASE ServerPosts
  <2>1. posted' = posted + 1 /\ posted < MaxPosts
    BY <1>7 DEF ServerPosts
  <2>2. MarksAreBehind'
    BY <1>1, <1>3, <1>6, <2>1, MarksStay
  <2>3. ASSUME init' = "yes", NEW n \in 1..posted' PROVE CachedOrComes(n)'
    <3>1. CASE n \in 1..posted
      <4>1. CachedOrComes(n)
        BY <1>1, <2>3, <3>1 DEF AllCachedOrCome
      <4>2. Published \subseteq Published'
        BY <1>3, <1>4 DEF Published
      <4> QED BY <1>1, <4>1, <4>2 DEF CachedOrComes
    <3>2. CASE n \notin 1..posted
      <4> DEFINE m == Message("post", n)
      <4>1. n = posted + 1 /\ n \in 1..MaxPosts
        BY <1>3, <2>1, <3>2, Bounds
      <4>2. m \in Messages /\ m.type = "post" /\ m.n = n
        BY <4>1, Kinds
      <4>3. m \in Published'
        <5>1. \E news \in Seq(Messages) : Publish(news) /\ Len(news) \in Nat \ {0} /\ news[1] = m
          <6>1. CASE reads[Current] # Unset
            <7>1. Publish(<<m>>)
              BY <1>7, <2>1, <4>1, <6>1 DEF ServerPosts
            <7> DEFINE news == <<m>>
            <7>2. news \in Seq(Messages) /\ Len(news) = 1 /\ news[1] = m /\ Publish(news)
              BY <4>2, <7>1
            <7> HIDE DEF news, m
            <7> QED BY <7>2
          <6>2. CASE reads[Current] = Unset
            <7> DEFINE mine == Message("me", Current + 1)
            <7>1. Publish(<<m, mine>>) /\ Current < MaxMe
              BY <1>7, <2>1, <4>1, <6>2 DEF ServerPosts
            <7>2. mine \in Messages
              BY <1>3, <7>1, Kinds, Bounds
            <7> DEFINE news == <<m, mine>>
            <7>3. news \in Seq(Messages) /\ Len(news) = 2 /\ news[1] = m /\ Publish(news)
              BY <4>2, <7>1, <7>2 DEF mine
            <7> HIDE DEF news, m
            <7> QED BY <7>3
          <6> QED BY <6>1, <6>2
        <5>2. PICK news \in Seq(Messages) : Publish(news) /\ Len(news) \in Nat \ {0} /\ news[1] = m
          BY <5>1
        <5> HIDE DEF m
        <5>3. 1 \in 1..Len(news)
          BY <5>2
        <5>4. Len(log') = Len(log) + Len(news) /\ log'[Len(log) + 1] = m
          BY <5>2, <5>3, Appended DEF Basics
        <5>5. Len(log) + 1 \in 1..Len(log')
          BY <1>3, <5>2, <5>4
        <5> QED BY <1>3, <5>4, <5>5 DEF Published
      <4>4. m \notin Arrived
        <5>1. \A i \in 1..Len(log) : log[i].type = "post" => log[i].n <= posted
          BY DEF Basics, Logged
        <5> HIDE DEF m
        <5>2. ASSUME m \in Arrived PROVE FALSE
          <6>1. PICK i \in 1..Len(log) : log[i] = m
            BY <5>2, Places DEF Basics
          <6>2. n <= posted
            BY <4>2, <5>1, <6>1
          <6> QED BY <1>3, <4>1, <6>2
        <5> QED BY <5>2
      <4>5. st'[m].pc = "none"
        BY <1>1, <4>2, <4>4 DEF Basics, Staged, StagedMessage
      <4> QED BY <4>3, <4>5 DEF CachedOrComes
    <3> QED BY <3>1, <3>2
  <2> QED BY <2>2, <2>3 DEF AllCachedOrCome
<1>8. CASE posted' = posted
  <2>1. posted <= posted'
    BY <1>3, <1>8
  <2>2. MarksAreBehind'
    BY <1>1, <1>3, <1>6, <2>1, MarksStay
  <2> QED BY <1>1, <1>3, <1>4, <1>8, <2>2, CachedStay
<1> QED BY <1>7, <1>8 DEF ServerMarksRead, ServerAddsStream

LEMMA NextMarks == Basics /\ MarksAreBehind /\ AllCachedOrCome /\ [Next]_vars => MarksAreBehind' /\ AllCachedOrCome'
<1> SUFFICES ASSUME Basics, MarksAreBehind, AllCachedOrCome, [Next]_vars
             PROVE  MarksAreBehind' /\ AllCachedOrCome'
  OBVIOUS
<1>1. CASE UNCHANGED vars
  BY <1>1, AgentMarks DEF vars, server, cached, counters, NoneGoesForPosts
<1>2. CASE ServerPosts \/ ServerMarksRead \/ ServerAddsStream
  BY <1>2, ServerMarks
<1>3. CASE Deliver
  <2>1. \A o \in Messages : st'[o] = st[o] \/ st'[o].pc \in {"ready", "blocked"}
    BY <1>3, DeliverGives
  <2>2. UNCHANGED <<server, heap, comp, posts, init>>
    BY <1>3 DEF Deliver, cached, counters
  <2> QED BY <2>1, <2>2, AgentMarks DEF NoneGoesForPosts
<1>4. CASE InitAnswer
  <2>1. UNCHANGED <<server, st, heap, comp>>
    BY <1>4 DEF InitAnswer, counters
  <2>2. MarksAreBehind'
    BY <2>1 DEF server, MarksAreBehind, Current
  <2>3. init' = "yes" => posts' = posts \cup (1..posted)
    BY <1>4 DEF InitAnswer, CachePosts
  <2>4. posted' = posted
    BY <2>1 DEF server
  <2>5. AllCachedOrCome'
    BY <2>3, <2>4 DEF AllCachedOrCome, CachedOrComes
  <2> QED BY <2>2, <2>5
<1>5. ASSUME NEW m \in Arrived, MessageStep(m) PROVE MarksAreBehind' /\ AllCachedOrCome'
  <2>1. CASE Release(m)
    <3>1. UNCHANGED <<server, heap, comp, posts, init>>
      BY <2>1 DEF Release, cached, counters
    <3>2. \A o \in Messages : st'[o] = st[o] \/ st'[o].pc = "ready"
      BY <2>1, ReleaseBasics
    <3> QED BY <3>1, <3>2, AgentMarks DEF NoneGoesForPosts
  <2>2. CASE ResolveStream(m) \/ StreamAnswer(m)
    <3>1. m.type = "stream" /\ UNCHANGED <<server, heap, comp, posts, init>>
      BY <2>2 DEF ResolveStream, StreamAnswer, counters
    <3>2. \A o \in Messages \ {m} : st'[o] = st[o]
      BY <2>2, ResolveStreamBasics, StreamAnswerBasics
    <3> QED BY <3>1, <3>2, AgentMarks DEF NoneGoesForPosts
  <2>3. CASE Resume(m) \/ UpdateFails(m) \/ MeFetchFails(m)
    <3>1. UNCHANGED <<server, heap, comp, posts, init>>
      BY <2>3 DEF Resume, UpdateFails, MeFetchFails, cached, counters
    <3>2. st[m].pc \in {"waiting", "counting", "fetching"} /\ \A o \in Messages \ {m} : st'[o] = st[o]
      BY <2>3, OtherSteps DEF UpdateStep, Resume, UpdateFails, MeFetchFails
    <3> QED BY <3>1, <3>2, AgentMarks DEF NoneGoesForPosts
  <2>4. CASE ResolvePost(m) \/ StorePost(m)
    BY <2>4, PostMarks
  <2>5. CASE Count(m)
    BY <2>5, CountMarks
  <2>6. CASE GetLastReads(m) \/ GetLastReadItems(m) \/ ServerAnswersMe(m) \/ ReadMe(m)
    <3>1. UNCHANGED <<server, heap, comp, posts, init>>
      BY <2>6 DEF GetLastReads, GetLastReadItems, ServerAnswersMe, ReadMe, cached, counters
    <3>2. m.type = "me" /\ \A o \in Messages \ {m} : st'[o] = st[o]
      BY <2>6, GetBasics, ServerAnswersMeBasics, ReadMeBasics
    <3> QED BY <3>1, <3>2, AgentMarks DEF NoneGoesForPosts
  <2>7. CASE ApplyMe(m) \/ MeAnswer(m)
    BY <2>7, ApplyMarks
  <2> QED BY <1>5, <2>1, <2>2, <2>3, <2>4, <2>5, <2>6, <2>7 DEF MessageStep
<1>6. ASSUME NEW c \in Computes, ComputeStep(c) PROVE MarksAreBehind' /\ AllCachedOrCome'
  <2>1. UNCHANGED <<server, st, heap>>
    BY <1>6, ComputeSteps DEF server
  <2>2. posts \subseteq posts' /\ (init' = "yes" => init = "yes")
    <3>1. CASE PageAnswer(c)
      BY <3>1, PageAnswerBasics
    <3>2. CASE ~PageAnswer(c)
      BY <1>6, <3>2 DEF ComputeStep, ComputeResumes, ServerAnswersUnread, UnreadAnswer, PostsRead,
                        ComputeFinish, ComputeFails, cached
    <3> QED BY <3>1, <3>2
  <2>3. CASE UnreadAnswer(c)
    <3>1. /\ \A d \in Computes \ {c} : comp'[d] = comp[d]
          /\ comp'[c].pc = "posts" => comp'[c].from = heap[comp[c].object]
      BY <2>3, UnreadAnswerBasics
    <3>2. comp[c].object \in Objects
      BY Typed DEF Basics, Types, Others, Computing
    <3>3. comp'[c].pc = "posts" => IsMark(comp'[c].from, posted)
      BY <3>1, <3>2 DEF MarksAreBehind
    <3>4. \A d \in Computes : comp'[d].pc = "posts" => IsMark(comp'[d].from, posted)
      BY <3>1, <3>3 DEF MarksAreBehind
    <3>5. MarksAreBehind'
      BY <2>1, <3>4 DEF MarksAreBehind, server, Current
    <3>6. DOMAIN log = 1..Len(log) /\ UNCHANGED <<posted, log>>
      BY <2>1, Numbers DEF Basics, server
    <3>7. AllCachedOrCome'
      BY <2>1, <2>2, <3>6, CachedStay
    <3> QED BY <3>5, <3>7
  <2>4. CASE ~UnreadAnswer(c)
    <3>1. NoneGoesForPosts
      BY <1>6, <2>4, ComputeResumesBasics, ServerAnswersUnreadBasics, PostsReadBasics,
         PageAnswerBasics, ComputeFinishBasics, ComputeFailsBasics DEF ComputeStep
    <3> QED BY <2>1, <2>2, <3>1, AgentMarks
  <2> QED BY <2>3, <2>4
<1> QED BY <1>1, <1>2, <1>3, <1>4, <1>5, <1>6 DEF Next

\* When a computation goes for the posts, the first unread one is there, or its message has
\* yet to start: it is counted by the one or by the other.
THEOREM FirstUnreadIsCachedOrComes == Spec => []FirstIsCachedOrComes
<1>1. Basics /\ MarksAreBehind /\ AllCachedOrCome => FirstIsCachedOrComes
  <2> SUFFICES ASSUME Basics, MarksAreBehind, AllCachedOrCome, init = "yes",
                      NEW c \in Computes, comp[c].pc = "posts"
               PROVE  CachedOrComes(FirstUnread(comp[c].from))
    BY DEF FirstIsCachedOrComes, CachedOrComes
  <2>1. comp[c].from # Unset
    BY DEF Basics, Staged, StagedComputation
  <2>2. comp[c].from + 1 \in 1..posted
    BY <2>1 DEF MarksAreBehind, IsMark
  <2> QED BY <2>2 DEF AllCachedOrCome, FirstUnread
<1> QED BY <1>1, InitBasics, NextBasics, InitMarks, NextMarks, PTL DEF Spec

================================================================================
