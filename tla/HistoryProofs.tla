----------------------------- MODULE HistoryProofs -----------------------------
(***************************************************************************)
(* Proofs about History, for every set of channels, whatever they hold and *)
(* whatever is published meanwhile, and for all sizes of slices, batches   *)
(* and pages: what becomes of a channel while pages are under way (Paged)  *)
(* holds of the channels one by one.                                       *)
(*                                                                         *)
(* They rest on what a request for the newest messages returns, and on how *)
(* far the rounding of timetokens can be off.                              *)
(***************************************************************************)
EXTENDS History, FiniteSetTheorems, WellFoundedInduction, TLAPS

Tokenlike == Nat \ {0}

\* The service has finitely many messages of a channel, at their distance; what is owed and what
\* was fetched are among them.
Service ==
    \A c \in Channels :
        /\ IsFiniteSet(stored[c])
        /\ \A t, u \in stored[c] : t < u => t + Spacing <= u
        /\ owed[c] \subseteq stored[c] /\ messages[c] \subseteq stored[c]
        /\ \A t \in owed[c] : t >= Since

\* As long as the fetch is under way it is in the first slice: the second one is always empty.
Stage ==
    /\ phase # "done" => startSlice = 0 /\ outcome = "none"
    /\ phase = "batch" => \A c \in Channels : messages[c] = {}

\* A page under way begins where the messages fetched so far do, or one after the first of them;
\* and these are the batch and the pages, each of which has one in common with the one before at most.
Paged(c) ==
    phase = "pages" /\ before[c] > 0 =>
        /\ \A u \in messages[c] : before[c] <= u + 1
        /\ Cardinality(messages[c]) >= BatchSize + depth[c] * (PageSize - 1)

IInv == TypeOK /\ Service /\ Stage /\ (\A c \in Channels : Paged(c)) /\ ResetOnlyIfTooMany

\* What is owed to a channel of the first slice has been fetched, or comes with the next pages.
Fetched ==
    ClockIsRight => \A c \in Slice(0) :
        /\ phase = "pages" => \A t \in owed[c] : t \in messages[c] \/ t < before[c]
        /\ outcome = "messages" => owed[c] \subseteq messages[c]

\* The channels beyond the first slice are not fetched.
NoneBeyondFirstSlice == \A c \in Channels \ Slice(0) : messages[c] = {}

Beyond == NoneBeyondFirstSlice /\ \A c \in Channels \ Slice(0) : phase = "pages" => before[c] = 0

--------------------------------------------------------------------------------
(* Rounding, and the newest messages. *)

\* Reading a timetoken is off by one at most, and never less than none.
LEMMA RoundedNear ==
    ASSUME NEW t \in Nat
    PROVE  /\ Rounded(t) \in Nat
           /\ t - 1 <= Rounded(t) /\ Rounded(t) <= t + 1
           /\ t % 2 = 0 => Rounded(t) = t
           /\ Rounded(t) % 2 = 0
BY DEF Rounded

\* A set of natural numbers that is not empty has a first one, and Min is it.
LEMMA MinIsFirst ==
    ASSUME NEW S \in SUBSET Nat, S # {}
    PROVE  Min(S) \in S /\ \A t \in S : Min(S) <= t
<1>1. \E x \in S : \A y \in S : ~(<<y, x>> \in OpToRel(<, Nat))
  BY WFMin, NatLessThanWellFounded
<1>2. PICK x \in S : \A y \in S : ~(y < x)
  BY <1>1 DEF OpToRel
<1>3. \A y \in S : x <= y
  BY <1>2
<1> QED
  BY <1>3 DEF Min

\* Where the pages after a batch begin: at most two before its earliest message, and at most one
\* after it.
LEMMA BeforeBatchNear ==
    ASSUME NEW S \in SUBSET Tokenlike, S # {}
    PROVE  /\ BeforeBatch(S) \in Nat
           /\ Min(S) - 2 <= BeforeBatch(S) /\ BeforeBatch(S) <= Min(S) + 1
<1> DEFINE m == Min(S)
<1>1. m \in Nat /\ m > 0
  <2>1. S \in SUBSET Nat
    BY DEF Tokenlike
  <2>2. m \in S
    BY <2>1, MinIsFirst
  <2> HIDE DEF m
  <2>3. m \in Tokenlike
    BY <2>2
  <2> QED
    BY <2>3 DEF Tokenlike
<1> HIDE DEF m
<1>2. Rounded(m) \in Nat /\ m - 1 <= Rounded(m) /\ Rounded(m) <= m + 1
  BY <1>1, RoundedNear
<1>3. Rounded(Rounded(m) - 1) \in Nat /\ m - 2 <= Rounded(Rounded(m) - 1) /\ Rounded(Rounded(m) - 1) <= m + 1
  BY <1>1 DEF Rounded
<1> QED
  BY <1>3 DEF BeforeBatch, m

\* The newest n messages of S are no more than n, and no others; if one is left out they are n,
\* all of them newer than it.
LEMMA NewestOnes ==
    ASSUME NEW S \in SUBSET Nat, IsFiniteSet(S), NEW n \in Nat \ {0}
    PROVE  /\ Newest(n, S) \subseteq S /\ IsFiniteSet(Newest(n, S)) /\ Cardinality(Newest(n, S)) <= n
           /\ \A t \in S \ Newest(n, S) :
                Cardinality(Newest(n, S)) = n /\ \A u \in Newest(n, S) : t < u
<1> DEFINE N == Newest(n, S)
           Above(t) == {u \in S : u > t}
<1>1. N \subseteq S /\ IsFiniteSet(N) /\ Cardinality(N) \in Nat
  BY FS_Subset, FS_CardinalityType DEF Newest
<1>2. \A t \in S : IsFiniteSet(Above(t)) /\ Cardinality(Above(t)) \in Nat
  <2> TAKE t \in S
  <2>1. Above(t) \in SUBSET S
    OBVIOUS
  <2> QED
    BY <2>1, FS_Subset, FS_CardinalityType
<1>3. \A t \in S : t \in N <=> Cardinality(Above(t)) < n
  BY DEF Newest
<1> HIDE DEF N
<1>4. \A t, u \in S : t <= u => Above(u) \subseteq Above(t)
  <2>1. \A t, u, v \in S : t <= u /\ v > u => v > t
    OBVIOUS
  <2> QED
    BY <2>1
<1>5. \A t, u \in S : t <= u => Cardinality(Above(u)) <= Cardinality(Above(t))
  BY <1>2, <1>4, FS_Subset
<1>6. \A t \in S \ N : \A u \in N : t < u
  <2> TAKE t \in S \ N
  <2> TAKE u \in N
  <2>1. u \in S /\ t \in Nat /\ u \in Nat
    BY <1>1
  <2>2. CASE u <= t
    <3>1. Cardinality(Above(t)) <= Cardinality(Above(u))
      BY <2>1, <2>2, <1>5
    <3> QED
      BY <3>1, <2>1, <1>2, <1>3
  <2> QED
    BY <2>1, <2>2
<1>7. Cardinality(N) <= n
  <2>1. CASE N = {}
    BY <2>1, FS_EmptySet
  <2>2. CASE N # {}
    <3>1. Min(N) \in N /\ \A t \in N : Min(N) <= t
      BY <1>1, <2>2, MinIsFirst
    <3>2. N \ {Min(N)} \subseteq Above(Min(N))
      <4>1. \A t, u \in S : t <= u /\ u # t => u > t
        OBVIOUS
      <4> QED
        BY <3>1, <4>1, <1>1
    <3>3. Cardinality(N \ {Min(N)}) <= Cardinality(Above(Min(N)))
      BY <3>1, <3>2, <1>1, <1>2, FS_Subset
    <3>4. Cardinality(N \ {Min(N)}) = Cardinality(N) - 1
      BY <3>1, <1>1, FS_RemoveElement
    <3>5. Cardinality(Above(Min(N))) < n /\ Cardinality(Above(Min(N))) \in Nat
      BY <3>1, <1>1, <1>2, <1>3
    <3> QED
      BY <3>3, <3>4, <3>5, <1>1
  <2> QED
    BY <2>1, <2>2
<1>8. ASSUME NEW t \in S \ N PROVE Cardinality(N) >= n
  <2> DEFINE Ranks == {Cardinality(Above(u)) : u \in S \ N}
  <2>1. Min(Ranks) \in Ranks /\ \A k \in Ranks : Min(Ranks) <= k
    <3>1. Ranks \in SUBSET Nat /\ Ranks # {}
      BY <1>2
    <3> HIDE DEF Ranks
    <3> QED
      BY <3>1, MinIsFirst
  <2>2. PICK u \in S \ N : Cardinality(Above(u)) = Min(Ranks)
    BY <2>1
  <2>3. \A v \in S \ N : Cardinality(Above(u)) <= Cardinality(Above(v))
    BY <2>1, <2>2
  <2>4. Above(u) \subseteq N
    <3> SUFFICES ASSUME NEW v \in S \ N, v > u PROVE FALSE
      BY <1>1
    <3>1. Above(v) \subseteq Above(u) /\ v \in Above(u) /\ v \notin Above(v)
      <4>1. v \in Nat /\ u \in Nat /\ u <= v /\ ~(v > v)
        OBVIOUS
      <4> QED
        BY <4>1, <1>4
    <3>2. Cardinality(Above(v)) = Cardinality(Above(u))
      BY <1>2, <2>3, <3>1, FS_Subset
    <3>3. Above(u) = Above(v)
      BY <1>2, <3>1, <3>2, FS_Subset
    <3> QED
      BY <3>1, <3>3
  <2>5. Cardinality(Above(u)) <= Cardinality(N)
    BY <1>1, <2>4, FS_Subset
  <2>6. Cardinality(Above(u)) >= n
    BY <1>2, <1>3
  <2> QED
    BY <1>1, <1>2, <2>5, <2>6
<1> QED
  BY <1>1, <1>6, <1>7, <1>8 DEF N

--------------------------------------------------------------------------------
(* Channels, slices and tokens. *)

\* Tokens are numbers above 0, whatever the channels hold and whenever it is published.
LEMMA TokensAreNumbers == Tokens \subseteq Tokenlike
BY HistoryAssumption DEF Tokens, Tokenlike

\* The first slice has channels, all of them if they are few enough; there is no second slice.
LEMMA Slices ==
    /\ Slice(0) \subseteq Channels
    /\ Len(ChannelList) <= SliceSize => Slice(0) = Channels
    /\ Slice(SliceSize) = {}
<1>1. Len(ChannelList) \in Nat /\ DOMAIN ChannelList = 1..Len(ChannelList) /\ SliceSize \in Nat
  BY HistoryAssumption
<1>2. (SliceSize + 1)..(IF SliceSize < Len(ChannelList) THEN SliceSize ELSE Len(ChannelList)) = {}
  BY <1>1
<1>3. (0 + 1)..(IF SliceSize < Len(ChannelList) THEN SliceSize ELSE Len(ChannelList)) \subseteq DOMAIN ChannelList
  BY <1>1
<1>4. Len(ChannelList) <= SliceSize =>
        (0 + 1)..(IF SliceSize < Len(ChannelList) THEN SliceSize ELSE Len(ChannelList)) = DOMAIN ChannelList
  <2>1. Len(ChannelList) <= SliceSize => ~(SliceSize < Len(ChannelList))
    BY <1>1
  <2> QED
    BY <1>1, <2>1
<1> QED
  BY <1>2, <1>3, <1>4 DEF Slice, Channels

\* After the answers of the first slice pages are under way, or the fetch is over.
LEMMA AwaitEnds ==
    ASSUME startSlice = 0, NEW pages \in [Channels -> Nat], Await(pages)
    PROVE  /\ before' = pages
           /\ \/ phase' = "pages" /\ UNCHANGED <<startSlice, outcome>>
              \/ /\ phase' = "done" /\ outcome' = "messages" /\ startSlice' \in Nat
                 /\ \A c \in Channels : pages[c] = 0
<1>1. startSlice + SliceSize = SliceSize /\ SliceSize \in Nat
  BY HistoryAssumption
<1>2. Slice(NextSlice) = {} /\ NextSlice \in Nat
  BY <1>1, Slices DEF NextSlice
<1> QED
  BY <1>2 DEF Await

\* A request for the newest messages from Since on gets messages the service has; if it does not get
\* one of them, it gets as many as it asked for, and the first of them is later by Spacing.
LEMMA AnswerIsNewest ==
    ASSUME IInv, NEW c \in Channels, NEW S \in SUBSET stored[c], NEW n \in Nat \ {0}
    PROVE  /\ Newest(n, S) \subseteq S /\ IsFiniteSet(Newest(n, S)) /\ Newest(n, S) \in SUBSET Tokens
           /\ Newest(n, S) \in SUBSET Tokenlike
           /\ Cardinality(Newest(n, S)) <= n /\ Cardinality(Newest(n, S)) \in Nat
           /\ \A t \in S \ Newest(n, S) :
                /\ Cardinality(Newest(n, S)) = n /\ Newest(n, S) # {}
                /\ t + Spacing <= Min(Newest(n, S))
<1> DEFINE N == Newest(n, S)
<1>1. S \in SUBSET Nat /\ S \in SUBSET Tokens /\ IsFiniteSet(S)
  BY TokensAreNumbers, FS_Subset DEF IInv, TypeOK, Service, Tokenlike
<1>2. /\ N \subseteq S /\ IsFiniteSet(N) /\ Cardinality(N) <= n
      /\ \A t \in S \ N : Cardinality(N) = n /\ \A u \in N : t < u
  BY <1>1, NewestOnes
<1> HIDE DEF N
<1>3. ASSUME NEW t \in S \ N PROVE N # {} /\ t + Spacing <= Min(N)
  <2>1. N # {}
    BY <1>2, FS_EmptySet
  <2>2. Min(N) \in N /\ t < Min(N)
    BY <1>1, <1>2, <2>1, MinIsFirst
  <2> QED
    BY <1>2, <2>1, <2>2 DEF IInv, Service
<1>4. Cardinality(N) \in Nat
  BY <1>2, FS_CardinalityType
<1> QED
  BY <1>1, <1>2, <1>3, <1>4, TokensAreNumbers DEF N

--------------------------------------------------------------------------------
(* The invariant. *)

\* No channel has been asked for yet.
LEMMA InitKeeps == Init => IInv
<1> SUFFICES ASSUME Init PROVE IInv
  OBVIOUS
<1>1. stored \in [Channels -> SUBSET Tokens] /\ owed \in [Channels -> SUBSET Tokens]
  BY DEF Init, Tokens
<1>2. Service
  BY HistoryAssumption DEF Init, Service
<1>3. 0 \in 0..(MaxPages - 1)
  BY HistoryAssumption
<1>4. TypeOK
  BY <1>1, <1>3 DEF Init, TypeOK
<1> QED
  BY <1>2, <1>4 DEF Init, IInv, Stage, Paged, ResetOnlyIfTooMany

\* A batch is answered.
LEMMA BatchKeeps ==
    ASSUME IInv, BatchAnswers
    PROVE  IInv'
<1> DEFINE slice == Slice(startSlice)
           pages == [c \in Channels |-> IF c \in slice /\ HasMore(Batch(c)) THEN BeforeBatch(Batch(c)) ELSE 0]
<1>1. /\ phase = "batch" /\ startSlice = 0 /\ outcome = "none" /\ \A c \in Channels : messages[c] = {}
      /\ UNCHANGED <<stored, owed, clock>> /\ depth' = [c \in Channels |-> 0] /\ Await(pages)
  BY DEF BatchAnswers, IInv, Stage
<1>2. BatchSize \in Nat \ {0} /\ PageSize \in Nat \ {0} /\ 0 \in 0..(MaxPages - 1)
  BY HistoryAssumption
<1>3. ASSUME NEW c \in Channels
      PROVE  /\ Batch(c) \subseteq stored[c] /\ Batch(c) \in SUBSET Tokens /\ Batch(c) \in SUBSET Tokenlike
             /\ Cardinality(Batch(c)) \in Nat
  <2> DEFINE S == {t \in stored[c] : t >= Since}
  <2>1. S \in SUBSET stored[c] /\ Batch(c) = Newest(BatchSize, S)
    BY DEF Batch
  <2> HIDE DEF S
  <2>2. /\ Newest(BatchSize, S) \subseteq S /\ Newest(BatchSize, S) \in SUBSET Tokens
        /\ Newest(BatchSize, S) \in SUBSET Tokenlike /\ Cardinality(Newest(BatchSize, S)) \in Nat
    BY <1>2, <2>1, AnswerIsNewest
  <2> QED
    BY <2>1, <2>2
<1>4. ASSUME NEW c \in Channels, HasMore(Batch(c))
      PROVE  BeforeBatch(Batch(c)) \in Nat /\ \A u \in Batch(c) : BeforeBatch(Batch(c)) <= u + 1
  <2>1. Batch(c) # {} /\ Batch(c) \in SUBSET Tokenlike /\ Batch(c) \in SUBSET Nat
    BY <1>2, <1>3, <1>4, FS_EmptySet DEF HasMore, Tokenlike
  <2>2. \A u \in Batch(c) : Min(Batch(c)) <= u /\ u \in Nat
    BY <2>1, MinIsFirst
  <2>3. Min(Batch(c)) \in Nat
    BY <2>1, MinIsFirst
  <2> QED
    BY <2>1, <2>2, <2>3, BeforeBatchNear
<1>5. pages \in [Channels -> Nat]
  BY <1>4
<1>6. \A c \in Channels : messages'[c] = IF c \in slice THEN Batch(c) ELSE {}
  BY <1>1 DEF BatchAnswers
<1>7. messages' \in [Channels -> SUBSET Tokens]
  BY <1>3 DEF BatchAnswers, IInv, TypeOK
<1>8. /\ before' = pages
      /\ \/ phase' = "pages" /\ UNCHANGED <<startSlice, outcome>>
         \/ phase' = "done" /\ outcome' = "messages" /\ startSlice' \in Nat
  <2> HIDE DEF pages
  <2> QED
    BY <1>1, <1>5, AwaitEnds
<1>9. TypeOK'
  <2> HIDE DEF pages
  <2> QED
    BY <1>1, <1>2, <1>5, <1>7, <1>8 DEF IInv, TypeOK
<1>10. Service'
  BY <1>1, <1>3, <1>6 DEF IInv, Service
<1>11. ASSUME NEW c \in Channels PROVE Paged(c)'
  <2> SUFFICES ASSUME before'[c] > 0
               PROVE  /\ \A u \in messages'[c] : before'[c] <= u + 1
                      /\ Cardinality(messages'[c]) >= BatchSize + depth'[c] * (PageSize - 1)
    BY DEF Paged
  <2>1. c \in slice /\ HasMore(Batch(c)) /\ before'[c] = BeforeBatch(Batch(c))
    BY <1>8
  <2>2. messages'[c] = Batch(c) /\ depth'[c] = 0
    BY <1>1, <1>6, <2>1
  <2>3. BatchSize + 0 * (PageSize - 1) = BatchSize
    BY <1>2
  <2>4. Cardinality(Batch(c)) = BatchSize
    BY <2>1 DEF HasMore
  <2> QED
    BY <1>2, <1>4, <2>1, <2>2, <2>3, <2>4
<1> QED
  BY <1>1, <1>8, <1>9, <1>10, <1>11 DEF IInv, Stage, ResetOnlyIfTooMany

\* A page is answered: it is made of messages the service has, from before where it begins.
LEMMA PageType ==
    ASSUME IInv, NEW c \in Channels
    PROVE  /\ Page(c, before[c]) \subseteq {t \in stored[c] : t >= Since /\ t < before[c]}
           /\ Page(c, before[c]) \in SUBSET Tokens /\ Page(c, before[c]) \in SUBSET Tokenlike
           /\ IsFiniteSet(Page(c, before[c]))
           /\ Cardinality(Page(c, before[c])) \in Nat /\ Cardinality(Page(c, before[c])) <= PageSize
           /\ \A t \in stored[c] : t >= Since /\ t < before[c] /\ t \notin Page(c, before[c]) =>
                /\ Cardinality(Page(c, before[c])) = PageSize
                /\ t + Spacing <= Min(Page(c, before[c]))
<1> DEFINE S == {t \in stored[c] : t >= Since /\ t < before[c]}
<1>1. S \in SUBSET stored[c] /\ Page(c, before[c]) = Newest(PageSize, S)
  BY DEF Page
<1>2. \A t \in stored[c] : t >= Since /\ t < before[c] => t \in S
  OBVIOUS
<1>3. PageSize \in Nat \ {0}
  BY HistoryAssumption
<1> HIDE DEF S
<1>4. /\ Newest(PageSize, S) \subseteq S /\ IsFiniteSet(Newest(PageSize, S))
      /\ Newest(PageSize, S) \in SUBSET Tokens /\ Newest(PageSize, S) \in SUBSET Tokenlike
      /\ Cardinality(Newest(PageSize, S)) \in Nat /\ Cardinality(Newest(PageSize, S)) <= PageSize
      /\ \A t \in S \ Newest(PageSize, S) :
            /\ Cardinality(Newest(PageSize, S)) = PageSize
            /\ t + Spacing <= Min(Newest(PageSize, S))
  BY <1>1, <1>3, AnswerIsNewest
<1> QED
  BY <1>1, <1>2, <1>4 DEF S

\* A full page adds at least all but one of its messages: no more than one was there before.
LEMMA FullPageAdds ==
    ASSUME IInv, NEW c \in Channels, phase = "pages", before[c] > 0,
           Cardinality(Page(c, before[c])) >= PageSize
    PROVE  /\ Page(c, before[c]) # {} /\ Min(Page(c, before[c])) \in Page(c, before[c])
           /\ Rounded(Min(Page(c, before[c]))) \in Nat
           /\ \A u \in messages[c] \cup Page(c, before[c]) : Rounded(Min(Page(c, before[c]))) <= u + 1
           /\ Cardinality(messages[c] \cup Page(c, before[c])) >= BatchSize + (depth[c] + 1) * (PageSize - 1)
<1> DEFINE P == Page(c, before[c])
           M == messages[c]
<1>1. P \in SUBSET Nat /\ IsFiniteSet(P) /\ Cardinality(P) \in Nat /\ \A t \in P : t < before[c]
  BY PageType DEF Tokenlike
<1>2. PageSize \in Nat \ {0} /\ BatchSize \in Nat \ {0}
  BY HistoryAssumption
<1>3. before[c] \in Nat /\ depth[c] \in Nat /\ M \in SUBSET Nat
  <2>1. before \in [Channels -> Nat] /\ depth \in [Channels -> 0..(MaxPages - 1)] /\ M \in SUBSET Tokens
    BY DEF IInv, TypeOK
  <2>2. MaxPages \in Nat
    BY HistoryAssumption
  <2>3. M \in SUBSET Nat
    BY <2>1, TokensAreNumbers DEF Tokenlike
  <2> QED
    BY <2>1, <2>2, <2>3
<1>4. IsFiniteSet(M) /\ Cardinality(M) \in Nat
  BY FS_Subset, FS_CardinalityType DEF IInv, Service
<1>5. (\A u \in M : before[c] <= u + 1) /\ Cardinality(M) >= BatchSize + depth[c] * (PageSize - 1)
  BY DEF IInv, Paged
<1> HIDE DEF P, M
<1>6. P # {} /\ Min(P) \in P /\ (\A t \in P : Min(P) <= t)
  <2>1. P # {}
    BY <1>1, <1>2, FS_EmptySet DEF P
  <2> QED
    BY <1>1, <2>1, MinIsFirst
<1>7. Rounded(Min(P)) \in Nat /\ Rounded(Min(P)) <= Min(P) + 1 /\ Min(P) \in Nat
  BY <1>1, <1>6, RoundedNear
<1>8. \A u \in M \cup P : Rounded(Min(P)) <= u + 1
  <2>1. \A u \in M : Min(P) <= u
    BY <1>1, <1>3, <1>5, <1>6, <1>7
  <2> QED
    BY <1>1, <1>3, <1>6, <1>7, <2>1
<1>9. Cardinality(M \cap P) <= 1 /\ Cardinality(M \cap P) \in Nat
  <2>1. M \cap P \subseteq {before[c] - 1}
    BY <1>1, <1>3, <1>5
  <2> DEFINE one == {before[c] - 1}
  <2>2. IsFiniteSet(one) /\ Cardinality(one) = 1 /\ M \cap P \in SUBSET one
    BY <2>1, FS_Singleton
  <2> HIDE DEF one
  <2>3. IsFiniteSet(M \cap P) /\ Cardinality(M \cap P) <= Cardinality(one)
    BY <2>2, FS_Subset
  <2> QED
    BY <2>2, <2>3, FS_CardinalityType
<1>10. Cardinality(M \cup P) = Cardinality(M) + Cardinality(P) - Cardinality(M \cap P)
  BY <1>1, <1>4, FS_Union
<1>11. Cardinality(M \cup P) >= Cardinality(M) + (PageSize - 1)
  BY <1>1, <1>2, <1>4, <1>9, <1>10 DEF P
<1>12. (depth[c] + 1) * (PageSize - 1) = depth[c] * (PageSize - 1) + (PageSize - 1)
  BY <1>2, <1>3
<1>13. Cardinality(M \cup P) >= BatchSize + (depth[c] + 1) * (PageSize - 1)
  <2>1. depth[c] * (PageSize - 1) \in Int /\ Cardinality(M \cup P) \in Int
    BY <1>1, <1>2, <1>3, <1>4, <1>9, <1>10
  <2> QED
    BY <1>2, <1>4, <1>5, <1>11, <1>12, <2>1
<1> QED
  BY <1>6, <1>7, <1>8, <1>13 DEF P, M

\* The page of one channel leaves the others as they are.
LEMMA PageKeeps ==
    ASSUME IInv, NEW c \in Channels, PageAnswers(c)
    PROVE  IInv'
<1> DEFINE P == Page(c, before[c])
<1>1. /\ phase = "pages" /\ before[c] > 0 /\ startSlice = 0 /\ outcome = "none"
      /\ UNCHANGED <<stored, owed, clock>>
      /\ messages' = [messages EXCEPT ![c] = @ \cup P]
  BY DEF PageAnswers, IInv, Stage
<1>2. P \subseteq stored[c] /\ P \in SUBSET Tokens
  BY PageType
<1>3. messages' \in [Channels -> SUBSET Tokens] /\ Service'
  BY <1>1, <1>2 DEF IInv, TypeOK, Service
<1>4. messages'[c] = messages[c] \cup P /\ \A d \in Channels : d # c => messages'[d] = messages[d]
  BY <1>1 DEF IInv, TypeOK
<1>5. before \in [Channels -> Nat] /\ depth \in [Channels -> 0..(MaxPages - 1)] /\ MaxPages \in Nat \ {0}
      /\ BatchSize \in Nat \ {0} /\ PageSize \in Nat \ {0}
  BY HistoryAssumption DEF IInv, TypeOK
<1>6. CASE Await([before EXCEPT ![c] = 0]) /\ UNCHANGED depth
  <2> DEFINE pages == [before EXCEPT ![c] = 0]
  <2>1. pages \in [Channels -> Nat] /\ pages[c] = 0 /\ \A d \in Channels : d # c => pages[d] = before[d]
    BY <1>5
  <2>2. Await(pages)
    BY <1>6
  <2> HIDE DEF pages
  <2>3. /\ before' = pages
        /\ \/ phase' = "pages" /\ UNCHANGED <<startSlice, outcome>>
           \/ phase' = "done" /\ outcome' = "messages" /\ startSlice' \in Nat
    BY <1>1, <2>1, <2>2, AwaitEnds
  <2>4. TypeOK'
    BY <1>1, <1>3, <1>6, <2>1, <2>3 DEF IInv, TypeOK
  <2>5. ASSUME NEW d \in Channels PROVE Paged(d)'
    BY <1>1, <1>4, <1>6, <2>1, <2>3 DEF IInv, Paged
  <2> QED
    BY <1>1, <1>3, <2>3, <2>4, <2>5 DEF IInv, Stage, ResetOnlyIfTooMany
<1>7. CASE /\ Cardinality(P) >= PageSize /\ ~TooDeep(c)
           /\ depth' = Deeper(c) /\ Await([before EXCEPT ![c] = Rounded(Min(P))])
  <2> DEFINE pages == [before EXCEPT ![c] = Rounded(Min(P))]
  <2>1. /\ Rounded(Min(P)) \in Nat
        /\ \A u \in messages'[c] : Rounded(Min(P)) <= u + 1
        /\ Cardinality(messages'[c]) >= BatchSize + (depth[c] + 1) * (PageSize - 1)
    BY <1>1, <1>4, <1>7, FullPageAdds
  <2>2. pages \in [Channels -> Nat] /\ pages[c] = Rounded(Min(P)) /\ \A d \in Channels : d # c => pages[d] = before[d]
    BY <1>5, <2>1
  <2>3. Await(pages)
    BY <1>7
  <2> HIDE DEF pages
  <2>4. /\ before' = pages
        /\ \/ phase' = "pages" /\ UNCHANGED <<startSlice, outcome>>
           \/ phase' = "done" /\ outcome' = "messages" /\ startSlice' \in Nat
    BY <1>1, <2>2, <2>3, AwaitEnds
  <2>5. /\ depth' \in [Channels -> 0..(MaxPages - 1)] /\ depth'[c] = depth[c] + 1
        /\ \A d \in Channels : d # c => depth'[d] = depth[d]
    <3>1. depth[c] + 1 \in 0..(MaxPages - 1)
      BY <1>5, <1>7 DEF TooDeep
    <3>2. depth' = [depth EXCEPT ![c] = depth[c] + 1]
      BY <1>7 DEF Deeper
    <3> QED
      BY <1>5, <3>1, <3>2
  <2>6. TypeOK'
    BY <1>1, <1>3, <2>2, <2>4, <2>5 DEF IInv, TypeOK
  <2>7. ASSUME NEW d \in Channels PROVE Paged(d)'
    <3>1. CASE d = c
      BY <2>1, <2>2, <2>4, <2>5, <3>1 DEF Paged
    <3>2. CASE d # c
      BY <1>1, <1>4, <2>2, <2>4, <2>5, <3>2 DEF IInv, Paged
    <3> QED
      BY <3>1, <3>2
  <2> QED
    BY <1>1, <1>3, <2>4, <2>6, <2>7 DEF IInv, Stage, ResetOnlyIfTooMany
<1>8. CASE Cardinality(P) >= PageSize /\ TooDeep(c) /\ Finish("reset")
  <2>1. Cardinality(messages'[c]) >= BatchSize + (depth[c] + 1) * (PageSize - 1)
    BY <1>1, <1>4, <1>8, FullPageAdds
  <2>2. depth[c] + 1 = MaxPages
    BY <1>8 DEF TooDeep
  <2>3. phase' = "done" /\ outcome' = "reset" /\ UNCHANGED <<startSlice, before, depth>>
    BY <1>8 DEF Finish
  <2>4. TypeOK'
    BY <1>1, <1>3, <2>3 DEF IInv, TypeOK
  <2> QED
    BY <1>3, <2>1, <2>2, <2>3, <2>4 DEF IInv, Stage, Paged, ResetOnlyIfTooMany
<1>9. \/ Await([before EXCEPT ![c] = 0]) /\ UNCHANGED depth
      \/ /\ Cardinality(P) >= PageSize /\ ~TooDeep(c)
         /\ depth' = Deeper(c) /\ Await([before EXCEPT ![c] = Rounded(Min(P))])
      \/ Cardinality(P) >= PageSize /\ TooDeep(c) /\ Finish("reset")
  <2> HIDE DEF P
  <2> QED
    BY DEF PageAnswers, P
<1> QED
  BY <1>6, <1>7, <1>8, <1>9

\* A request fails, or the service gets one more message.
LEMMA OthersKeep ==
    ASSUME IInv, RequestFails \/ \E c \in Channels, t \in Late : Publish(c, t)
    PROVE  IInv'
<1>1. CASE RequestFails
  <2>1. phase' = "done" /\ outcome' = "error" /\ UNCHANGED <<stored, owed, clock, startSlice, messages, before, depth>>
    BY <1>1 DEF RequestFails, Finish
  <2> QED
    BY <2>1 DEF IInv, TypeOK, Service, Stage, Paged, ResetOnlyIfTooMany
<1>2. ASSUME NEW c \in Channels, NEW t \in Late, Publish(c, t) PROVE IInv'
  <2>1. stored' = [stored EXCEPT ![c] = stored[c] \cup {t}] /\ t \in Tokens
    BY <1>2 DEF Publish, Tokens
  <2>2. UNCHANGED <<owed, clock, startSlice, phase, messages, before, depth, outcome>>
    BY <1>2 DEF Publish
  <2>3. /\ stored' \in [Channels -> SUBSET Tokens] /\ stored'[c] = stored[c] \cup {t}
        /\ \A d \in Channels : d # c => stored'[d] = stored[d]
    BY <2>1 DEF IInv, TypeOK
  <2>4. IsFiniteSet(stored'[c])
    BY <2>3, FS_AddElement DEF IInv, Service
  <2>5. \A u, v \in stored'[c] : u < v => u + Spacing <= v
    <3>1. \A u \in stored[c] : u + Spacing <= t /\ u \in Nat /\ u <= t
      BY <1>2, TokensAreNumbers DEF Publish, IInv, TypeOK, Tokenlike
    <3>2. t \in Nat /\ ~(t < t)
      BY HistoryAssumption
    <3> QED
      BY <2>3, <3>1, <3>2 DEF IInv, Service
  <2>6. Service'
    BY <2>2, <2>3, <2>4, <2>5 DEF IInv, Service
  <2> QED
    BY <2>2, <2>3, <2>6 DEF IInv, TypeOK, Stage, Paged, ResetOnlyIfTooMany
<1> QED
  BY <1>1, <1>2

\* Every step keeps the invariant.
LEMMA StepKeeps == IInv /\ [Next]_vars => IInv'
<1> SUFFICES ASSUME IInv, [Next]_vars PROVE IInv'
  OBVIOUS
<1>1. CASE UNCHANGED vars
  BY <1>1 DEF vars, IInv, TypeOK, Service, Stage, Paged, ResetOnlyIfTooMany
<1> QED
  BY <1>1, BatchKeeps, PageKeeps, OthersKeep DEF Next, SomePage

\* The invariant holds in every state.
LEMMA Inductive == Spec => []IInv
BY InitKeeps, StepKeeps, PTL DEF Spec

\* Every variable has its type: no timetoken is read as a negative one, and no channel has more pages
\* than it may (pubnubHistory.ts).
THEOREM TypeCorrect == Spec => []TypeOK
<1>1. IInv => TypeOK
  BY DEF IInv
<1> QED
  BY <1>1, Inductive, PTL

\* A fetch becomes a Reset only for the messages of one channel, however many channels have pages under
\* way, though a page may begin with the message the one before ended with (pubnubHistory.ts).
THEOREM ResetsOnlyIfTooMany == Spec => []ResetOnlyIfTooMany
<1>1. IInv => ResetOnlyIfTooMany
  BY DEF IInv
<1> QED
  BY <1>1, Inductive, PTL

--------------------------------------------------------------------------------
(* Nothing is missed in the first slice, and nothing fetched beyond it. *)

\* What the service gets only makes it harder for the client's clock to be right.
LEMMA ClockWasRight ==
    ASSUME IInv, [Next]_vars, ClockIsRight'
    PROVE  ClockIsRight
<1>1. clock' = clock
  BY DEF Next, SomePage, BatchAnswers, PageAnswers, RequestFails, Publish, vars
<1>2. \A c \in Channels : stored[c] \subseteq stored'[c]
  BY DEF Next, SomePage, BatchAnswers, PageAnswers, RequestFails, Publish, vars, IInv, TypeOK
<1> QED
  BY <1>1, <1>2 DEF ClockIsRight, FromTheFuture

\* A batch is answered: what it does not have is at least Spacing before it, and the first page begins
\* no earlier than two before it.
LEMMA BatchFetches ==
    ASSUME Spacing >= 3, IInv, BatchAnswers
    PROVE  Fetched'
<1> DEFINE slice == Slice(startSlice)
           pages == [c \in Channels |-> IF c \in slice /\ HasMore(Batch(c)) THEN BeforeBatch(Batch(c)) ELSE 0]
<1>1. startSlice = 0 /\ outcome = "none" /\ UNCHANGED <<stored, owed>> /\ Await(pages)
  BY DEF BatchAnswers, IInv, Stage
<1>2. BatchSize \in Nat \ {0} /\ Spacing \in Nat
  BY HistoryAssumption
<1>3. ASSUME NEW c \in Slice(0), NEW t \in owed[c], t \notin messages'[c]
      PROVE  t < pages[c] /\ pages[c] \in Nat
  <2> DEFINE S == {u \in stored[c] : u >= Since}
             B == Newest(BatchSize, S)
  <2>1. c \in Channels /\ c \in slice /\ B = Batch(c)
    BY <1>1, Slices DEF Batch
  <2>2. t \in S /\ S \in SUBSET stored[c] /\ t \in Nat
    BY <2>1, TokensAreNumbers DEF IInv, Service, TypeOK, Tokenlike
  <2>3. t \notin B
    BY <1>3, <2>1 DEF BatchAnswers
  <2> HIDE DEF S
  <2>4. Cardinality(B) = BatchSize /\ B # {} /\ t + Spacing <= Min(B) /\ B \in SUBSET Tokenlike
    BY <1>2, <2>1, <2>2, <2>3, AnswerIsNewest
  <2>5. pages[c] = BeforeBatch(B)
    BY <2>1, <2>4 DEF HasMore
  <2> HIDE DEF B
  <2>6. BeforeBatch(B) \in Nat /\ Min(B) - 2 <= BeforeBatch(B)
    BY <2>4, BeforeBatchNear
  <2>7. Min(B) \in Nat
    <3>1. B \in SUBSET Nat
      BY <2>4 DEF Tokenlike
    <3> QED
      BY <2>4, <3>1, MinIsFirst
  <2> HIDE DEF pages
  <2> QED
    BY <1>2, <2>2, <2>4, <2>5, <2>6, <2>7
<1>4. pages \in [Channels -> Nat]
  <2> SUFFICES ASSUME NEW c \in Channels, HasMore(Batch(c)) PROVE BeforeBatch(Batch(c)) \in Nat
    OBVIOUS
  <2> DEFINE S == {u \in stored[c] : u >= Since}
             B == Newest(BatchSize, S)
  <2>1. B = Batch(c) /\ S \in SUBSET stored[c]
    BY DEF Batch
  <2> HIDE DEF S
  <2>2. B \in SUBSET Tokenlike
    BY <1>2, <2>1, AnswerIsNewest
  <2>3. B # {}
    BY <1>2, <2>1, FS_EmptySet DEF HasMore
  <2> HIDE DEF B
  <2> QED
    BY <2>1, <2>2, <2>3, BeforeBatchNear
<1> HIDE DEF pages
<1>5. /\ before' = pages
      /\ \/ phase' = "pages" /\ outcome' = outcome
         \/ phase' = "done" /\ \A c \in Channels : pages[c] = 0
  BY <1>1, <1>4, AwaitEnds
<1>6. \A c \in Slice(0) : \A t \in owed[c] : t \in Nat
  BY Slices, TokensAreNumbers DEF IInv, TypeOK, Tokenlike
<1> QED
  BY <1>1, <1>3, <1>5, <1>6, Slices DEF Fetched

\* A page is answered: what it does not have is at least Spacing before it, and the next page begins
\* no earlier than one before it; there is a next page, for the clock is right.
LEMMA PageFetches ==
    ASSUME Spacing >= 3, IInv, Fetched, NEW c \in Channels, PageAnswers(c), ClockIsRight
    PROVE  Fetched'
<1> DEFINE P == Page(c, before[c])
<1>1. /\ phase = "pages" /\ startSlice = 0 /\ outcome = "none" /\ UNCHANGED <<stored, owed>>
      /\ messages' = [messages EXCEPT ![c] = @ \cup P]
  BY DEF PageAnswers, IInv, Stage
<1>2. messages'[c] = messages[c] \cup P /\ \A d \in Channels : d # c => messages'[d] = messages[d]
  BY <1>1 DEF IInv, TypeOK
<1>3. before \in [Channels -> Nat] /\ \A d \in Slice(0) : \A t \in owed[d] : t \in Nat /\ t > 0
  BY Slices, TokensAreNumbers DEF IInv, TypeOK, Tokenlike
<1>4. \A d \in Slice(0) : \A t \in owed[d] : t \in messages[d] \/ t < before[d]
  BY <1>1 DEF Fetched
<1>5. PageSize \in Nat \ {0} /\ Spacing \in Nat
  BY HistoryAssumption
<1>6. ASSUME NEW t \in owed[c], c \in Slice(0), t \notin messages'[c]
      PROVE  Cardinality(P) = PageSize /\ t + Spacing <= Min(P)
  <2>1. t \in stored[c] /\ t >= Since /\ t < before[c] /\ t \notin P
    BY <1>2, <1>4, <1>6 DEF IInv, Service
  <2> QED
    BY <2>1, PageType
<1> DEFINE Ends(pages) ==
             /\ \A d \in Channels : d # c => pages[d] = before[d]
             /\ c \in Slice(0) => \A t \in owed[c] : t \in messages'[c] \/ t < pages[c]
<1>7. ASSUME NEW pages \in [Channels -> Nat], Await(pages), Ends(pages)
      PROVE  Fetched'
  <2>1. /\ before' = pages
        /\ \/ phase' = "pages" /\ outcome' = outcome
           \/ phase' = "done" /\ \A d \in Channels : pages[d] = 0
    BY <1>1, <1>7, AwaitEnds
  <2>2. \A d \in Slice(0) : \A t \in owed[d] : t \in messages'[d] \/ t < pages[d]
    BY <1>2, <1>4, <1>7, Slices
  <2>3. ASSUME phase' = "done", NEW d \in Slice(0) PROVE owed[d] \subseteq messages'[d]
    BY <1>3, <2>1, <2>2, <2>3, Slices
  <2> HIDE DEF Ends, P
  <2> QED
    BY <1>1, <2>1, <2>2, <2>3 DEF Fetched
<1>8. CASE /\ Cardinality(P) >= PageSize => FromTheFuture(Min(P))
           /\ Await([before EXCEPT ![c] = 0])
  <2> DEFINE pages == [before EXCEPT ![c] = 0]
  <2>1. pages \in [Channels -> Nat] /\ \A d \in Channels : d # c => pages[d] = before[d]
    BY <1>3
  <2>2. ~(Cardinality(P) >= PageSize)
    <3> SUFFICES ASSUME Cardinality(P) >= PageSize PROVE FALSE
      OBVIOUS
    <3>1. Min(P) \in P /\ P \subseteq stored[c]
      BY <1>1, PageType, FullPageAdds DEF PageAnswers
    <3> QED
      BY <1>8, <3>1 DEF ClockIsRight
  <2>3. c \in Slice(0) => owed[c] \subseteq messages'[c]
    BY <1>5, <1>6, <2>2
  <2> HIDE DEF P
  <2> QED
    BY <1>7, <1>8, <2>1, <2>3
<1>9. CASE Cardinality(P) >= PageSize /\ Await([before EXCEPT ![c] = Rounded(Min(P))])
  <2> DEFINE pages == [before EXCEPT ![c] = Rounded(Min(P))]
  <2>1. P \in SUBSET Nat /\ Min(P) \in P /\ Rounded(Min(P)) \in Nat
    BY <1>1, <1>9, PageType, FullPageAdds DEF PageAnswers, Tokenlike
  <2>2. /\ pages \in [Channels -> Nat] /\ pages[c] = Rounded(Min(P))
        /\ \A d \in Channels : d # c => pages[d] = before[d]
    BY <1>3, <2>1
  <2>3. Min(P) \in Nat /\ Min(P) - 1 <= Rounded(Min(P))
    BY <2>1, RoundedNear
  <2>4. ASSUME c \in Slice(0), NEW t \in owed[c], t \notin messages'[c] PROVE t < Rounded(Min(P))
    <3>1. t + Spacing <= Min(P) /\ t \in Nat
      BY <1>3, <1>6, <2>4
    <3> HIDE DEF P
    <3> QED
      BY <1>5, <2>1, <2>3, <3>1
  <2> HIDE DEF P
  <2> QED
    BY <1>7, <1>9, <2>2, <2>4
<1>10. CASE Finish("reset")
  BY <1>10 DEF Finish, Fetched
<1>11. \/ /\ Cardinality(P) >= PageSize => FromTheFuture(Min(P))
          /\ Await([before EXCEPT ![c] = 0])
       \/ Cardinality(P) >= PageSize /\ Await([before EXCEPT ![c] = Rounded(Min(P))])
       \/ Finish("reset")
  <2> HIDE DEF P
  <2> QED
    BY DEF PageAnswers, P
<1> QED
  BY <1>8, <1>9, <1>10, <1>11

\* Every step keeps what is owed in sight.
LEMMA FetchedStep ==
    ASSUME Spacing >= 3
    PROVE  IInv /\ Fetched /\ [Next]_vars => Fetched'
<1> SUFFICES ASSUME IInv, Fetched, [Next]_vars, ClockIsRight' PROVE Fetched'
  BY DEF Fetched
<1>1. ClockIsRight
  BY ClockWasRight
<1>2. CASE UNCHANGED vars \/ \E c \in Channels, t \in Late : Publish(c, t)
  <2>1. UNCHANGED <<owed, phase, messages, before, outcome>>
    BY <1>2 DEF vars, Publish
  <2> QED
    BY <1>1, <2>1 DEF Fetched
<1>3. CASE RequestFails
  BY <1>3 DEF RequestFails, Finish, Fetched
<1> QED
  BY <1>1, <1>2, <1>3, BatchFetches, PageFetches DEF Next, SomePage

\* No message that was there when the fetch began falls between a batch and its pages or between two
\* pages, whatever is published meanwhile and however timetokens are rounded: if the channels fit
\* into a slice, and messages of a channel are three ticks apart (pubnubHistory.ts:25).
THEOREM NoneMissed ==
    ASSUME Spacing >= 3, Len(ChannelList) <= SliceSize
    PROVE  Spec => []NothingMissed
<1>1. Init => Fetched
  BY DEF Init, Fetched
<1>2. Fetched => NothingMissed
  BY Slices DEF Fetched, NothingMissed
<1> QED
  BY <1>1, <1>2, Inductive, FetchedStep, PTL DEF Spec

\* Every step leaves the channels beyond the first slice alone.
LEMMA BeyondStep == IInv /\ Beyond /\ [Next]_vars => Beyond'
<1> SUFFICES ASSUME IInv, Beyond, [Next]_vars PROVE Beyond'
  OBVIOUS
<1>1. CASE BatchAnswers
  <2>1. startSlice = 0
    BY <1>1 DEF BatchAnswers, IInv, Stage
  <2> QED
    BY <1>1, <2>1 DEF BatchAnswers, Await, Beyond, NoneBeyondFirstSlice
<1>2. ASSUME NEW c \in Channels, PageAnswers(c) PROVE Beyond'
  <2>1. c \in Slice(0)
    BY <1>2 DEF PageAnswers, Beyond
  <2>2. \A d \in Channels : d # c => messages'[d] = messages[d]
    BY <1>2 DEF PageAnswers, IInv, TypeOK
  <2>3. \A d \in Channels : d # c => before'[d] = before[d]
    BY <1>2 DEF PageAnswers, Await, Finish, IInv, TypeOK
  <2>4. phase = "pages"
    BY <1>2 DEF PageAnswers
  <2> QED
    BY <2>1, <2>2, <2>3, <2>4 DEF Beyond, NoneBeyondFirstSlice
<1>3. CASE \/ RequestFails \/ UNCHANGED vars
           \/ \E c \in Channels, t \in Late : Publish(c, t)
  BY <1>3 DEF RequestFails, Finish, Publish, vars, Beyond, NoneBeyondFirstSlice
<1> QED
  BY <1>1, <1>2, <1>3 DEF Next, SomePage

\* What a run shows of three channels in slices of two is so for every number of channels and every size
\* of the slices: of the channels beyond the first slice nothing is ever fetched (pubnubHistory.ts:53).
THEOREM OnlyFirstSliceFetched == Spec => []NoneBeyondFirstSlice
<1>1. Init => Beyond
  BY DEF Init, Beyond, NoneBeyondFirstSlice
<1>2. Beyond => NoneBeyondFirstSlice
  BY DEF Beyond
<1> QED
  BY <1>1, <1>2, Inductive, BeyondStep, PTL DEF Spec

===============================================================================
