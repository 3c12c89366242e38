-------------------------------- MODULE History --------------------------------
(***************************************************************************)
(* Fetching the history from PubNub (pubnubHistory.ts): what catchUp()     *)
(* waits for.  The channels are taken in slices; for each slice one batch  *)
(* request returns the newest messages of every channel, and channels that *)
(* may have more are paged through backwards, all at the same time.  A     *)
(* channel with too many pages makes the whole fetch a Reset.              *)
(*                                                                         *)
(* A message is its timetoken, a number of 17 digits.  JavaScript reads it *)
(* into a double, which between 2^53 and 2^54 is even: tokens are modelled *)
(* by their last digits, and reading one rounds it.                        *)
(***************************************************************************)
EXTENDS Integers, Sequences, FiniteSets, FiniteSetsExt

CONSTANTS
    ChannelList,  \* options.channels
    Since,        \* options.since, as a timetoken: a multiple of 10000, so even
    SliceSize,    \* channels in a batch (500)
    BatchSize,    \* messages of a channel in a batch (25)
    PageSize,     \* messages in a page (100)
    MaxPages,     \* pages of a channel before RESET (10)
    Spacing,      \* EXTERNAL: messages of a channel are at least this far apart
    Clocks,       \* what the client's clock may say
    Contents,     \* what a channel may hold when the fetch begins
    Late          \* bound of the model: the tokens of what is published meanwhile

ASSUME HistoryAssumption ==
    /\ ChannelList \in Seq(STRING) /\ ChannelList # <<>>
    /\ \A i, j \in DOMAIN ChannelList : i # j => ChannelList[i] # ChannelList[j]
    /\ {SliceSize, BatchSize, PageSize, MaxPages} \subseteq Nat \ {0}
    /\ Since \in Nat /\ Spacing \in Nat \ {0}
    /\ Clocks \subseteq Nat /\ Late \subseteq Nat \ {0}
    /\ \A S \in Contents :
        /\ S \subseteq Nat \ {0} /\ IsFiniteSet(S)
        /\ \A t, u \in S : t < u => t + Spacing <= u

VARIABLES
    stored,      \* EXTERNAL: the tokens of the messages the service has, by channel
    owed,        \* history: those it had, and we ask for, when the fetch began
    clock,       \* Date.now(), as a timetoken
    startSlice,
    phase,       \* what the fetch is suspended on, or done
    messages,    \* _allMessages: those of each channel
    before,      \* where the page under way of each channel ends, 0 if none is
    depth,       \* the pages of each channel so far
    outcome      \* of the fetch: messages, a Reset or an error

vars == <<stored, owed, clock, startSlice, phase, messages, before, depth, outcome>>

Channels == {ChannelList[i] : i \in DOMAIN ChannelList}
Tokens == Late \cup UNION Contents

--------------------------------------------------------------------------------
(* Timetokens and the service. *)

\* parseInt(): to the nearest even number, halfway to the multiple of four.
Rounded(t) == IF t % 2 = 0 THEN t ELSE IF (t + 1) % 4 = 0 THEN t + 1 ELSE t - 1

\* The batch is followed up from just before the earliest of its messages.
BeforeBatch(batch) == Rounded(Rounded(Min(batch)) - 1)

\* EXTERNAL: the newest n, or all if they are fewer.
Newest(n, S) == {t \in S : Cardinality({u \in S : u > t}) < n}

\* EXTERNAL: a request of up to n messages of c from Since on, and before b.
Batch(c) == Newest(BatchSize, {t \in stored[c] : t >= Since})
Page(c, b) == Newest(PageSize, {t \in stored[c] : t >= Since /\ t < b})

--------------------------------------------------------------------------------
(* fetchHistory() *)

\* options.channels.slice(start, SliceSize), whose second argument is an end.
Slice(start) == {ChannelList[i] : i \in (start + 1)..(IF SliceSize < Len(ChannelList)
                                                      THEN SliceSize ELSE Len(ChannelList))}

\* MUTANT: the slice does not advance.
SameSlice == startSlice

NextSlice == startSlice + SliceSize

\* MUTANT: a full batch is taken for all there is.
HasMoreThanFull(batch) == Cardinality(batch) > BatchSize

HasMore(batch) == Cardinality(batch) = BatchSize

\* MUTANT: the pages are not counted.
TooDeepNever(c) == FALSE

TooDeep(c) == depth[c] + 1 = MaxPages

\* MUTANT: one count of pages for all channels.
DeeperTogether(c) == [d \in Channels |-> depth[d] + 1]

Deeper(c) == [depth EXCEPT ![c] = @ + 1]

\* A timetoken of the future: the client's clock must be wrong.
FromTheFuture(t) == Rounded(t) > clock

\* When no page is under way (any more) the next slice is asked for, if there is one.
Await(pages) ==
    /\ before' = pages
    /\ IF \E c \in Channels : pages[c] > 0
       THEN phase' = "pages" /\ UNCHANGED <<startSlice, outcome>>
       ELSE /\ startSlice' = NextSlice
            /\ IF Slice(NextSlice) = {}
               THEN phase' = "done" /\ outcome' = "messages"
               ELSE phase' = "batch" /\ UNCHANGED outcome

Finish(how) ==
    /\ phase' = "done" /\ outcome' = how
    /\ UNCHANGED <<startSlice, before, depth>>

\* retrieveBatchHistory(), as its request is answered.
BatchAnswers ==
    /\ phase = "batch"
    /\ LET slice == Slice(startSlice) IN
        /\ messages' = [c \in Channels |->
                            IF c \in slice THEN messages[c] \cup Batch(c) ELSE messages[c]]
        /\ depth' = [c \in Channels |-> 0]
        /\ Await([c \in Channels |->
                     IF c \in slice /\ HasMore(Batch(c)) THEN BeforeBatch(Batch(c)) ELSE 0])
    /\ UNCHANGED <<stored, owed, clock>>

\* retrieveChannelHistory(), as its request is answered.
PageAnswers(c) ==
    /\ phase = "pages" /\ before[c] > 0
    /\ LET page == Page(c, before[c])
           full == Cardinality(page) >= PageSize
       IN
        /\ messages' = [messages EXCEPT ![c] = @ \cup page]
        /\ \/ /\ full => FromTheFuture(Min(page))
              /\ UNCHANGED depth
              /\ Await([before EXCEPT ![c] = 0])
           \/ /\ full /\ ~FromTheFuture(Min(page)) /\ ~TooDeep(c)
              /\ depth' = Deeper(c)
              /\ Await([before EXCEPT ![c] = Rounded(Min(page))])
           \/ /\ full /\ ~FromTheFuture(Min(page)) /\ TooDeep(c)
              /\ Finish("reset")
    /\ UNCHANGED <<stored, owed, clock>>

\* A request fails, and the fetch with it.
RequestFails ==
    /\ phase # "done"
    /\ Finish("error")
    /\ UNCHANGED <<stored, owed, clock, messages>>

\* EXTERNAL: a message is published meanwhile.
Publish(c, t) ==
    /\ phase # "done"
    /\ \A d \in Channels : \A u \in stored[d] : u <= t
    /\ \A u \in stored[c] : u + Spacing <= t
    /\ stored' = [stored EXCEPT ![c] = @ \cup {t}]
    /\ UNCHANGED <<owed, clock, startSlice, phase, messages, before, depth, outcome>>

--------------------------------------------------------------------------------

Init ==
    /\ stored \in [Channels -> Contents]
    /\ owed = [c \in Channels |-> {t \in stored[c] : t >= Since}]
    /\ clock \in Clocks
    /\ startSlice = 0
    /\ phase = "batch"
    /\ messages = [c \in Channels |-> {}]
    /\ before = [c \in Channels |-> 0]
    /\ depth = [c \in Channels |-> 0]
    /\ outcome = "none"

SomePage == \E c \in Channels : PageAnswers(c)

Next ==
    \/ BatchAnswers
    \/ SomePage
    \/ RequestFails
    \/ \E c \in Channels, t \in Late : Publish(c, t)

\* The SDK answers every request, or gives up on it after its timeout.
Spec == Init /\ [][Next]_vars /\ WF_vars(BatchAnswers) /\ WF_vars(SomePage)

--------------------------------------------------------------------------------
(* Properties. *)

\* Every variable has its type.
TypeOK ==
    /\ stored \in [Channels -> SUBSET Tokens]
    /\ owed \in [Channels -> SUBSET Tokens]
    /\ messages \in [Channels -> SUBSET Tokens]
    /\ clock \in Clocks /\ startSlice \in Nat
    /\ before \in [Channels -> Nat] /\ depth \in [Channels -> 0..(MaxPages - 1)]
    /\ phase \in {"batch", "pages", "done"}
    /\ outcome \in {"none", "messages", "reset", "error"}

ClockIsRight == \A c \in Channels : \A t \in stored[c] : ~FromTheFuture(t)

\* "Fetch the history of messages that have come through the specified channels since
\* the specified timestamp ... if there are more than 500 channels ... we split that
\* into slices" (pubnubHistory.ts:25): no message that was there when the fetch began
\* falls between two slices, a batch and its pages, or two pages.
NothingMissed ==
    outcome = "messages" /\ ClockIsRight => \A c \in Channels : owed[c] \subseteq messages[c]

\* A channel is given up on only for its own messages, never for the sum of pages of
\* all of them; a page overlaps with the one before in one message at most.
ResetOnlyIfTooMany ==
    outcome = "reset" =>
        \E c \in Channels :
            Cardinality(messages[c]) >= BatchSize + MaxPages * (PageSize - 1)

\* However many channels and messages there are, catchUp() gets its answer.
FetchEnds == <>(phase = "done")

================================================================================
