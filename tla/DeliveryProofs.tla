---------------------------- MODULE DeliveryProofs ----------------------------
(***************************************************************************)
(* Proofs about BroadcasterDelivery, for every set of messages, every way  *)
(* to split them and every choice of the thresholds.                       *)
(*                                                                         *)
(* That nothing is missed (Delivered) and that parts are put together and  *)
(* emitted once (Handed) are independent of each other, and rest on an     *)
(* invariant each.  Only the first presupposes a Timely transport.         *)
(***************************************************************************)
EXTENDS BroadcasterDelivery, FiniteSetTheorems, WellFoundedInduction, TLAPS

Busy(f) == fetches[f].status # "idle"
CaughtUp == Published \subseteq seen \cup flight
Unseen == Published \ seen

\* No instant that was noted lies in the future, and fetches get what was published.
Past ==
    /\ now >= Start /\ last <= now /\ connLost <= now /\ downSince <= now
    /\ \A m \in Messages : at[m] <= now /\ received[m] <= now
    /\ \A f \in Fetches : fetches[f].began <= now /\ fetches[f].got \subseteq Published

Base == TypeOK /\ Past

\* Before the link is up for the first time nothing but publishing happens; an interruption is
\* noticed in time, and is then being taken care of.
Linked ==
    /\ link = "never" => pending /\ connLost = 0 /\ \A f \in Fetches : ~Busy(f)
    /\ noticed => link = "down" /\ pending /\ connLost <= downSince + NoticeWithin
    /\ link = "down" /\ ~noticed => now <= downSince + NoticeWithin

\* A fetch ends in time, it began with the link up, and asks for what the history still has.
InTime(f) ==
    /\ now <= fetches[f].began + FetchTimeout
    /\ link = "down" => fetches[f].began <= downSince
    /\ fetches[f].since <= fetches[f].began /\ fetches[f].began <= fetches[f].since + CatchupLimit

\* A fetch asks for all that is missing; once it is answered, what it did not get came later
\* and is on its way.
Fetched(f) ==
    /\ \A m \in Unseen : at[m] >= fetches[f].since
    /\ fetches[f].status = "answered" =>
        \A m \in Unseen \ fetches[f].got :
            m \in flight /\ \A g \in fetches[f].got : at[g] <= at[m]

Delivered ==
    /\ Linked
    /\ \A f \in Fetches : Busy(f) => InTime(f) /\ Fetched(f)
    /\ \A m \in Unseen : at[m] >= Since
    /\ ~pending \/ LostShortly => CaughtUp

\* The parts of a message that has not been emitted are kept; what is remembered was seen.
Handed ==
    /\ \A w \in Wholes : emitted[w] = 0 => w \cap seen \subseteq partial /\ ~(w \subseteq seen)
    /\ \A m \in Messages : received[m] > 0 => m \in seen

\* While nothing is forgotten, what was emitted was seen, and what has an identity once only.
Remembered ==
    /\ \A m \in Identified \cap seen : received[m] > 0
    /\ \A w \in Wholes : w \subseteq Identified /\ emitted[w] > 0 => w \subseteq seen /\ emitted[w] = 1

--------------------------------------------------------------------------------
(* The watermark after a fetch. *)

\* A set of instants that is not empty has a last one, and Max is it.
LEMMA MaxIsLast ==
    ASSUME NEW n \in Nat, NEW S \in SUBSET (0..n), S # {}
    PROVE  Max(S) \in S /\ \A t \in S : t <= Max(S)
<1> DEFINE T == {t \in Nat : n - t \in S}
<1>1. T \subseteq Nat /\ T # {}
  <2>1. PICK u \in S : TRUE
    OBVIOUS
  <2>2. n - u \in Nat /\ n - (n - u) = u
    BY <2>1
  <2> QED
    BY <2>1, <2>2
<1>2. \E x \in T : \A y \in T : ~(<<y, x>> \in OpToRel(<, Nat))
  <2> HIDE DEF T
  <2> QED
    BY <1>1, WFMin, NatLessThanWellFounded
<1>3. PICK x \in T : \A y \in T : ~(y < x)
  BY <1>1, <1>2 DEF OpToRel
<1>4. PICK u \in S : u = n - x
  BY <1>3
<1>5. \A t \in S : u >= t
  <2> TAKE t \in S
  <2>1. n - t \in T
    BY n - (n - t) = t
  <2> QED
    BY <1>3, <1>4, <2>1
<1> QED
  BY <1>5 DEF Max

--------------------------------------------------------------------------------
(* Types and instants. *)

\* No fetch is a fetch.
LEMMA IdleType == Idle \in FetchStates /\ Idle.began = 0 /\ Idle.got = {} /\ Idle.status = "idle"
BY DeliveryAssumption DEF Idle, FetchStates, Times

\* The initial state has its types.
LEMMA BaseInit == Init => Base
<1> SUFFICES ASSUME Init PROVE Base
  OBVIOUS
<1> USE DEF Init
<1>1. Published = {}
  BY DEF Published
<1>2. 0 \in Times /\ 1 \in Times /\ 0 <= now
  BY DeliveryAssumption DEF Times, Start
<1>3. fetches \in [Fetches -> FetchStates] /\ \A f \in Fetches : fetches[f].began = 0 /\ fetches[f].got = {}
  BY IdleType
<1>4. TypeOK
  <2>1. at \in [Messages -> Times] /\ received \in [Messages -> Times] /\ emitted \in [Wholes -> 0..2]
    BY <1>2
  <2>2. now \in Times /\ last \in Times /\ connLost \in Times /\ downSince \in Times
    BY <1>2 DEF Start
  <2>3. noticed \in BOOLEAN /\ pending \in BOOLEAN /\ over \in BOOLEAN
    OBVIOUS
  <2>4. flight \subseteq Published /\ partial \subseteq seen /\ seen \subseteq Published
    OBVIOUS
  <2> QED
    BY <1>3, <2>1, <2>2, <2>3, <2>4 DEF TypeOK
<1>5. Past
  BY <1>1, <1>2, <1>3 DEF Past, Start
<1> QED
  BY <1>4, <1>5 DEF Base

\* Processing published messages keeps the types of what it writes.
LEMMA ProcessedType ==
    ASSUME Base, NEW M \in SUBSET Published, ProcessMessages(M), at' = at, now' = now
    PROVE  /\ received' \in [Messages -> Times] /\ emitted' \in [Wholes -> 0..2]
           /\ partial' \subseteq seen' /\ seen' \subseteq Published'
           /\ \A m \in Messages : received'[m] <= now'
<1>1. New(M) \subseteq M
  BY DEF New
<1>2. received' \in [Messages -> Times] /\ \A m \in Messages : received'[m] <= now'
  <2>1. 0 \in Times /\ 0 <= now
    BY DeliveryAssumption DEF Base, TypeOK, Times
  <2>2. now \in Times /\ received \in [Messages -> Times] /\ \A m \in Messages : received[m] <= now
    BY DEF Base, TypeOK, Past
  <2>3. \A m \in Messages : received'[m] \in {now, 0, received[m]}
    BY DEF ProcessMessages
  <2>4. received' = [m \in Messages |-> received'[m]]
    BY DEF ProcessMessages
  <2>5. now <= now
    BY <2>2 DEF Times
  <2> QED
    BY <2>1, <2>2, <2>3, <2>4, <2>5
<1>3. emitted' \in [Wholes -> 0..2]
  BY DEF Base, TypeOK, ProcessMessages, Again
<1>4. partial' \subseteq seen' /\ seen' \subseteq Published'
  BY <1>1 DEF Base, TypeOK, ProcessMessages, Published
<1> QED
  BY <1>2, <1>3, <1>4

\* The fetches keep their type when one of them changes.
LEMMA OneFetchType ==
    ASSUME Base, NEW f \in Fetches, NEW new \in FetchStates, new.began <= now, new.got \subseteq Published,
           fetches' = [fetches EXCEPT ![f] = new]
    PROVE  /\ fetches' \in [Fetches -> FetchStates]
           /\ \A g \in Fetches : fetches'[g].began <= now /\ fetches'[g].got \subseteq Published
BY DEF Base, TypeOK, Past

\* Every step keeps the types, and notes no instant of the future.
LEMMA BaseStep == Base /\ [Next]_vars => Base'
<1> SUFFICES ASSUME Base, [Next]_vars PROVE Base'
  OBVIOUS
<1> USE DEF transport, control, handed, vars
<1>1. ASSUME NEW m \in Messages, Publish(m) PROVE Base'
  <2>1. now > 0 /\ now \in Times
    BY <1>1 DEF Base, TypeOK, Past, Start, Times
  <2>2. at' \in [Messages -> Times] /\ \A n \in Messages : at'[n] <= now'
    BY <1>1, <2>1 DEF Base, TypeOK, Past, Publish, Times
  <2>3. Published' = Published \cup {m}
    BY <1>1, <2>1 DEF Base, TypeOK, Publish, Published
  <2> QED
    BY <1>1, <2>2, <2>3 DEF Base, TypeOK, Past, Publish
<1>2. ASSUME NEW m \in Messages, OnMessage(m) PROVE Base'
  <2>1. {m} \in SUBSET Published /\ ProcessMessages({m}) /\ at' = at /\ now' = now
    BY <1>2 DEF OnMessage, Base, TypeOK
  <2>2. last' \in Times /\ last' <= now
    BY <1>2 DEF OnMessage, Watermark, Base, TypeOK, Past
  <2>3. Published' = Published
    BY <2>1 DEF Published
  <2> QED
    BY <1>2, <2>1, <2>2, <2>3, ProcessedType DEF OnMessage, Base, TypeOK, Past
<1>3. CASE Attach \/ LinkDown \/ LinkUp
  <2>1. link' \in {"never", "up", "down"} /\ flight' \subseteq flight
    BY <1>3 DEF Attach, LinkDown, LinkUp
  <2>2. downSince' \in {downSince, now, 0}
    BY <1>3 DEF Attach, LinkDown, LinkUp
  <2>3. downSince' \in Times /\ downSince' <= now
    BY <2>2, DeliveryAssumption DEF Base, TypeOK, Past, Times
  <2>4. noticed' = FALSE \/ noticed' = noticed
    BY <1>3 DEF Attach, LinkDown, LinkUp
  <2>5. UNCHANGED <<now, at, pending, last, connLost, fetches, over, received, partial, emitted, seen, Published>>
    BY <1>3 DEF Attach, LinkDown, LinkUp, Published
  <2> QED
    BY <2>1, <2>3, <2>4, <2>5 DEF Base, TypeOK, Past
<1>6. CASE Tick
  <2>1. now' \in Times /\ \A t \in Times : t <= now => t <= now'
    BY <1>6, DeliveryAssumption DEF Tick, Base, TypeOK, Times
  <2>2. \A f \in Fetches : fetches[f].began \in Times
    BY DEF Base, TypeOK, FetchStates
  <2> QED
    BY <1>6, <2>1, <2>2 DEF Tick, Base, TypeOK, Past, Published, Times, Start
<1>7. CASE OnNetHiccup
  <2>1. noticed' \in BOOLEAN
    BY <1>7 DEF OnNetHiccup
  <2>2. pending' \in BOOLEAN /\ connLost' \in {now, connLost}
    BY <1>7 DEF OnNetHiccup, Base, TypeOK
  <2>3. connLost' \in Times /\ connLost' <= now
    BY <2>2 DEF Base, TypeOK, Past, Times
  <2>4. UNCHANGED <<now, link, downSince, at, flight, last, fetches, over, handed, Published>>
    BY <1>7 DEF OnNetHiccup, Published
  <2> QED
    BY <2>1, <2>2, <2>3, <2>4 DEF Base, TypeOK, Past
<1>8. CASE OnConnected
  <2> USE <1>8 DEF OnConnected
  <2>1. CASE SkipHistory
    <3>1. 0 \in Times /\ 0 <= now
      BY DeliveryAssumption DEF Base, TypeOK, Times
    <3>2. pending' \in BOOLEAN /\ connLost' = 0
      BY <2>1 DEF SkipHistory
    <3> QED
      BY <2>1, <3>1, <3>2 DEF SkipHistory, Base, TypeOK, Past, Published
  <2>2. CASE ForceReset
    BY <2>2 DEF ForceReset, Base, TypeOK, Past, Published, Times
  <2>3. CASE AskHistory
    <3>1. PICK f \in Fetches : fetches' = [fetches EXCEPT ![f] =
                                [status |-> "asked", since |-> Since, began |-> now, got |-> {}]]
      BY <2>3 DEF AskHistory
    <3>2. Since \in (-(Buffer + Lead))..MaxTime
      BY DeliveryAssumption DEF Since, Start, Base, TypeOK, Times
    <3>3. [status |-> "asked", since |-> Since, began |-> now, got |-> {}] \in FetchStates
      BY <3>2 DEF FetchStates, Base, TypeOK
    <3>4. now <= now
      BY DEF Base, TypeOK, Times
    <3> QED
      BY <2>3, <3>1, <3>3, <3>4, OneFetchType DEF AskHistory, Base, TypeOK, Past, Published
  <2> QED
    BY <2>1, <2>2, <2>3
<1>9. ASSUME NEW f \in Fetches, HistoryAnswers(f) PROVE Base'
  <2> DEFINE M == {m \in Published : at[m] >= fetches[f].since /\ at[m] + Retention >= now}
             new == [fetches[f] EXCEPT !.status = "answered", !.got = M]
  <2>1. new \in FetchStates /\ new.began = fetches[f].began /\ new.got = M
    BY DEF FetchStates, Base, TypeOK, Published
  <2>2. fetches' = [fetches EXCEPT ![f] = new]
    BY <1>9 DEF HistoryAnswers, Base, TypeOK
  <2>3. new.began <= now /\ new.got \subseteq Published
    BY <2>1 DEF Base, Past
  <2> HIDE DEF new, M
  <2> QED
    BY <1>9, <2>1, <2>2, <2>3, OneFetchType DEF HistoryAnswers, Base, TypeOK, Past, Published
<1>10. ASSUME NEW f \in Fetches, FetchResumes(f) PROVE Base'
  <2> DEFINE M == fetches[f].got
  <2>1. M \in SUBSET Published /\ ProcessMessages(M) /\ at' = at /\ now' = now
    BY <1>10 DEF FetchResumes, Base, Past
  <2>2. last' \in Times /\ last' <= now
    <3>1. CASE M = {}
      BY <1>10, <3>1 DEF FetchResumes, Base, TypeOK, Past
    <3>2. CASE M # {}
      <4> DEFINE S == {at[m] : m \in M}
      <4>1. S \in SUBSET (0..MaxTime) /\ S # {} /\ \A t \in S : t <= now
        BY <3>2, <2>1 DEF Base, TypeOK, Past, Published, Times
      <4>2. Max(S) \in S
        <5>1. MaxTime \in Nat
          BY DeliveryAssumption
        <5> HIDE DEF S
        <5> QED
          BY <4>1, <5>1, MaxIsLast
      <4>3. last' = Max(S)
        BY <1>10, <3>2 DEF FetchResumes
      <4> HIDE DEF S
      <4> QED
        BY <4>1, <4>2, <4>3 DEF Times
    <3> QED
      BY <3>1, <3>2
  <2>3. Published' = Published
    BY <2>1 DEF Published
  <2>4. Idle.began <= now
    BY IdleType DEF Base, TypeOK, Times
  <2>5. fetches' = [fetches EXCEPT ![f] = Idle]
    BY <1>10 DEF FetchResumes
  <2>6. fetches' \in [Fetches -> FetchStates]
        /\ \A g \in Fetches : fetches'[g].began <= now /\ fetches'[g].got \subseteq Published
    BY <2>4, <2>5, IdleType, OneFetchType
  <2> QED
    BY <1>10, <2>1, <2>2, <2>3, <2>6, ProcessedType DEF FetchResumes, Base, TypeOK, Past
<1>11. ASSUME NEW f \in Fetches, FetchOverflows(f) \/ FetchFails(f) PROVE Base'
  <2>1. Idle.began <= now
    BY IdleType DEF Base, TypeOK, Times
  <2>2. fetches' = [fetches EXCEPT ![f] = Idle]
    BY <1>11 DEF FetchOverflows, FetchFails
  <2>3. fetches' \in [Fetches -> FetchStates]
        /\ \A g \in Fetches : fetches'[g].began <= now /\ fetches'[g].got \subseteq Published
    BY <2>1, <2>2, IdleType, OneFetchType
  <2> QED
    BY <1>11, <2>3 DEF FetchOverflows, FetchFails, Base, TypeOK, Past, Published
<1>12. CASE UNCHANGED vars
  BY <1>12 DEF Base, TypeOK, Past, Published
<1> QED
  BY <1>1, <1>2, <1>3, <1>6, <1>7, <1>8, <1>9, <1>10, <1>11, <1>12 DEF Next

\* Base is an invariant.
LEMMA BaseInvariant == Spec => []Base
BY BaseInit, BaseStep, PTL DEF Spec

\* Every variable has its type, whatever the thresholds are (broadcaster.ts).
THEOREM TypeCorrect == Spec => []TypeOK
<1>1. Base => TypeOK
  BY DEF Base
<1> QED
  BY <1>1, BaseInvariant, PTL

--------------------------------------------------------------------------------
(* Messages that are put together, and emitted once. *)

\* Every step either leaves alone what was handed over, or processes published messages.
LEMMA StepsProcess ==
    ASSUME Base, [Next]_vars
    PROVE  \/ UNCHANGED handed
           \/ \E M \in SUBSET Published : ProcessMessages(M)
<1>1. ASSUME NEW m \in Messages, OnMessage(m) PROVE \E M \in SUBSET Published : ProcessMessages(M)
  BY <1>1 DEF OnMessage, Base, TypeOK
<1>2. ASSUME NEW f \in Fetches, FetchResumes(f) PROVE \E M \in SUBSET Published : ProcessMessages(M)
  BY <1>2 DEF FetchResumes, Base, Past
<1> QED
  BY <1>1, <1>2 DEF Next, vars, Publish, Attach, LinkDown, LinkUp, Tick, OnNetHiccup, OnConnected,
                    HistoryAnswers, FetchOverflows, FetchFails

\* What is processed was seen before or is new; of the new, all parts of a complete message go,
\* and all others stay.
LEMMA NewOrSeen ==
    ASSUME Base, Handed, NEW M \in SUBSET Published, ProcessMessages(M)
    PROVE  /\ New(M) \subseteq M /\ M \ New(M) \subseteq seen /\ seen' = seen \cup M
           /\ \A w \in Wholes : w \notin Complete(M) =>
                 /\ emitted'[w] = emitted[w]
                 /\ (partial \cup New(M)) \cap w \subseteq partial'
           /\ \A w \in Complete(M) : emitted'[w] = Again(emitted[w]) /\ w \subseteq partial \cup New(M)
<1>1. New(M) \subseteq M /\ M \ New(M) \subseteq seen
  <2>1. \A m \in M \ New(M) : m \in Messages /\ received[m] # 0
    BY DEF New, Published
  <2>2. \A m \in Messages : received[m] # 0 => received[m] > 0
    BY DEF Base, TypeOK, Times
  <2> QED
    BY <2>1, <2>2 DEF Handed, New
<1>2. \A w \in Wholes : w \notin Complete(M) => w \cap UNION Complete(M) = {}
  BY DeliveryAssumption DEF Complete
<1> QED
  BY <1>1, <1>2 DEF ProcessMessages, Complete

\* Processing messages keeps the parts of what is not complete, and emits what is.
LEMMA HandedStep == Base /\ Handed /\ [Next]_vars => Handed'
<1> SUFFICES ASSUME Base, Handed, [Next]_vars PROVE Handed'
  OBVIOUS
<1>1. CASE UNCHANGED handed
  BY <1>1 DEF handed, Handed
<1>2. ASSUME NEW M \in SUBSET Published, ProcessMessages(M) PROVE Handed'
  <2> USE <1>2
  <2>1. ASSUME NEW w \in Wholes, emitted'[w] = 0
        PROVE  w \cap seen' \subseteq partial' /\ ~(w \subseteq seen')
    <3>1. w \notin Complete(M)
      BY <2>1, NewOrSeen DEF Again
    <3>2. emitted[w] = 0
      BY <2>1, <3>1, NewOrSeen
    <3>3. w \cap seen \subseteq partial /\ ~(w \subseteq seen)
      BY <3>2 DEF Handed
    <3>4. w \cap seen' \subseteq partial \cup New(M)
      BY <3>3, NewOrSeen
    <3>5. w \cap seen' \subseteq partial'
      BY <3>1, <3>4, NewOrSeen
    <3>6. ASSUME w \subseteq seen' PROVE FALSE
      <4>1. w \cap New(M) = {}
        BY <3>1, <3>4, <3>6 DEF Complete
      <4> QED
        BY <3>3, <3>6, <4>1, NewOrSeen
    <3> QED
      BY <3>5, <3>6
  <2>2. ASSUME NEW m \in Messages, received'[m] > 0
        PROVE  m \in seen'
    <3>1. received'[m] = received[m] \/ received'[m] = 0 \/ m \in M
      BY NewOrSeen DEF ProcessMessages
    <3> QED
      BY <2>2, <3>1, NewOrSeen DEF Handed
  <2> QED
    BY <2>1, <2>2 DEF Handed
<1> QED
  BY <1>1, <1>2, StepsProcess

\* Handed is an invariant.
LEMMA HandedInvariant == Spec => []Handed
<1>1. Init => Handed
  BY DeliveryAssumption DEF Init, Handed
<1> QED
  BY <1>1, BaseInvariant, HandedStep, PTL DEF Spec

\* A message that comes in parts, live and from the history, in any order and some of them
\* twice, is emitted once all of them are there (broadcaster.ts, _processPartial).
THEOREM PartsAssembled == Spec => []PartsAreAssembled
<1>1. Base /\ Handed => PartsAreAssembled
  BY DEF Handed, PartsAreAssembled, Base, TypeOK
<1> QED
  BY <1>1, BaseInvariant, HandedInvariant, PTL

\* Nothing is forgotten in a session no longer than the memory.
LEMMA RememberedStep ==
    ASSUME Memory >= MaxTime
    PROVE  Base /\ Handed /\ Remembered /\ [Next]_vars => Remembered'
<1> SUFFICES ASSUME Base, Handed, Remembered, [Next]_vars PROVE Remembered'
  OBVIOUS
<1>1. CASE UNCHANGED handed
  BY <1>1 DEF handed, Remembered
<1>2. ASSUME NEW M \in SUBSET Published, ProcessMessages(M) PROVE Remembered'
  <2> USE <1>2
  <2>1. ASSUME NEW m \in Identified \cap seen' PROVE received'[m] > 0
    <3>1. m \in Messages /\ received[m] >= 0 /\ now > 0
      BY DeliveryAssumption DEF Base, TypeOK, Past, Times, Start
    <3>2. ~(received[m] < now - Memory)
      BY <3>1, DeliveryAssumption DEF Base, TypeOK, Times
    <3>3. m \in New(M) \/ received[m] > 0
      BY <2>1, NewOrSeen DEF Remembered
    <3>4. received'[m] = IF m \in New(M) THEN now ELSE received[m]
      BY <2>1, <3>1, <3>2 DEF ProcessMessages
    <3> QED
      BY <3>1, <3>3, <3>4
  <2>2. ASSUME NEW w \in Wholes, w \subseteq Identified, emitted'[w] > 0
        PROVE  w \subseteq seen' /\ emitted'[w] = 1
    <3>1. CASE w \notin Complete(M)
      BY <2>2, <3>1, NewOrSeen DEF Remembered
    <3>2. CASE w \in Complete(M)
      <4>1. w \subseteq seen'
        BY <3>2, NewOrSeen DEF Base, TypeOK
      <4>2. PICK m \in w : m \in New(M)
        BY <3>2 DEF Complete
      <4>3. m \notin seen
        BY <2>2, <4>2 DEF New, Remembered
      <4>4. emitted[w] = 0
        BY <2>2, <4>2, <4>3 DEF Remembered, Base, TypeOK
      <4> QED
        BY <3>2, <4>1, <4>4, NewOrSeen DEF Again
    <3> QED
      BY <3>1, <3>2
  <2> QED
    BY <2>1, <2>2 DEF Remembered
<1> QED
  BY <1>1, <1>2, StepsProcess

\* In a session no longer than the memory of received messages a message with an identity is
\* emitted once, however live delivery and catch-up overlap (broadcaster.ts:323).
THEOREM NoneTwice ==
    ASSUME Memory >= MaxTime
    PROVE  Spec => []NoMessageTwice
<1>1. Init => Remembered
  BY DEF Init, Remembered
<1>2. Base /\ Remembered => NoMessageTwice
  BY DEF Remembered, NoMessageTwice, Base, TypeOK
<1> QED
  BY <1>1, <1>2, BaseInvariant, HandedInvariant, RememberedStep, PTL DEF Spec

--------------------------------------------------------------------------------
(* Nothing is missed. *)

\* Delivered holds at first: nothing is published, and the first cycle is under way.
LEMMA DeliveredInit == Init => Delivered
<1> SUFFICES ASSUME Init PROVE Delivered
  OBVIOUS
<1>1. Unseen = {} /\ CaughtUp
  BY DEF Init, Unseen, Published, CaughtUp
<1>2. \A f \in Fetches : ~Busy(f)
  BY IdleType DEF Init, Busy
<1> QED
  BY <1>1, <1>2 DEF Init, Delivered, Linked

\* Publishing: what is published now is later than all that was asked for.
LEMMA PublishDelivers ==
    ASSUME Base, Delivered, NEW n \in Messages, Publish(n)
    PROVE  Delivered'
<1> USE DEF control, handed
<1>1. now > 0 /\ now \in Nat
  BY DEF Base, TypeOK, Past, Times, Start
<1>2. /\ at' \in [Messages -> Times] /\ at'[n] = now
      /\ \A m \in Messages : m # n => at'[m] = at[m]
  BY <1>1 DEF Publish, Base, TypeOK
<1>3. Published' = Published \cup {n} /\ n \notin Published
  BY <1>1, <1>2 DEF Publish, Published
<1>4. UNCHANGED <<now, link, downSince, noticed, pending, last, connLost, fetches, over, received,
                  partial, emitted, seen>>
  BY DEF Publish
<1>5. n \notin seen /\ Unseen' = Unseen \cup {n}
  BY <1>3, <1>4 DEF Unseen, Base, TypeOK
<1>6. flight \subseteq flight' /\ (link # "never" => n \in flight')
  BY DEF Publish
<1>7. ASSUME ~pending' \/ LostShortly' PROVE CaughtUp'
  <2>1. link # "never" /\ CaughtUp
    BY <1>4, <1>7 DEF Delivered, Linked, LostShortly, Base, TypeOK, Times
  <2> QED
    BY <2>1, <1>3, <1>4, <1>6 DEF CaughtUp
<1>8. Since <= now
  BY DeliveryAssumption DEF Since, Start, Base, TypeOK, Past, Times
<1>9. ASSUME NEW f \in Fetches, Busy(f)' PROVE (InTime(f) /\ Fetched(f))'
  <2>1. Busy(f) /\ InTime(f) /\ Fetched(f) /\ link # "never"
    BY <1>4, <1>9 DEF Busy, Delivered, Linked
  <2>2. fetches[f].got \subseteq Published /\ fetches[f].began <= now /\ fetches[f] \in FetchStates
    BY DEF Base, TypeOK, Past
  <2>3. \A g \in fetches[f].got : at'[g] = at[g] /\ at[g] <= now
    BY <2>2, <1>2, <1>3 DEF Base, Past, Published
  <2>4. fetches[f].since <= now
    <3>1. fetches[f].since <= fetches[f].began
      BY <2>1 DEF InTime
    <3> QED
      BY <2>2, <3>1 DEF FetchStates, Base, TypeOK, Times
  <2> QED
    BY <2>1, <2>2, <2>3, <2>4, <1>2, <1>3, <1>4, <1>5, <1>6, <1>1 DEF InTime, Fetched, Unseen, Published
<1> QED
  BY <1>2, <1>3, <1>4, <1>5, <1>7, <1>8, <1>9 DEF Delivered, Linked, Since, Unseen, Published, Busy

\* A message that arrives: the watermark moves to it only if all others that are missing are on
\* their way too, and those were published at most Buffer before it.
LEMMA MessageDelivers ==
    ASSUME Base, Delivered, NEW n \in Messages, OnMessage(n)
    PROVE  Delivered'
<1>1. UNCHANGED <<now, link, downSince, noticed, at, pending, connLost, fetches, over>>
  BY DEF OnMessage
<1>2. Published' = Published /\ n \in Published /\ Unseen' = Unseen \ {n} /\ flight' = flight \ {n}
  BY <1>1 DEF OnMessage, ProcessMessages, Published, Unseen, Base, TypeOK
<1>3. CaughtUp => CaughtUp'
  BY <1>2 DEF CaughtUp, OnMessage, ProcessMessages
<1>4. \A m \in Unseen' : at[m] >= Since'
  <2> TAKE m \in Unseen'
  <2>1. m \in Unseen /\ at[m] \in Nat /\ at[n] \in Nat /\ at[n] > 0 /\ last \in Nat
    BY <1>2 DEF Unseen, Published, Base, TypeOK, Times
  <2>2. CASE last' = last
    BY <2>1, <2>2 DEF Delivered, Since
  <2>3. CASE last' # last
    <3>1. ~pending /\ last' = at[n]
      BY <2>3 DEF OnMessage, Watermark
    <3>2. m \in flight
      BY <2>1, <3>1 DEF Delivered, CaughtUp, Unseen
    <3>3. at[m] + Buffer >= at[n]
      BY <3>2 DEF OnMessage
    <3> QED
      BY <2>1, <3>1, <3>3, DeliveryAssumption DEF Since
  <2> QED
    BY <2>2, <2>3
<1>5. ASSUME NEW f \in Fetches, Busy(f) PROVE InTime(f)' /\ Fetched(f)'
  <2>1. InTime(f) /\ Fetched(f)
    BY <1>5 DEF Delivered
  <2> QED
    BY <1>1, <1>2, <2>1 DEF InTime, Fetched
<1> QED
  BY <1>1, <1>3, <1>4, <1>5 DEF Delivered, Linked, Busy, LostShortly

\* Coming up for the first time, or going down, the link loses nothing.
LEMMA LinkChangeDelivers ==
    ASSUME Base, Delivered, Attach \/ LinkDown
    PROVE  Delivered'
<1>1. UNCHANGED <<now, at, flight, pending, last, connLost, fetches, over, seen>>
  BY DEF Attach, LinkDown, control, handed
<1>2. UNCHANGED <<Published, Unseen, CaughtUp, Since, LostShortly>>
  BY <1>1 DEF Published, Unseen, CaughtUp, Since, LostShortly
<1>3. Linked'
  <2>1. CASE Attach
    <3>1. link = "never" /\ link' = "up" /\ noticed' = noticed
      BY <2>1 DEF Attach
    <3> QED
      BY <3>1 DEF Delivered, Linked
  <2>2. CASE LinkDown
    <3>1. link' = "down" /\ downSince' = now /\ noticed' = FALSE
      BY <2>2 DEF LinkDown
    <3>2. now <= now + NoticeWithin
      BY DeliveryAssumption DEF Base, TypeOK, Times
    <3> QED
      BY <1>1, <3>1, <3>2 DEF Linked
  <2> QED
    BY <2>1, <2>2
<1>4. ASSUME NEW f \in Fetches, Busy(f) PROVE InTime(f)' /\ Fetched(f)'
  <2>1. InTime(f) /\ Fetched(f) /\ fetches[f].began <= now
    BY <1>4 DEF Delivered, Base, Past
  <2>2. link' = "down" => downSince' = now
    BY DEF Attach, LinkDown
  <2> QED
    BY <1>1, <1>2, <2>1, <2>2 DEF InTime, Fetched
<1> QED
  BY <1>1, <1>2, <1>3, <1>4 DEF Delivered, Busy

\* The link comes up again: the transport has reported that it was down, and if messages are lost
\* it was so long ago that no fetch is under way and that the loss does not pass for short.
LEMMA LinkUpDelivers ==
    ASSUME Timely, Base, Delivered, LinkUp
    PROVE  Delivered'
<1>1. UNCHANGED <<now, at, pending, last, connLost, fetches, over, seen>>
  BY DEF LinkUp, control, handed
<1>2. UNCHANGED <<Published, Unseen, Since, LostShortly>>
  BY <1>1 DEF Published, Unseen, Since, LostShortly
<1>3. link = "down" /\ noticed /\ link' = "up" /\ noticed' = FALSE
  BY DEF LinkUp, Timely
<1>4. Linked'
  BY <1>3 DEF Linked
<1>5. pending
  BY <1>3 DEF Delivered, Linked
<1>6. now \in Nat /\ downSince \in Nat /\ connLost \in Nat /\ connLost <= downSince + NoticeWithin
  BY <1>3 DEF Delivered, Linked, Base, TypeOK, Times
<1>7. {SdkWindow, ShortLoss, NoticeWithin, FetchTimeout} \subseteq Nat
  BY DeliveryAssumption
<1>8. CASE now - downSince <= SdkWindow
  <2>1. flight' = flight
    BY <1>8 DEF LinkUp
  <2> QED
    BY <1>1, <1>2, <1>3, <1>4, <2>1 DEF Delivered, Busy, InTime, Fetched, CaughtUp
<1>9. CASE ~(now - downSince <= SdkWindow)
  <2>1. ~LostShortly
    BY <1>6, <1>7, <1>9 DEF LostShortly, Timely
  <2>2. ASSUME NEW f \in Fetches, Busy(f) PROVE FALSE
    <3>1. InTime(f) /\ fetches[f].began \in Nat
      BY <2>2 DEF Delivered, Base, TypeOK, FetchStates, Times
    <3> QED
      BY <1>3, <1>6, <1>7, <1>9, <3>1 DEF InTime, Timely
  <2> QED
    BY <1>1, <1>2, <1>4, <1>5, <2>1, <2>2 DEF Delivered, Busy
<1> QED
  BY <1>8, <1>9

\* Time passes within the limits, and what passes for short now did so before.
LEMMA TickDelivers ==
    ASSUME Timely, Base, Delivered, Tick
    PROVE  Delivered'
<1>1. UNCHANGED <<link, downSince, noticed, at, flight, pending, last, connLost, fetches, over, seen>>
  BY DEF Tick, transport, control, handed
<1>2. UNCHANGED <<Published, Unseen, CaughtUp, Since>>
  BY <1>1 DEF Published, Unseen, CaughtUp, Since
<1>3. now \in Nat /\ now' = now + 1 /\ downSince \in Nat /\ connLost \in Nat
  BY DEF Tick, Base, TypeOK, Times
<1>4. {ShortLoss, NoticeWithin, FetchTimeout} \subseteq Nat
  BY DeliveryAssumption
<1>5. Linked'
  <2>1. link = "down" /\ ~noticed => now + 1 <= downSince + NoticeWithin
    BY <1>3, <1>4 DEF Tick, Timely
  <2> QED
    BY <1>1, <1>3, <2>1 DEF Delivered, Linked, Busy
<1>6. LostShortly' => LostShortly
  BY <1>1, <1>3, <1>4 DEF LostShortly
<1>7. ASSUME NEW f \in Fetches, Busy(f) PROVE InTime(f)' /\ Fetched(f)'
  <2>1. InTime(f) /\ Fetched(f) /\ fetches[f].began \in Nat
    BY <1>7 DEF Delivered, Base, TypeOK, FetchStates, Times
  <2>2. now + 1 <= fetches[f].began + FetchTimeout
    BY <1>3, <1>4, <1>7, <2>1 DEF Tick, Busy
  <2> QED
    BY <1>1, <1>2, <1>3, <2>1, <2>2 DEF InTime, Fetched
<1> QED
  BY <1>1, <1>2, <1>5, <1>6, <1>7 DEF Delivered, Busy

\* A network hiccup opens a cycle: a connection that counts as lost from now on has missed nothing.
LEMMA HiccupDelivers ==
    ASSUME Base, Delivered, OnNetHiccup
    PROVE  Delivered'
<1>1. UNCHANGED <<now, link, downSince, at, flight, last, fetches, over, seen>>
  BY DEF OnNetHiccup, handed
<1>2. UNCHANGED <<Published, Unseen, CaughtUp, Since>>
  BY <1>1 DEF Published, Unseen, CaughtUp, Since
<1>3. pending' = TRUE /\ (pending => connLost' = connLost) /\ connLost' \in {now, connLost}
  BY DEF OnNetHiccup, Base, TypeOK
<1>4. Linked'
  <2>1. connLost' <= now
    BY <1>3 DEF Base, TypeOK, Past, Times
  <2>2. ASSUME link = "down" PROVE connLost' <= downSince + NoticeWithin
    <3>1. CASE noticed
      BY <1>3, <3>1 DEF Delivered, Linked
    <3>2. CASE ~noticed
      <4>1. now <= downSince + NoticeWithin
        BY <2>2, <3>2 DEF Delivered, Linked
      <4>2. now \in Nat /\ downSince \in Nat /\ NoticeWithin \in Nat /\ connLost' \in Nat
        BY <1>3, DeliveryAssumption DEF Base, TypeOK, Times
      <4> QED
        BY <2>1, <4>1, <4>2
    <3> QED
      BY <3>1, <3>2
  <2>3. noticed' <=> link = "down"
    BY DEF OnNetHiccup
  <2>4. link = "never" => connLost' = 0
    BY <1>3 DEF Delivered, Linked
  <2> QED
    BY <1>1, <1>3, <2>2, <2>3, <2>4 DEF Delivered, Linked, Busy
<1>5. LostShortly' => CaughtUp
  <2>1. CASE pending
    BY <1>1, <1>3, <2>1 DEF Delivered, LostShortly
  <2>2. CASE ~pending
    BY <2>2 DEF Delivered
  <2> QED
    BY <2>1, <2>2
<1> QED
  BY <1>1, <1>2, <1>3, <1>4, <1>5 DEF Delivered, Busy, InTime, Fetched

\* Connected: only a short loss, that has missed nothing, does without asking the history, and the
\* history is asked for everything that is missing.
LEMMA ConnectedDelivers ==
    ASSUME Base, Delivered, OnConnected
    PROVE  Delivered'
<1>1. UNCHANGED <<now, link, downSince, noticed, at, flight, received, partial, emitted, seen>>
  BY DEF OnConnected, transport, handed
<1>2. UNCHANGED <<Published, Unseen, CaughtUp>>
  BY <1>1 DEF Published, Unseen, CaughtUp
<1>3. link = "up" /\ ~noticed
  BY DEF OnConnected, Delivered, Linked
<1>4. Linked'
  BY <1>1, <1>3 DEF Linked
<1>5. CASE SkipHistory
  <2>1. CaughtUp /\ connLost' = 0 /\ pending' = FALSE /\ last' = last /\ fetches' = fetches
    BY <1>5 DEF SkipHistory, Delivered
  <2> QED
    BY <1>1, <1>2, <1>4, <2>1 DEF Delivered, Busy, InTime, Fetched, Since
<1>6. CASE ForceReset
  BY <1>1, <1>2, <1>4, <1>6 DEF ForceReset, Delivered, Busy, InTime, Fetched, Since, LostShortly
<1>7. CASE AskHistory
  <2>1. PICK f \in Fetches : fetches' = [fetches EXCEPT ![f] =
                                [status |-> "asked", since |-> Since, began |-> now, got |-> {}]]
    BY <1>7 DEF AskHistory
  <2>2. UNCHANGED <<pending, last, connLost, Since, LostShortly>>
    BY <1>1, <1>7 DEF AskHistory, Since, LostShortly
  <2>3. ASSUME NEW g \in Fetches, Busy(g)' PROVE InTime(g)' /\ Fetched(g)'
    <3>1. CASE g = f
      <4>1. fetches'[f] = [status |-> "asked", since |-> Since, began |-> now, got |-> {}]
        BY <2>1 DEF Base, TypeOK
      <4>2. now <= now + FetchTimeout /\ Since <= now /\ now <= Since + CatchupLimit
        <5>1. now \in Nat /\ last \in Nat /\ last <= now /\ now >= 1
              /\ {Buffer, Lead, FetchTimeout, CatchupLimit} \subseteq Nat
          BY DeliveryAssumption DEF Base, TypeOK, Past, Times, Start
        <5>2. now - Since <= CatchupLimit
          BY <1>7 DEF AskHistory
        <5> QED
          BY <5>1, <5>2 DEF Since, Start
      <4>3. InTime(f)'
        BY <1>1, <1>3, <4>1, <4>2 DEF InTime
      <4>4. Fetched(f)'
        BY <1>1, <1>2, <4>1 DEF Fetched, Delivered
      <4> QED
        BY <3>1, <4>3, <4>4
    <3>2. CASE g # f
      <4>1. fetches'[g] = fetches[g]
        BY <2>1, <3>2 DEF Base, TypeOK
      <4> QED
        BY <1>1, <1>2, <2>3, <4>1 DEF Delivered, Busy, InTime, Fetched
    <3> QED
      BY <3>1, <3>2
  <2> QED
    BY <1>1, <1>2, <1>4, <2>2, <2>3 DEF Delivered
<1> QED
  BY <1>5, <1>6, <1>7 DEF OnConnected

\* A fetch that is not under way any more leaves the others as they were.
LEMMA OthersFetch ==
    ASSUME Base, Delivered, NEW f \in Fetches, fetches' = [fetches EXCEPT ![f] = Idle],
           UNCHANGED <<now, link, downSince, at, flight>>, seen \subseteq seen',
           NEW g \in Fetches, Busy(g)'
    PROVE  InTime(g)' /\ Fetched(g)'
<1>1. g # f /\ fetches'[g] = fetches[g]
  BY IdleType DEF Base, TypeOK, Busy
<1>2. Unseen' \subseteq Unseen
  BY DEF Unseen, Published
<1> QED
  BY <1>1, <1>2 DEF Delivered, Busy, InTime, Fetched

\* The answer has everything that is missing: the history still has what was asked for.
LEMMA AnswerDelivers ==
    ASSUME Timely, Base, Delivered, NEW f \in Fetches, HistoryAnswers(f)
    PROVE  Delivered'
<1> DEFINE M == {m \in Published : at[m] >= fetches[f].since /\ at[m] + Retention >= now}
<1>1. UNCHANGED <<now, link, downSince, noticed, at, flight, pending, last, connLost, over, received,
                  partial, emitted, seen>>
  BY DEF HistoryAnswers, transport, handed
<1>2. UNCHANGED <<Published, Unseen, CaughtUp, Since, LostShortly>>
  BY <1>1 DEF Published, Unseen, CaughtUp, Since, LostShortly
<1>3. link = "up" /\ Busy(f)
  BY DEF HistoryAnswers, Busy
<1>4. InTime(f) /\ Fetched(f)
  BY <1>3 DEF Delivered
<1>5. fetches' = [fetches EXCEPT ![f] = [fetches[f] EXCEPT !.status = "answered", !.got = M]]
  BY DEF HistoryAnswers, Base, TypeOK
<1>6. /\ fetches'[f].status = "answered" /\ fetches'[f].got = M
      /\ fetches'[f].since = fetches[f].since /\ fetches'[f].began = fetches[f].began
      /\ \A g \in Fetches : g # f => fetches'[g] = fetches[g]
  <2> HIDE DEF M
  <2> QED
    BY <1>5 DEF Base, TypeOK, FetchStates
<1>7. Unseen \subseteq M
  <2> SUFFICES ASSUME NEW m \in Unseen PROVE at[m] >= fetches[f].since /\ at[m] + Retention >= now
    BY DEF Unseen
  <2>1. at[m] >= fetches[f].since
    BY <1>4 DEF Fetched
  <2>2. /\ now \in Nat /\ at[m] \in Nat /\ fetches[f].since \in Int /\ fetches[f].began \in Nat
        /\ {Buffer, Lead, FetchTimeout, CatchupLimit, Retention} \subseteq Nat
    BY DeliveryAssumption DEF Base, TypeOK, FetchStates, Times, Unseen, Published
  <2>3. now <= fetches[f].began + FetchTimeout /\ fetches[f].began <= fetches[f].since + CatchupLimit
    BY <1>4 DEF InTime
  <2> QED
    BY <2>1, <2>2, <2>3 DEF Timely
<1>8. ASSUME NEW g \in Fetches, Busy(g)' PROVE InTime(g)' /\ Fetched(g)'
  <2>1. CASE g = f
    <3>1. InTime(f)'
      BY <1>1, <1>4, <1>6 DEF InTime
    <3>2. \A m \in Unseen' : at'[m] >= fetches'[f].since
      BY <1>1, <1>2, <1>4, <1>6 DEF Fetched
    <3>3. Unseen' \ fetches'[f].got = {}
      BY <1>2, <1>6, <1>7
    <3> QED
      BY <2>1, <3>1, <3>2, <3>3 DEF Fetched
  <2>2. CASE g # f
    BY <1>1, <1>2, <1>6, <1>8, <2>2 DEF Delivered, Busy, InTime, Fetched
  <2> QED
    BY <2>1, <2>2
<1>9. Linked'
  BY <1>1, <1>3 DEF Delivered, Linked
<1> QED
  BY <1>1, <1>2, <1>8, <1>9 DEF Delivered

\* catchUp() resumes: all that is still missing is on its way and not older than what the answer had,
\* so that neither the watermark nor the end of the cycle passes anything over.
LEMMA ResumeDelivers ==
    ASSUME Base, Delivered, NEW f \in Fetches, FetchResumes(f)
    PROVE  Delivered' /\ CaughtUp'
<1> DEFINE M == fetches[f].got
<1>1. UNCHANGED <<now, link, downSince, noticed, at, flight, connLost, over>>
  BY DEF FetchResumes, transport
<1>2. M \subseteq Published /\ seen' = seen \cup M
  BY DEF FetchResumes, ProcessMessages, Base, Past
<1>3. Published' = Published /\ Unseen' = Unseen \ M
  BY <1>1, <1>2 DEF Unseen, Published
<1>4. fetches[f].status = "answered" /\ link = "up" /\ pending' = FALSE /\ fetches' = [fetches EXCEPT ![f] = Idle]
  BY DEF FetchResumes
<1>5. Fetched(f)
  BY <1>4 DEF Delivered, Busy
<1>6. \A m \in Unseen' : m \in flight /\ \A g \in M : at[g] <= at[m]
  BY <1>3, <1>4, <1>5 DEF Fetched
<1>7. CaughtUp'
  BY <1>1, <1>3, <1>6 DEF CaughtUp, Unseen
<1>8. \A m \in Unseen' : at'[m] >= Since'
  <2> SUFFICES ASSUME NEW m \in Unseen' PROVE at[m] >= Since'
    BY <1>1
  <2>1. m \in Unseen /\ at[m] \in Nat
    BY <1>3 DEF Unseen, Published, Base, TypeOK, Times
  <2>2. CASE M = {}
    <3>1. last' = last
      BY <2>2 DEF FetchResumes
    <3> QED
      BY <2>1, <3>1 DEF Delivered, Since
  <2>3. CASE M # {}
    <3> DEFINE S == {at[g] : g \in M}
    <3>1. S \in SUBSET (0..MaxTime) /\ S # {}
      BY <1>2, <2>3 DEF Base, TypeOK, Published, Times
    <3>2. \A t \in S : 0 < t /\ t <= at[m] /\ t \in Nat
      BY <1>2, <1>6 DEF Base, TypeOK, Published, Times
    <3>3. last' = Max(S)
      BY <2>3 DEF FetchResumes
    <3> HIDE DEF S
    <3>4. Max(S) \in S
      BY <3>1, MaxIsLast, DeliveryAssumption
    <3>5. Since' = last' - Buffer /\ last' <= at[m] /\ last' \in Nat
      BY <3>2, <3>3, <3>4 DEF Since
    <3>6. Buffer \in Nat
      BY DeliveryAssumption
    <3> QED
      BY <2>1, <3>5, <3>6
  <2> QED
    BY <2>2, <2>3
<1>9. \A g \in Fetches : Busy(g)' => InTime(g)' /\ Fetched(g)'
  BY <1>1, <1>2, <1>4, OthersFetch
<1>10. Linked'
  BY <1>1, <1>4 DEF Delivered, Linked
<1> QED
  BY <1>7, <1>8, <1>9, <1>10 DEF Delivered

\* A fetch that brings too much or fails changes nothing else but to keep the cycle open.
LEMMA FetchEndDelivers ==
    ASSUME Base, Delivered, NEW f \in Fetches, FetchOverflows(f) \/ FetchFails(f)
    PROVE  Delivered'
<1>1. /\ UNCHANGED <<now, link, downSince, noticed, at, flight, last, connLost, seen>>
      /\ fetches' = [fetches EXCEPT ![f] = Idle] /\ (~pending' => ~pending)
  BY DEF FetchOverflows, FetchFails, transport, handed
<1>2. UNCHANGED <<Published, Unseen, CaughtUp, Since, LostShortly>>
  BY <1>1 DEF Published, Unseen, CaughtUp, Since, LostShortly
<1>3. \A g \in Fetches : Busy(g)' => Busy(g) /\ InTime(g)' /\ Fetched(g)'
  <2> TAKE g \in Fetches
  <2>1. Busy(g)' => Busy(g)
    BY <1>1, IdleType DEF Busy, Base, TypeOK
  <2>2. Busy(g)' => InTime(g)' /\ Fetched(g)'
    BY <1>1, OthersFetch
  <2> QED
    BY <2>1, <2>2
<1>4. pending => pending'
  BY <1>1 DEF FetchOverflows, FetchFails
<1>5. Linked'
  BY <1>1, <1>3, <1>4 DEF Delivered, Linked
<1> QED
  BY <1>1, <1>2, <1>3, <1>4, <1>5 DEF Delivered

\* Over a Timely transport every step keeps Delivered.
LEMMA DeliveredStep ==
    ASSUME Timely
    PROVE  Base /\ Delivered /\ [Next]_vars => Delivered'
<1> SUFFICES ASSUME Base, Delivered, [Next]_vars PROVE Delivered'
  OBVIOUS
<1>1. CASE UNCHANGED vars
  BY <1>1 DEF vars, transport, control, handed, Delivered, Linked, Busy, InTime, Fetched, Unseen, Published,
              Since, LostShortly, CaughtUp
<1>2. ASSUME NEW m \in Messages, Publish(m) \/ OnMessage(m) PROVE Delivered'
  BY <1>2, PublishDelivers, MessageDelivers
<1>3. ASSUME NEW f \in Fetches, HistoryAnswers(f) \/ FetchResumes(f) \/ FetchOverflows(f) \/ FetchFails(f)
      PROVE  Delivered'
  BY <1>3, AnswerDelivers, ResumeDelivers, FetchEndDelivers
<1> QED
  BY <1>1, <1>2, <1>3, LinkChangeDelivers, LinkUpDelivers, TickDelivers, HiccupDelivers, ConnectedDelivers
     DEF Next

\* Over a Timely transport Delivered is an invariant.
LEMMA DeliveredInvariant ==
    ASSUME Timely
    PROVE  Spec => []Delivered
BY DeliveredInit, BaseInvariant, DeliveredStep, PTL DEF Spec

\* However interruptions, late reports, fetches and live messages overlap, the watermark never
\* passes a message that was missed: the next catch-up will ask for it (broadcaster.ts, catchUp).
THEOREM NothingSlips ==
    ASSUME Timely
    PROVE  Spec => []NothingSlipsThrough
<1>1. Delivered => NothingSlipsThrough
  BY DEF Delivered, NothingSlipsThrough, Unseen
<1> QED
  BY <1>1, DeliveredInvariant, PTL

\* Whoever is told Connected has missed nothing: with the link up and no cycle under way every
\* message published has been processed or is on its way (broadcaster.ts, subscribed).
THEOREM SettledCaughtUp ==
    ASSUME Timely
    PROVE  Spec => []SettledIsCaughtUp
<1>1. Delivered => SettledIsCaughtUp
  BY DEF Delivered, SettledIsCaughtUp, CaughtUp
<1> QED
  BY <1>1, DeliveredInvariant, PTL

\* A cycle ends by a short loss that has missed nothing, or by an answer that has it all.
LEMMA CycleEnd ==
    ASSUME Base, Delivered, [Next]_vars, pending, ~pending'
    PROVE  Published \subseteq seen' \cup flight
<1>1. CASE OnConnected
  <2>1. SkipHistory /\ seen' = seen
    BY <1>1 DEF OnConnected, ForceReset, AskHistory, handed
  <2> QED
    BY <2>1 DEF SkipHistory, Delivered, CaughtUp
<1>2. ASSUME NEW f \in Fetches, FetchResumes(f) PROVE Published \subseteq seen' \cup flight
  BY <1>2, ResumeDelivers DEF CaughtUp, FetchResumes, transport, Published
<1> QED
  BY <1>1, <1>2 DEF Next, vars, Publish, OnMessage, Attach, LinkDown, LinkUp, Tick, OnNetHiccup,
                    HistoryAnswers, FetchOverflows, FetchFails, control

\* Over a Timely transport a cycle that a network hiccup has started ends only when what was
\* published meanwhile has been caught up with (broadcaster.ts:304); what a run shows of a
\* transport that reports an interruption when the link is up again cannot happen here.
THEOREM CyclesCatchUp ==
    ASSUME Timely
    PROVE  Spec => CycleEndsCaughtUp
<1>1. Base /\ Delivered /\ [Next]_vars
        => [pending /\ ~pending' => Published \subseteq seen' \cup flight]_vars
  BY CycleEnd
<1> QED
  BY <1>1, BaseInvariant, DeliveredInvariant, PTL DEF Spec, CycleEndsCaughtUp

--------------------------------------------------------------------------------
(* The Broadcaster is a feed that tells the truth about itself. *)

\* What the feed says of itself.
UpToDate == link = "up" /\ ~pending

\* At first nothing is published and the feed is not up to date.
LEMMA FeedInit == Init => Contract!Init
BY DEF Init, Contract!Init, Published

\* What the transport and the history service do: publish, lose what is on its way while the feed
\* is not up to date, or nothing a client would notice.
LEMMA TransportIsFeed ==
    ASSUME Timely, Base, Delivered,
           \/ \E m \in Messages : Publish(m)
           \/ Attach \/ LinkDown \/ LinkUp \/ Tick
           \/ \E f \in Fetches : HistoryAnswers(f)
    PROVE  [Contract!Next]_(Contract!vars)
<1>1. ASSUME NEW m \in Messages, Publish(m) PROVE Contract!Publish
  <2>1. Published' = Published \cup {m} /\ m \notin Published
    <3>1. now > 0 /\ at' = [at EXCEPT ![m] = now] /\ at[m] = 0
      BY <1>1 DEF Base, Past, Start, TypeOK, Times, Publish
    <3> QED
      BY <3>1 DEF Published, Base, TypeOK
  <2>2. UNCHANGED <<seen, link, pending>>
    BY <1>1 DEF Publish, control, handed
  <2>3. flight' = flight \cup {m} \/ (~UpToDate /\ flight' = flight)
    BY <1>1 DEF Publish, UpToDate
  <2> QED
    BY <2>1, <2>2, <2>3 DEF Contract!Publish, UpToDate
<1>2. CASE LinkDown \/ LinkUp
  <2>1. UNCHANGED <<Published, seen>> /\ flight' \subseteq flight
    BY <1>2 DEF LinkDown, LinkUp, handed, Published
  <2>2. ~UpToDate'
    BY <1>2 DEF LinkDown, LinkUp, control, UpToDate, Delivered, Linked, Timely
  <2>3. flight' = flight \ (flight \ flight')
    BY <2>1
  <2> QED
    BY <2>1, <2>2, <2>3 DEF Contract!Trouble, Contract!Next, UpToDate
<1>3. ASSUME Attach \/ Tick \/ \E f \in Fetches : HistoryAnswers(f) PROVE UNCHANGED Contract!vars
  <2>1. UNCHANGED <<Published, seen, flight, pending>>
    BY <1>3 DEF Attach, Tick, HistoryAnswers, transport, control, handed, Published
  <2>2. link' = link \/ pending
    BY <1>3 DEF Attach, Tick, HistoryAnswers, transport, Delivered, Linked
  <2>3. UpToDate' <=> UpToDate
    BY <2>1, <2>2 DEF UpToDate
  <2> QED
    BY <2>1, <2>3 DEF Contract!vars, UpToDate
<1> QED
  BY <1>1, <1>2, <1>3 DEF Contract!Next

\* What the Broadcaster does: hand over messages, admit trouble, or call itself up to date when it is.
LEMMA BroadcasterIsFeed ==
    ASSUME Timely, Base, Delivered,
           \/ \E m \in Messages : OnMessage(m)
           \/ OnNetHiccup \/ OnConnected
           \/ \E f \in Fetches : FetchResumes(f) \/ FetchOverflows(f) \/ FetchFails(f)
    PROVE  [Contract!Next]_(Contract!vars)
<1>1. ASSUME NEW m \in Messages, OnMessage(m) PROVE Contract!Give
  <2>1. {m} \in SUBSET Published /\ Published' = Published
    BY <1>1 DEF OnMessage, Base, TypeOK, Published
  <2>2. seen' = seen \cup {m} /\ flight' = flight \ {m} /\ UNCHANGED <<link, pending>>
    BY <1>1 DEF OnMessage, ProcessMessages
  <2> QED
    BY <2>1, <2>2 DEF Contract!Give
<1>2. ASSUME NEW f \in Fetches, FetchResumes(f) PROVE Contract!Give
  <2>1. fetches[f].got \in SUBSET Published /\ UNCHANGED <<Published, flight>>
    BY <1>2 DEF FetchResumes, transport, Base, Past, Published
  <2>2. seen' = seen \cup fetches[f].got
    BY <1>2 DEF FetchResumes, ProcessMessages
  <2>3. Published \subseteq seen' \cup flight'
    BY <1>2, <2>1, ResumeDelivers DEF CaughtUp
  <2> QED
    BY <2>1, <2>2, <2>3 DEF Contract!Give
<1>3. ASSUME OnNetHiccup \/ \E f \in Fetches : FetchFails(f) PROVE Contract!Trouble
  <2>1. UNCHANGED <<Published, seen, flight>>
    BY <1>3 DEF OnNetHiccup, FetchFails, transport, handed, Published
  <2>2. pending'
    BY <1>3 DEF OnNetHiccup, FetchFails
  <2>3. flight' = flight \ {}
    BY <2>1
  <2> QED
    BY <2>1, <2>2, <2>3 DEF Contract!Trouble
<1>4. CASE OnConnected
  <2>1. UNCHANGED <<Published, seen, flight, link>>
    BY <1>4 DEF OnConnected, transport, handed, Published
  <2>2. ASSUME SkipHistory PROVE Contract!Settle
    <3>1. CaughtUp /\ UpToDate'
      BY <1>4, <2>2 DEF OnConnected, SkipHistory, transport, Delivered, UpToDate
    <3> QED
      BY <2>1, <3>1 DEF Contract!Settle, CaughtUp, UpToDate
  <2>3. ASSUME ForceReset \/ AskHistory PROVE UNCHANGED Contract!vars
    <3>1. pending' = pending
      BY <2>3 DEF ForceReset, AskHistory
    <3> QED
      BY <2>1, <3>1 DEF Contract!vars
  <2> QED
    BY <1>4, <2>2, <2>3 DEF OnConnected, Contract!Next
<1>5. ASSUME NEW f \in Fetches, FetchOverflows(f) PROVE UNCHANGED Contract!vars
  BY <1>5 DEF FetchOverflows, transport, handed, Published, Contract!vars
<1> QED
  BY <1>1, <1>2, <1>3, <1>4, <1>5 DEF Contract!Next

\* A step of the Broadcaster or of its environment is a step of the feed, or changes nothing of it.
LEMMA FeedStep ==
    ASSUME Timely
    PROVE  Base /\ Delivered /\ [Next]_vars => [Contract!Next]_(Contract!vars)
<1> SUFFICES ASSUME Base, Delivered, [Next]_vars PROVE [Contract!Next]_(Contract!vars)
  OBVIOUS
<1>1. CASE UNCHANGED vars
  BY <1>1 DEF vars, transport, control, handed, Published, Contract!vars
<1>2. CASE Next
  BY <1>2, TransportIsFeed, BroadcasterIsFeed DEF Next
<1> QED
  BY <1>1, <1>2

\* Over a Timely transport the Broadcaster implements the feed: it loses messages only while it does
\* not call itself up to date, and calls itself so again only when nothing is missing.
THEOREM FeedImplemented ==
    ASSUME Timely
    PROVE  Spec => ImplementsFeed
BY FeedInit, BaseInvariant, DeliveredInvariant, FeedStep, PTL DEF Spec, ImplementsFeed, Contract!Spec

===============================================================================
