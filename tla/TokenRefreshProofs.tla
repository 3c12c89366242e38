-------------------------- MODULE TokenRefreshProofs ---------------------------
(***************************************************************************)
(* Proofs about TokenRefresh, for every set of requests and every bound:   *)
(* no waiter is left behind, no call is retried more often than fetchCore()*)
(* allows, the client is told the status that the session has; and what the*)
(* tokens promise: a request that waited for a refresh goes on with a newer*)
(* token (Newer), one expiry is hidden from the requests (Hidden), and one *)
(* request at a time never has the session declared expired (Ordered).     *)
(*                                                                         *)
(* WaitersAreServed is nearly inductive.  What it lacks is that the lock   *)
(* is only ever taken by a request: the refresh itself has no interceptor, *)
(* so it is never seen reading a body (Shape).                             *)
(*                                                                         *)
(* Basics adds that the tokens in use have been issued, and that a call    *)
(* has the answer its progress speaks of.                                  *)
(*                                                                         *)
(* That the client is told the status the session has once nothing is      *)
(* debounced any more (ClientKnows) is inductive with what the last timer  *)
(* says (LastSays): it is of that status, and will tell it, or it was told *)
(* already and no other timer will tell anything.                          *)
(*                                                                         *)
(* Newer says that nothing is refreshed before something has expired: the  *)
(* tokens must expire a second time for what a refresh brings to be refused.*)
(* Hidden counts, in this way, the expiries behind each attempt that follows*)
(* a refresh.  Ordered follows the one refresh that a single expiry can    *)
(* bring about, before it (Early) and after it (Late).                     *)
(***************************************************************************)
EXTENDS TokenRefresh, SequenceTheorems, TLAPS

Pcs == {"idle", "sending", "answered", "reading", "lockWait", "refreshWait",
        "loopWait", "retry", "aborted", "ended"}
Resps == {"none", "ok", "expired", "refused", "error", "lost"}
WaitPcs == {"lockWait", "refreshWait", "loopWait"}

Rec == [pc : Pcs, token : Nat, refresh : Nat, using : Nat, count : 0..MaxRetries,
        tried : BOOLEAN, looped : BOOLEAN, resp : Resps]

Shape ==
    /\ issued \in Nat /\ holder \in Nat /\ broadcast \subseteq Nat
    /\ call \in [Calls -> Rec]
    /\ lock \in Requests \cup {None}
    /\ call[Put].pc # "reading"

RetriesAreBounded == \A c \in Calls : call[c].count <= MaxRetries

IInv == Shape /\ WaitersAreServed

--------------------------------------------------------------------------------
(* The records of the calls. *)

\* A call that has not started is a record like the others.
LEMMA NoCallType == NoCall \in Rec /\ NoCall.pc = "idle"
BY TokenRefreshAssumption DEF NoCall, Rec, Pcs, Resps

\* A further attempt of fetchCore() keeps the shape of the record.
LEMMA AttemptType ==
    ASSUME NEW rec \in Rec
    PROVE  Attempt(rec) \in Rec /\ Attempt(rec).pc = "sending"
BY DEF Attempt, Rec, Pcs, Resps

\* So does one that is counted, if there is one left.
LEMMA AgainType ==
    ASSUME NEW rec \in Rec, rec.count < MaxRetries, NEW t \in BOOLEAN
    PROVE  Again(rec, t) \in Rec /\ Again(rec, t).pc = "sending"
<1>1. rec.count + 1 \in 0..MaxRetries
  BY TokenRefreshAssumption DEF Rec
<1> QED
  BY <1>1 DEF Again, Attempt, Rec, Pcs, Resps

\* And the end of the call.
LEMMA EndedType ==
    ASSUME NEW rec \in Rec
    PROVE  Ended(rec) \in Rec /\ Ended(rec).pc = "ended"
BY NoCallType DEF Ended, Rec, Pcs

\* When a refresh is over the promise is deleted and nobody waits any longer, whether it
\* has succeeded or not.
LEMMA ResumedType ==
    ASSUME Shape, NEW c \in Calls, NEW ok \in BOOLEAN
    PROVE  /\ Resumed(c, ok) \in Rec
           /\ c = Put => Resumed(c, ok).pc = "idle"
           /\ c # Put => Resumed(c, ok).pc \notin WaitPcs
<1> DEFINE rec == call[c]
           n == IF ok THEN call[Put].token ELSE holder
           new == [rec EXCEPT !.token = n, !.using = 0]
<1>1. rec \in Rec /\ call[Put] \in Rec
  BY DEF Shape, Calls
<1>2. n \in Nat
  BY <1>1 DEF Shape, Rec
<1>3. new \in Rec
  BY <1>1, <1>2 DEF Rec
<1>4. CASE c = Put
  <2>1. Resumed(c, ok) = NoCall
    BY <1>4 DEF Resumed
  <2> QED
    BY <1>4, <2>1, NoCallType
<1>5. CASE c # Put /\ rec.pc = "refreshWait"
  <2>1. [new EXCEPT !.pc = "retry"] \in Rec /\ [new EXCEPT !.pc = "retry"].pc = "retry"
    BY <1>3 DEF Rec, Pcs
  <2>2. [rec EXCEPT !.pc = "aborted"] \in Rec /\ [rec EXCEPT !.pc = "aborted"].pc = "aborted"
    BY <1>1 DEF Rec, Pcs
  <2>3. Resumed(c, ok) = IF ok THEN [new EXCEPT !.pc = "retry"] ELSE [rec EXCEPT !.pc = "aborted"]
    BY <1>5 DEF Resumed, Header
  <2> QED
    BY <2>1, <2>2, <2>3, <1>5 DEF WaitPcs
<1>6. CASE c # Put /\ rec.pc = "lockWait"
  <2>1. [new EXCEPT !.pc = "retry"] \in Rec /\ [new EXCEPT !.pc = "retry"].pc = "retry"
    BY <1>3 DEF Rec, Pcs
  <2>2. Resumed(c, ok) = [new EXCEPT !.pc = "retry"]
    BY <1>6 DEF Resumed, Header
  <2> QED
    BY <2>1, <2>2, <1>6 DEF WaitPcs
<1>7. CASE c # Put /\ rec.pc = "loopWait"
  <2> DEFINE next == [Attempt(new) EXCEPT !.looped = TRUE, !.count = 0, !.tried = FALSE]
  <2>1. Attempt(new) \in Rec /\ Attempt(new).pc = "sending"
    BY <1>3, AttemptType
  <2>2. next \in Rec /\ next.pc = "sending"
    <3>1. 0 \in 0..MaxRetries
      BY TokenRefreshAssumption
    <3> DEFINE sent == Attempt(new)
    <3>2. sent \in Rec /\ sent.pc = "sending"
      BY <2>1
    <3> HIDE DEF sent
    <3>3. [sent EXCEPT !.looped = TRUE, !.count = 0, !.tried = FALSE] \in Rec
      BY <3>1, <3>2 DEF Rec
    <3>4. [sent EXCEPT !.looped = TRUE, !.count = 0, !.tried = FALSE].pc = "sending"
      BY <3>2 DEF Rec
    <3> QED
      BY <3>3, <3>4 DEF sent
  <2>3. Ended(rec) \in Rec /\ Ended(rec).pc = "ended"
    BY <1>1, EndedType
  <2>4. Resumed(c, ok) = IF ok THEN next ELSE Ended(rec)
    BY <1>7 DEF Resumed, Header
  <2> HIDE DEF next
  <2> QED
    BY <2>2, <2>3, <2>4, <1>7 DEF WaitPcs
<1>8. CASE c # Put /\ rec.pc \notin WaitPcs
  <2>1. Resumed(c, ok) = rec
    BY <1>8 DEF Resumed, WaitPcs
  <2> QED
    BY <2>1, <1>1, <1>8
<1> QED
  BY <1>4, <1>5, <1>6, <1>7, <1>8 DEF WaitPcs

--------------------------------------------------------------------------------
(* The three ways in which the progress of the calls changes. *)

\* One call goes on by itself: it did not wait, does not wait now, and if it is the refresh
\* it is neither over nor reading a body.
LEMMA OneGoesOn ==
    ASSUME IInv, NEW c \in Calls, NEW new \in Rec,
           call[c].pc \notin WaitPcs, new.pc \notin WaitPcs,
           c = Put => new.pc \notin {"idle", "reading"},
           call' = [call EXCEPT ![c] = new], lock' = lock,
           issued' \in Nat, holder' \in Nat, broadcast' \subseteq Nat
    PROVE  IInv'
<1>1. call' \in [Calls -> Rec] /\ call'[c] = new /\ \A d \in Calls : d # c => call'[d] = call[d]
  BY DEF IInv, Shape
<1>2. Put \in Calls /\ \A r \in Requests : r \in Calls /\ r # Put
  BY TokenRefreshAssumption DEF Calls
<1>3. Shape'
  BY <1>1, <1>2 DEF IInv, Shape
<1>4. Refreshing => Refreshing'
  BY <1>1, <1>2 DEF Refreshing
<1>5. \A r \in Requests : call'[r].pc \in WaitPcs => r # c /\ call'[r] = call[r]
  BY <1>1, <1>2
<1>6. lock # None => lock # c /\ call'[lock] = call[lock]
  BY <1>1, <1>2 DEF IInv, Shape, WaitersAreServed, WaitPcs
<1>7. WaitersAreServed'
  BY <1>4, <1>5, <1>6 DEF IInv, WaitersAreServed, WaitPcs
<1> QED
  BY <1>3, <1>7 DEF IInv

\* One call begins to wait for the refresh, which is under way or starts with it; if the
\* call is that of a request the lock may become its.
LEMMA OneRefreshes ==
    ASSUME IInv, NEW c \in Calls, NEW new \in Rec, NEW n \in Nat,
           call[c].pc \notin WaitPcs \cup {"idle"},
           \/ new.pc = "loopWait" /\ lock' = lock
           \/ new.pc = "refreshWait" /\ c # Put /\ lock = None /\ lock' = c,
           Refresh(c, new, n),
           UNCHANGED <<issued, holder, broadcast>>
    PROVE  IInv'
<1> DEFINE put == IF Refreshing THEN call[Put] ELSE Attempt([NoCall EXCEPT !.using = n])
<1>1. Put \in Calls /\ \A r \in Requests : r \in Calls /\ r # Put
  BY TokenRefreshAssumption DEF Calls
<1>2. [NoCall EXCEPT !.using = n] \in Rec
  BY NoCallType DEF Rec
<1>3. put \in Rec /\ put.pc \notin {"idle", "reading"}
  BY <1>1, <1>2, AttemptType DEF IInv, Shape, Refreshing
<1> HIDE DEF put
<1>4. /\ call' \in [Calls -> Rec]
      /\ call'[Put].pc \notin {"idle", "reading"}
      /\ c # Put => call'[c] = new
      /\ \A d \in Calls : d # c /\ d # Put => call'[d] = call[d]
  <2>1. CASE c # Put
    <3>1. call' = [d \in Calls |-> IF d = c THEN new ELSE IF d = Put THEN put ELSE call[d]]
      BY <2>1, <1>1 DEF Refresh, put
    <3> QED
      BY <3>1, <2>1, <1>1, <1>3 DEF IInv, Shape
  <2>2. CASE c = Put
    <3>1. Refreshing /\ new.pc = "loopWait"
      BY <2>2 DEF Refreshing
    <3>2. call' = [d \in Calls |-> IF d = c THEN new ELSE call[d]]
      BY <2>2, <3>1 DEF Refresh
    <3> QED
      BY <3>1, <3>2, <2>2, <1>1 DEF IInv, Shape
  <2> QED
    BY <2>1, <2>2
<1>5. Shape'
  BY <1>1, <1>4 DEF IInv, Shape, Calls
<1>6. Refreshing'
  BY <1>4 DEF Refreshing
<1>7. lock # None => lock # c /\ call'[lock] = call[lock]
  BY <1>1, <1>4 DEF IInv, Shape, WaitersAreServed, WaitPcs
<1>8. lock' # None => call'[lock'].pc = "refreshWait"
  BY <1>4, <1>7 DEF IInv, WaitersAreServed
<1>9. \A r \in Requests : call'[r].pc = "lockWait" => lock' # None
  <2> SUFFICES ASSUME NEW r \in Requests, call'[r].pc = "lockWait"
               PROVE  lock' # None
    OBVIOUS
  <2>1. r # c /\ call'[r] = call[r]
    BY <1>1, <1>4
  <2>2. lock # None
    BY <2>1 DEF IInv, WaitersAreServed
  <2> QED
    BY <2>2
<1>10. WaitersAreServed'
  BY <1>6, <1>8, <1>9 DEF WaitersAreServed
<1> QED
  BY <1>5, <1>10 DEF IInv

\* A refresh is over, and the lock with it.
LEMMA AllResume ==
    ASSUME IInv, NEW ok \in BOOLEAN,
           call' = [c \in Calls |-> Resumed(c, ok)], lock' = Released,
           holder' \in Nat, UNCHANGED <<issued, broadcast>>
    PROVE  IInv'
<1>1. Put \in Calls /\ \A r \in Requests : r \in Calls /\ r # Put
  BY TokenRefreshAssumption DEF Calls
<1>2. \A c \in Calls : /\ call'[c] \in Rec
                       /\ c = Put => call'[c].pc = "idle"
                       /\ c # Put => call'[c].pc \notin WaitPcs
  BY ResumedType DEF IInv
<1>3. call' \in [Calls -> Rec]
  BY <1>2
<1>4. Shape'
  BY <1>1, <1>2, <1>3 DEF IInv, Shape, Released
<1>5. WaitersAreServed'
  BY <1>1, <1>2 DEF WaitersAreServed, Released, WaitPcs
<1> QED
  BY <1>4, <1>5 DEF IInv

\* fetchCore() has returned: the call ends, or waits for one more refresh.
LEMMA ReturnKeeps ==
    ASSUME IInv, NEW c \in Calls, call[c].pc \notin WaitPcs \cup {"idle"},
           Return(c), UNCHANGED <<server, holder, lock>>
    PROVE  IInv'
<1>1. call[c] \in Rec /\ call \in [Calls -> Rec]
  BY DEF IInv, Shape
<1>2. UNCHANGED <<issued, broadcast>> /\ issued \in Nat /\ holder \in Nat /\ broadcast \subseteq Nat
  BY DEF server, IInv, Shape
<1>3. CASE Loops(c) /\ call[c].resp = "expired" /\ ~call[c].looped
  <2> DEFINE new == [call[c] EXCEPT !.pc = "loopWait"]
  <2>1. new \in Rec /\ new.pc = "loopWait" /\ call[c].refresh \in Nat
    BY <1>1 DEF Rec, Pcs
  <2>2. Refresh(c, new, call[c].refresh)
    BY <1>3 DEF Return
  <2> HIDE DEF new
  <2> QED
    BY <1>2, <2>1, <2>2, OneRefreshes
<1>4. CASE ~(Loops(c) /\ call[c].resp = "expired" /\ ~call[c].looped)
  <2>1. call' = [call EXCEPT ![c] = Ended(call[c])]
    BY <1>1, <1>4 DEF Return
  <2>2. Ended(call[c]) \in Rec /\ Ended(call[c]).pc = "ended"
    BY <1>1, EndedType
  <2> QED
    BY <1>2, <2>1, <2>2, OneGoesOn DEF WaitPcs
<1> QED
  BY <1>3, <1>4

\* A retry counts.
LEMMA RetryKeeps ==
    ASSUME IInv, NEW c \in Calls, NEW t \in BOOLEAN, call[c].pc \notin WaitPcs,
           MayRetry(c), call' = [call EXCEPT ![c] = Again(@, t)],
           UNCHANGED <<server, holder, lock>>
    PROVE  IInv'
<1>1. call[c] \in Rec /\ call \in [Calls -> Rec]
  BY DEF IInv, Shape
<1>2. Again(call[c], t) \in Rec /\ Again(call[c], t).pc = "sending"
  BY <1>1, AgainType DEF MayRetry
<1>3. call' = [call EXCEPT ![c] = Again(call[c], t)]
  BY <1>1
<1> QED
  BY <1>2, <1>3, OneGoesOn DEF server, IInv, Shape, WaitPcs

--------------------------------------------------------------------------------
(* The steps. *)

\* The state the session starts in.
LEMMA InitKeeps == Init => IInv
<1> SUFFICES ASSUME Init PROVE IInv
  OBVIOUS
<1>1. \A c \in Calls : call[c] \in Rec /\ call[c].pc = "idle"
  BY NoCallType DEF Init
<1>2. Put \in Calls /\ Requests \subseteq Calls
  BY DEF Calls
<1>3. Shape
  BY <1>1, <1>2 DEF Init, Shape
<1>4. WaitersAreServed
  BY <1>1, <1>2 DEF Init, WaitersAreServed
<1> QED
  BY <1>3, <1>4 DEF IInv

\* What changes neither the calls nor the lock nor any token harms nothing.
LEMMA OthersKeep ==
    ASSUME IInv, UNCHANGED <<call, lock>>,
           issued' \in Nat, holder' \in Nat, broadcast' \subseteq Nat
    PROVE  IInv'
BY DEF IInv, Shape, WaitersAreServed, Refreshing

\* The server, other editors, their messages, and the timers of the client.
LEMMA SurroundingsKeep ==
    ASSUME IInv, Surroundings
    PROVE  IInv'
<1>1. issued \in Nat /\ holder \in Nat /\ broadcast \subseteq Nat
  BY DEF IInv, Shape
<1>2. CASE Expire
  BY <1>1, <1>2, OthersKeep DEF Expire
<1>3. CASE Revoke
  BY <1>1, <1>3, OthersKeep DEF Revoke
<1>4. CASE OtherEditorRefreshes
  <2>1. issued' \in Nat /\ broadcast' \subseteq Nat /\ UNCHANGED <<holder, call, lock>>
    BY <1>1, <1>4 DEF OtherEditorRefreshes
  <2> QED
    BY <1>1, <2>1, OthersKeep
<1>5. CASE UserMessage
  <2>1. holder' \in Nat /\ broadcast' \subseteq Nat /\ UNCHANGED <<issued, call, lock>>
    BY <1>1, <1>5 DEF UserMessage
  <2> QED
    BY <1>1, <2>1, OthersKeep
<1>6. CASE DebounceEnds
  BY <1>1, <1>6, OthersKeep DEF DebounceEnds, server
<1>7. CASE LogoutTold
  BY <1>1, <1>7, OthersKeep DEF LogoutTold, server
<1>8. ASSUME NEW r \in Requests, Start(r)
      PROVE  IInv'
  <2> DEFINE first == [NoCall EXCEPT !.token = holder, !.refresh = IF Loops(r) THEN holder ELSE 0]
  <2>1. first \in Rec
    BY <1>1, NoCallType DEF Rec
  <2>2. Attempt(first) \in Rec /\ Attempt(first).pc = "sending"
    BY <2>1, AttemptType
  <2>3. /\ call' = [call EXCEPT ![r] = Attempt(first)]
        /\ call[r].pc = "idle"
        /\ UNCHANGED <<lock, issued, holder, broadcast>>
    BY <1>8 DEF Start, server
  <2>4. r \in Calls
    BY DEF Calls
  <2> HIDE DEF first
  <2> QED
    BY <1>1, <2>2, <2>3, <2>4, OneGoesOn DEF WaitPcs
<1> QED
  BY <1>2, <1>3, <1>4, <1>5, <1>6, <1>7, <1>8 DEF Surroundings

\* What the server does with an attempt, and the answer that reaches the call, or does not.
LEMMA ServedKeeps ==
    ASSUME IInv, NEW c \in Calls, NEW resp \in Resps, call[c].pc = "sending",
           Answer(c, resp),
           \/ \E r \in {"ok", "expired", "refused"} : Serves(c, r)
           \/ UNCHANGED <<issued, broadcast>>,
           UNCHANGED <<holder, lock>>
    PROVE  IInv'
<1>1. call[c] \in Rec /\ call \in [Calls -> Rec]
  BY DEF IInv, Shape
<1>2. issued' \in Nat /\ broadcast' \subseteq Nat /\ holder' \in Nat
  <2>1. issued \in Nat /\ broadcast \subseteq Nat /\ holder \in Nat
    BY DEF IInv, Shape
  <2>2. \/ issued' = issued + 1 /\ broadcast' = broadcast \cup {issued'}
        \/ UNCHANGED <<issued, broadcast>>
    BY DEF Serves, Grants
  <2>3. holder' = holder
    OBVIOUS
  <2>4. CASE issued' = issued + 1 /\ broadcast' = broadcast \cup {issued'}
    BY <2>1, <2>3, <2>4
  <2>5. CASE UNCHANGED <<issued, broadcast>>
    BY <2>1, <2>3, <2>5
  <2> QED
    BY <2>2, <2>4, <2>5
<1> DEFINE n == IF c = Put /\ resp = "ok" THEN issued' ELSE call[c].token
           new == [call[c] EXCEPT !.pc = "answered", !.resp = resp, !.token = n]
<1>3. n \in Nat
  BY <1>1, <1>2 DEF Rec
<1>4. new \in Rec /\ new.pc = "answered"
  BY <1>1, <1>3 DEF Rec, Pcs
<1>5. call' = [call EXCEPT ![c] = new]
  BY <1>1 DEF Answer
<1> HIDE DEF new
<1> QED
  BY <1>2, <1>4, <1>5, OneGoesOn DEF WaitPcs

\* The attempts, and what fetchCore() and the interceptor make of the answers.
LEMMA AttemptsKeep ==
    ASSUME IInv, NEW c \in Calls,
           \/ ServerAnswers(c) \/ AttemptFails(c) \/ RateLimited(c)
           \/ HandleException(c) \/ StartIntercept(c) \/ HandleResponse(c) \/ ReadBody(c)
    PROVE  IInv'
<1>1. call[c] \in Rec /\ call \in [Calls -> Rec]
  BY DEF IInv, Shape
<1>2. issued \in Nat /\ holder \in Nat /\ broadcast \subseteq Nat
  BY DEF IInv, Shape
<1>3. CASE ServerAnswers(c)
  <2>1. PICK resp \in {"ok", "expired", "refused"} : Serves(c, resp) /\ Answer(c, resp)
    BY <1>3 DEF ServerAnswers
  <2>2. resp \in Resps /\ call[c].pc = "sending" /\ UNCHANGED <<holder, lock>>
    BY <1>3 DEF ServerAnswers, Resps
  <2> QED
    BY <2>1, <2>2, ServedKeeps
<1>4. CASE AttemptFails(c)
  <2>1. PICK resp \in {"lost", "error"} : Answer(c, resp)
    BY <1>4 DEF AttemptFails
  <2>2. resp \in Resps /\ call[c].pc = "sending" /\ UNCHANGED <<holder, lock>>
    BY <1>4 DEF AttemptFails, Resps
  <2>3. (\E r \in {"ok", "expired", "refused"} : Serves(c, r)) \/ UNCHANGED <<issued, broadcast>>
    BY <1>4 DEF AttemptFails
  <2> QED
    BY <2>1, <2>2, <2>3, ServedKeeps
<1>5. CASE RateLimited(c)
  <2> DEFINE new == [Ended(call[c]) EXCEPT !.resp = "lost"]
  <2>1. new \in Rec /\ new.pc = "ended"
    BY <1>1, EndedType DEF Rec, Resps
  <2>2. call' = [call EXCEPT ![c] = new] /\ call[c].pc = "sending" /\ UNCHANGED <<lock, issued, holder, broadcast>>
    BY <1>1, <1>5 DEF RateLimited, server
  <2> HIDE DEF new
  <2> QED
    BY <1>2, <2>1, <2>2, OneGoesOn DEF WaitPcs
<1>6. CASE HandleException(c)
  <2>1. call[c].pc = "answered" /\ UNCHANGED <<server, holder, lock>>
    BY <1>6 DEF HandleException
  <2>2. CASE MayRetry(c)
    BY <1>6, <2>1, <2>2, RetryKeeps DEF HandleException, WaitPcs
  <2>3. CASE ~MayRetry(c)
    <3>1. call' = [call EXCEPT ![c] = Ended(call[c])]
      BY <1>1, <1>6, <2>3 DEF HandleException
    <3>2. Ended(call[c]) \in Rec /\ Ended(call[c]).pc = "ended"
      BY <1>1, EndedType
    <3> QED
      BY <1>2, <2>1, <3>1, <3>2, OneGoesOn DEF WaitPcs, server
  <2> QED
    BY <2>2, <2>3
<1>7. CASE StartIntercept(c)
  <2> DEFINE new == [call[c] EXCEPT !.pc = "reading", !.using = holder]
  <2>1. new \in Rec /\ new.pc = "reading"
    BY <1>1, <1>2 DEF Rec, Pcs
  <2>2. call' = [call EXCEPT ![c] = new]
    BY <1>1, <1>7 DEF StartIntercept
  <2>3. call[c].pc = "answered" /\ UNCHANGED <<lock, issued, holder, broadcast>>
    BY <1>7 DEF StartIntercept, server
  <2>4. c # Put
    BY <1>7, TokenRefreshAssumption DEF StartIntercept, Intercepting, Intercepts, Requests
  <2> HIDE DEF new
  <2> QED
    BY <1>2, <2>1, <2>2, <2>3, <2>4, OneGoesOn DEF WaitPcs
<1>8. CASE HandleResponse(c)
  <2>1. call[c].pc = "answered" /\ UNCHANGED <<server, holder, lock>>
    BY <1>8 DEF HandleResponse
  <2>2. CASE call[c].resp = "error" /\ MayRetry(c)
    BY <1>8, <2>1, <2>2, RetryKeeps DEF HandleResponse, WaitPcs
  <2>3. CASE ~(call[c].resp = "error" /\ MayRetry(c))
    BY <1>8, <2>1, <2>3, ReturnKeeps DEF HandleResponse, WaitPcs
  <2> QED
    BY <2>2, <2>3
<1>9. CASE ReadBody(c)
  <2>1. call[c].pc = "reading" /\ c # Put /\ UNCHANGED <<issued, holder, broadcast>>
    BY <1>9 DEF ReadBody, server, IInv, Shape
  <2>2. CASE lock # None
    <3> DEFINE new == [call[c] EXCEPT !.pc = "lockWait"]
    <3>1. call' = [call EXCEPT ![c] = new] /\ lock' = lock
      BY <1>1, <1>9, <2>2 DEF ReadBody
    <3>2. new \in Rec /\ new.pc = "lockWait"
      BY <1>1 DEF Rec, Pcs
    <3> HIDE DEF new
    <3>3. /\ call' \in [Calls -> Rec] /\ call'[c] = new
          /\ \A d \in Calls : d # c => call'[d] = call[d]
      BY <1>1, <3>1, <3>2
    <3>4. Put \in Calls /\ Requests \subseteq Calls /\ lock \in Requests
      BY <2>2 DEF Calls, IInv, Shape
    <3>5. call[lock].pc = "refreshWait" /\ lock # c /\ Refreshing
      BY <2>1, <2>2, <3>4 DEF IInv, WaitersAreServed
    <3>6. Shape'
      BY <2>1, <3>1, <3>3, <3>4 DEF IInv, Shape
    <3>7. WaitersAreServed'
      BY <2>1, <2>2, <3>1, <3>3, <3>4, <3>5 DEF IInv, WaitersAreServed, Refreshing
    <3> QED
      BY <3>6, <3>7 DEF IInv
  <2>3. CASE lock = None
    <3> DEFINE new == [call[c] EXCEPT !.pc = "refreshWait"]
    <3>1. lock' = c /\ Refresh(c, new, call[c].using)
      BY <1>9, <2>3 DEF ReadBody
    <3>2. new \in Rec /\ new.pc = "refreshWait" /\ call[c].using \in Nat
      BY <1>1 DEF Rec, Pcs
    <3> HIDE DEF new
    <3> QED
      BY <2>1, <2>3, <3>1, <3>2, OneRefreshes DEF WaitPcs
  <2> QED
    BY <2>2, <2>3
<1> QED
  BY <1>3, <1>4, <1>5, <1>6, <1>7, <1>8, <1>9

\* What goes on once a refresh is over.
LEMMA ContinueKeeps ==
    ASSUME IInv, Continue
    PROVE  IInv'
<1>1. call \in [Calls -> Rec] /\ Put \in Calls /\ Requests \subseteq Calls /\ holder \in Nat
  BY DEF IInv, Shape, Calls
<1>2. call[Put].token \in Nat
  BY <1>1 DEF Rec
<1>3. CASE RefreshSucceeds
  <2>1. /\ call' = [c \in Calls |-> Resumed(c, TRUE)] /\ lock' = Released
        /\ holder' = call[Put].token /\ UNCHANGED <<issued, broadcast>>
    BY <1>3 DEF RefreshSucceeds, Kept, server
  <2> QED
    BY <1>2, <2>1, AllResume
<1>4. CASE RefreshFails
  <2>1. /\ call' = [c \in Calls |-> Resumed(c, FALSE)] /\ lock' = Released
        /\ holder' = holder /\ UNCHANGED <<issued, broadcast>>
    BY <1>4 DEF RefreshFails, server
  <2> QED
    BY <1>1, <2>1, AllResume
<1>5. ASSUME NEW r \in Requests, Retry(r)
      PROVE  IInv'
  <2>1. r \in Calls /\ call[r].pc = "retry" /\ UNCHANGED <<server, holder, lock>>
    BY <1>1, <1>5 DEF Retry
  <2>2. CASE MayRetry(r)
    BY <1>5, <2>1, <2>2, RetryKeeps DEF Retry, WaitPcs
  <2>3. CASE ~MayRetry(r)
    BY <1>5, <2>1, <2>3, ReturnKeeps DEF Retry, WaitPcs
  <2> QED
    BY <2>2, <2>3
<1>6. ASSUME NEW r \in Requests, Abort(r)
      PROVE  IInv'
  <2>1. r \in Calls /\ call[r].pc = "aborted" /\ UNCHANGED <<server, holder, lock>> /\ Return(r)
    BY <1>1, <1>6 DEF Abort
  <2> QED
    BY <2>1, ReturnKeeps DEF WaitPcs
<1> QED
  BY <1>3, <1>4, <1>5, <1>6 DEF Continue

\* Every step keeps the invariant.
LEMMA StepKeeps == IInv /\ [Next]_vars => IInv'
<1> SUFFICES ASSUME IInv, [Next]_vars PROVE IInv'
  OBVIOUS
<1>1. CASE UNCHANGED vars
  BY <1>1, OthersKeep DEF vars, server, IInv, Shape
<1>2. CASE Continue
  BY <1>2, ContinueKeeps
<1>3. CASE Attempts
  BY <1>3, AttemptsKeep DEF Attempts
<1>4. CASE Surroundings
  BY <1>4, SurroundingsKeep
<1> QED
  BY <1>1, <1>2, <1>3, <1>4 DEF Next, Progress

\* The inductive invariant holds in every state.
LEMMA Inductive == Spec => []IInv
BY InitKeeps, StepKeeps, PTL DEF Spec

--------------------------------------------------------------------------------
(* What each step does to the calls, field by field. *)

Same(c) == \A d \in Calls \ {c} : call'[d] = call[d]
SameBut(c) == \A d \in Calls \ {c, Put} : call'[d] = call[d]

\* The call goes on as the one it is: with its tokens and its counts.
KeepsTokens(c) == /\ call'[c].token = call[c].token /\ call'[c].refresh = call[c].refresh
            /\ call'[c].looped = call[c].looped
KeepsCounts(c) == KeepsTokens(c) /\ call'[c].count = call[c].count /\ call'[c].tried = call[c].tried

\* The refresh is under way, or starts with this refresh token.
Joins(n) ==
    /\ Refreshing => call'[Put] = call[Put]
    /\ ~Refreshing => /\ call'[Put].pc = "sending" /\ call'[Put].resp = "none" /\ call'[Put].using = n
                      /\ call'[Put].token = 0 /\ call'[Put].refresh = 0 /\ call'[Put].count = 0
                      /\ ~call'[Put].tried /\ ~call'[Put].looped

Starts(c) ==
    /\ Same(c) /\ call[c].pc = "idle"
    /\ call'[c].pc = "sending" /\ call'[c].resp = "none"
    /\ call'[c].token = holder /\ call'[c].refresh \in {0, holder} /\ (Loops(c) => call'[c].refresh = holder)
    /\ call'[c].using = 0 /\ call'[c].count = 0 /\ ~call'[c].tried /\ ~call'[c].looped

Answered(c, resp, n) ==
    /\ Same(c) /\ call[c].pc = "sending"
    /\ call'[c].pc = "answered" /\ call'[c].resp = resp /\ call'[c].token = n
    /\ call'[c].refresh = call[c].refresh /\ call'[c].using = call[c].using /\ call'[c].count = call[c].count
    /\ call'[c].tried = call[c].tried /\ call'[c].looped = call[c].looped

Repeats(c, tried) ==
    /\ Same(c) /\ call[c].count < MaxRetries
    /\ call'[c].pc = "sending" /\ call'[c].resp = "none" /\ KeepsTokens(c) /\ call'[c].using = call[c].using
    /\ call'[c].count = call[c].count + 1 /\ call'[c].tried = tried

Ends(c, resp) ==
    /\ Same(c)
    /\ call'[c].pc = "ended" /\ call'[c].resp = resp /\ call'[c].token = call[c].token
    /\ call'[c].refresh = 0 /\ call'[c].using = 0 /\ call'[c].count = 0 /\ ~call'[c].tried /\ ~call'[c].looped

Waits(c, pc) == call'[c].pc = pc /\ call'[c].resp = call[c].resp /\ KeepsCounts(c)

LoopWaits(c) ==
    /\ Loops(c) /\ call[c].resp = "expired" /\ ~call[c].looped
    /\ Waits(c, "loopWait") /\ call'[c].using = call[c].using
    /\ SameBut(c) /\ (c # Put => Joins(call[c].refresh))

Returns(c) ==
    \/ LoopWaits(c)
    \/ ~(Loops(c) /\ call[c].resp = "expired" /\ ~call[c].looped) /\ Ends(c, call[c].resp)

\* A field of a record that is changed.
LEMMA AnsweredDoes ==
    ASSUME Shape, NEW c \in Calls, NEW resp \in Resps, call[c].pc = "sending", issued' \in Nat, Answer(c, resp)
    PROVE  Answered(c, resp, IF c = Put /\ resp = "ok" THEN issued' ELSE call[c].token)
<1>1. call[c] \in Rec /\ call \in [Calls -> Rec]
  BY DEF Shape
<1> DEFINE n == IF c = Put /\ resp = "ok" THEN issued' ELSE call[c].token
           new == [call[c] EXCEPT !.pc = "answered", !.resp = resp, !.token = n]
<1>2. n \in Nat
  BY <1>1 DEF Rec
<1>3. call' = [call EXCEPT ![c] = new]
  BY <1>1 DEF Answer
<1>4. call'[c] = new /\ Same(c)
  BY <1>1, <1>3 DEF Same
<1> HIDE DEF n
<1>5. /\ new.pc = "answered" /\ new.resp = resp /\ new.token = n
      /\ new.refresh = call[c].refresh /\ new.using = call[c].using /\ new.count = call[c].count
      /\ new.tried = call[c].tried /\ new.looped = call[c].looped
  BY <1>1, <1>2 DEF Rec
<1> HIDE DEF new
<1> QED BY <1>4, <1>5 DEF Answered, n

\* Another attempt.
LEMMA RepeatsDoes ==
    ASSUME Shape, NEW c \in Calls, NEW t \in BOOLEAN, MayRetry(c), call' = [call EXCEPT ![c] = Again(@, t)]
    PROVE  Repeats(c, t)
<1>1. call[c] \in Rec /\ call \in [Calls -> Rec]
  BY DEF Shape
<1> DEFINE new == Again(call[c], t)
<1>2. call'[c] = new /\ Same(c)
  BY <1>1 DEF Same
<1>3. /\ new.pc = "sending" /\ new.resp = "none" /\ new.token = call[c].token
      /\ new.refresh = call[c].refresh /\ new.using = call[c].using /\ new.count = call[c].count + 1
      /\ new.tried = t /\ new.looped = call[c].looped
  BY <1>1 DEF Rec, Again, Attempt
<1> HIDE DEF new
<1> QED BY <1>2, <1>3 DEF Repeats, KeepsTokens, MayRetry

\* The end of a call.
LEMMA EndsDoes ==
    ASSUME Shape, NEW c \in Calls, call' = [call EXCEPT ![c] = Ended(call[c])]
    PROVE  Ends(c, call[c].resp)
<1>1. call[c] \in Rec /\ call \in [Calls -> Rec]
  BY DEF Shape
<1> DEFINE new == Ended(call[c])
<1>2. call'[c] = new /\ Same(c)
  BY <1>1 DEF Same
<1>3. /\ new.pc = "ended" /\ new.resp = call[c].resp /\ new.token = call[c].token
      /\ new.refresh = 0 /\ new.using = 0 /\ new.count = 0 /\ ~new.tried /\ ~new.looped
  BY <1>1 DEF Rec, Ended, NoCall
<1> HIDE DEF new
<1> QED BY <1>2, <1>3 DEF Ends

\* A call that waits for a refresh joins the one under way, or starts one.
LEMMA JoinsDoes ==
    ASSUME Shape, NEW c \in Calls, NEW new \in Rec, NEW n \in Nat, call[c].pc # "idle", Refresh(c, new, n)
    PROVE  call'[c] = new /\ SameBut(c) /\ (c # Put => Joins(n))
<1>1. Put \in Calls /\ call \in [Calls -> Rec]
  BY DEF Shape, Calls
<1>2. call'[c] = new /\ SameBut(c)
  BY DEF Refresh, SameBut
<1>3. ASSUME c # Put PROVE Joins(n)
  <2>1. CASE Refreshing
    <3>1. call'[Put] = call[Put]
      BY <1>1, <1>3, <2>1 DEF Refresh
    <3> QED BY <2>1, <3>1 DEF Joins
  <2>2. CASE ~Refreshing
    <3> DEFINE put == Attempt([NoCall EXCEPT !.using = n])
    <3>1. call'[Put] = put
      BY <1>1, <1>3, <2>2 DEF Refresh
    <3>2. /\ put.pc = "sending" /\ put.resp = "none" /\ put.using = n /\ put.token = 0 /\ put.refresh = 0
          /\ put.count = 0 /\ ~put.tried /\ ~put.looped
      BY DEF Attempt, NoCall
    <3> HIDE DEF put
    <3> QED BY <2>2, <3>1, <3>2 DEF Joins
  <2> QED BY <2>1, <2>2
<1> QED BY <1>2, <1>3

\* fetchCore() has returned.
LEMMA ReturnsDoes ==
    ASSUME Shape, NEW c \in Calls, call[c].pc # "idle", Return(c)
    PROVE  Returns(c)
<1>1. call[c] \in Rec /\ call \in [Calls -> Rec]
  BY DEF Shape
<1>2. CASE Loops(c) /\ call[c].resp = "expired" /\ ~call[c].looped
  <2> DEFINE new == [call[c] EXCEPT !.pc = "loopWait"]
  <2>1. new \in Rec /\ call[c].refresh \in Nat
    BY <1>1 DEF Rec, Pcs
  <2>2. Refresh(c, new, call[c].refresh)
    BY <1>2 DEF Return
  <2>3. /\ new.pc = "loopWait" /\ new.resp = call[c].resp /\ new.token = call[c].token
        /\ new.refresh = call[c].refresh /\ new.using = call[c].using /\ new.count = call[c].count
        /\ new.tried = call[c].tried /\ new.looped = call[c].looped
    BY <1>1 DEF Rec
  <2> HIDE DEF new
  <2>4. call'[c] = new /\ SameBut(c) /\ (c # Put => Joins(call[c].refresh))
    BY <2>1, <2>2, JoinsDoes
  <2> QED BY <1>2, <2>3, <2>4 DEF Returns, LoopWaits, Waits, KeepsTokens, KeepsCounts
<1>3. CASE ~(Loops(c) /\ call[c].resp = "expired" /\ ~call[c].looped)
  <2>1. call' = [call EXCEPT ![c] = Ended(call[c])]
    BY <1>1, <1>3 DEF Return
  <2> QED BY <1>3, <2>1, EndsDoes DEF Returns
<1> QED BY <1>2, <1>3

\* What becomes of a request when a refresh is over.
Resumes(r, ok) ==
    LET n == IF ok THEN call[Put].token ELSE holder
    IN  /\ call[r].pc \in {"refreshWait", "lockWait"} =>
            /\ call'[r].resp = call[r].resp /\ call'[r].refresh = call[r].refresh /\ call'[r].looped = call[r].looped
            /\ call'[r].count = call[r].count /\ call'[r].tried = call[r].tried
        /\ call[r].pc = "refreshWait" =>
            IF ok THEN call'[r].pc = "retry" /\ call'[r].token = n /\ call'[r].using = 0
                  ELSE call'[r].pc = "aborted" /\ call'[r].token = call[r].token /\ call'[r].using = call[r].using
        /\ call[r].pc = "lockWait" => call'[r].pc = "retry" /\ call'[r].token = n /\ call'[r].using = 0
        /\ call[r].pc = "loopWait" =>
            IF ok THEN /\ call'[r].pc = "sending" /\ call'[r].resp = "none" /\ call'[r].token = n
                       /\ call'[r].refresh = call[r].refresh /\ call'[r].using = 0 /\ call'[r].count = 0
                       /\ ~call'[r].tried /\ call'[r].looped
                  ELSE /\ call'[r].pc = "ended" /\ call'[r].resp = call[r].resp /\ call'[r].token = call[r].token
                       /\ call'[r].refresh = 0 /\ call'[r].using = 0 /\ call'[r].count = 0
                       /\ ~call'[r].tried /\ ~call'[r].looped
        /\ call[r].pc \notin WaitPcs => call'[r] = call[r]

RefreshIsOver(ok) ==
    /\ call[Put].pc = "ended" /\ (call[Put].resp = "ok") = ok
    /\ call'[Put].pc = "idle" /\ call'[Put].resp = "none" /\ call'[Put].token = 0 /\ call'[Put].refresh = 0
    /\ call'[Put].using = 0 /\ call'[Put].count = 0 /\ ~call'[Put].tried /\ ~call'[Put].looped
    /\ \A r \in Requests : Resumes(r, ok)
    /\ holder' = IF ok THEN call[Put].token ELSE holder
    /\ lock' = None /\ UNCHANGED <<server, logout, together, expiries, faults>>

\* A request goes on when a refresh is over.
LEMMA ResumesDoes ==
    ASSUME Shape, NEW r \in Requests, NEW ok \in BOOLEAN, call'[r] = Resumed(r, ok)
    PROVE  Resumes(r, ok)
<1> DEFINE rec == call[r]
           n == IF ok THEN call[Put].token ELSE holder
           new == [rec EXCEPT !.token = n, !.using = 0]
<1>1. rec \in Rec /\ call[Put] \in Rec /\ r # Put
  BY TokenRefreshAssumption DEF Shape, Calls
<1>2. n \in Nat
  BY <1>1 DEF Shape, Rec
<1> HIDE DEF n
<1>3. /\ new \in Rec /\ new.token = n /\ new.using = 0 /\ new.resp = rec.resp /\ new.refresh = rec.refresh
      /\ new.looped = rec.looped /\ new.count = rec.count /\ new.tried = rec.tried
  BY <1>1, <1>2 DEF Rec
<1> HIDE DEF new
<1> DEFINE retry == [new EXCEPT !.pc = "retry"]
           aborted == [rec EXCEPT !.pc = "aborted"]
           next == [Attempt(new) EXCEPT !.looped = TRUE, !.count = 0, !.tried = FALSE]
           over == Ended(rec)
<1>4. /\ retry.pc = "retry" /\ retry.token = n /\ retry.using = 0 /\ retry.resp = rec.resp
      /\ retry.refresh = rec.refresh /\ retry.looped = rec.looped /\ retry.count = rec.count /\ retry.tried = rec.tried
  BY <1>3 DEF Rec
<1>5. /\ aborted.pc = "aborted" /\ aborted.token = rec.token /\ aborted.using = rec.using /\ aborted.resp = rec.resp
      /\ aborted.refresh = rec.refresh /\ aborted.looped = rec.looped /\ aborted.count = rec.count
      /\ aborted.tried = rec.tried
  BY <1>1 DEF Rec
<1>6. /\ next.pc = "sending" /\ next.resp = "none" /\ next.token = n /\ next.refresh = rec.refresh
      /\ next.using = 0 /\ next.count = 0 /\ ~next.tried /\ next.looped
  <2> DEFINE sent == Attempt(new)
  <2>1. /\ sent \in Rec /\ sent.pc = "sending" /\ sent.resp = "none" /\ sent.token = n /\ sent.refresh = rec.refresh
        /\ sent.using = 0
    BY <1>3, AttemptType DEF Attempt, Rec
  <2> HIDE DEF sent
  <2>2. /\ [sent EXCEPT !.looped = TRUE, !.count = 0, !.tried = FALSE].pc = "sending"
        /\ [sent EXCEPT !.looped = TRUE, !.count = 0, !.tried = FALSE].resp = "none"
        /\ [sent EXCEPT !.looped = TRUE, !.count = 0, !.tried = FALSE].token = n
        /\ [sent EXCEPT !.looped = TRUE, !.count = 0, !.tried = FALSE].refresh = rec.refresh
        /\ [sent EXCEPT !.looped = TRUE, !.count = 0, !.tried = FALSE].using = 0
    BY <2>1 DEF Rec
  <2>3. /\ [sent EXCEPT !.looped = TRUE, !.count = 0, !.tried = FALSE].count = 0
        /\ [sent EXCEPT !.looped = TRUE, !.count = 0, !.tried = FALSE].tried = FALSE
        /\ [sent EXCEPT !.looped = TRUE, !.count = 0, !.tried = FALSE].looped = TRUE
    BY <2>1 DEF Rec
  <2> QED BY <2>2, <2>3 DEF sent
<1>7. /\ over.pc = "ended" /\ over.resp = rec.resp /\ over.token = rec.token
      /\ over.refresh = 0 /\ over.using = 0 /\ over.count = 0 /\ ~over.tried /\ ~over.looped
  BY <1>1 DEF Rec, Ended, NoCall
<1>8. /\ rec.pc = "refreshWait" => call'[r] = IF ok THEN retry ELSE aborted
      /\ rec.pc = "lockWait" => call'[r] = retry
      /\ rec.pc = "loopWait" => call'[r] = IF ok THEN next ELSE over
      /\ rec.pc \notin WaitPcs => call'[r] = rec
  BY <1>1 DEF Resumed, Header, WaitPcs, new, n
<1> HIDE DEF retry, aborted, next, over
<1>9. CASE rec.pc = "refreshWait"
  BY <1>4, <1>5, <1>8, <1>9 DEF Resumes, WaitPcs, n
<1>10. CASE rec.pc = "lockWait"
  BY <1>4, <1>8, <1>10 DEF Resumes, WaitPcs, n
<1>11. CASE rec.pc = "loopWait"
  BY <1>6, <1>7, <1>8, <1>11 DEF Resumes, WaitPcs, n
<1>12. CASE rec.pc \notin WaitPcs
  BY <1>8, <1>12 DEF Resumes, WaitPcs
<1> QED BY <1>9, <1>10, <1>11, <1>12 DEF WaitPcs

\* The refresh is over, either way.
LEMMA RefreshIsOverDoes ==
    ASSUME Shape, RefreshSucceeds \/ RefreshFails
    PROVE  \E ok \in BOOLEAN : RefreshIsOver(ok) /\ (ok => refreshFailed' = FALSE)
<1>1. Put \in Calls /\ \A r \in Requests : r \in Calls
  BY DEF Calls
<1>2. ASSUME NEW ok \in BOOLEAN, (call[Put].resp = "ok") = ok, call[Put].pc = "ended",
             call' = [c \in Calls |-> Resumed(c, ok)],
             holder' = IF ok THEN call[Put].token ELSE holder,
             lock' = None, UNCHANGED <<server, logout, together, expiries, faults>>
      PROVE  RefreshIsOver(ok)
  <2>1. \A r \in Requests : Resumes(r, ok)
    BY <1>1, <1>2, ResumesDoes
  <2>2. call'[Put] = NoCall
    BY <1>1, <1>2 DEF Resumed
  <2>3. /\ call'[Put].pc = "idle" /\ call'[Put].resp = "none" /\ call'[Put].token = 0 /\ call'[Put].refresh = 0
        /\ call'[Put].using = 0 /\ call'[Put].count = 0 /\ ~call'[Put].tried /\ ~call'[Put].looped
    BY <2>2 DEF NoCall
  <2> QED BY <1>2, <2>1, <2>3 DEF RefreshIsOver
<1>3. CASE RefreshSucceeds
  <2>1. /\ (call[Put].resp = "ok") = TRUE /\ call[Put].pc = "ended" /\ call' = [c \in Calls |-> Resumed(c, TRUE)]
        /\ holder' = call[Put].token /\ lock' = None /\ UNCHANGED <<server, logout, together, expiries, faults>>
        /\ refreshFailed' = FALSE
    BY <1>3 DEF RefreshSucceeds, Kept, Released
  <2> QED BY <1>2, <2>1
<1>4. CASE RefreshFails
  <2>1. /\ (call[Put].resp = "ok") = FALSE /\ call[Put].pc = "ended" /\ call' = [c \in Calls |-> Resumed(c, FALSE)]
        /\ holder' = holder /\ lock' = None /\ UNCHANGED <<server, logout, together, expiries, faults>>
    BY <1>4 DEF RefreshFails, Released
  <2> QED BY <1>2, <2>1
<1> QED BY <1>3, <1>4

--------------------------------------------------------------------------------
(* The steps, in these terms. *)

RestStays == UNCHANGED <<revoked, holder, lock, status, together, expiries, faults>>

\* A request starts with the token that is held.
LEMMA StartDoes ==
    ASSUME Shape, NEW r \in Requests, Start(r)
    PROVE  /\ Starts(r) /\ UNCHANGED <<server, holder, lock, status, expiries, faults>>
           /\ together' = (together \/ \E q \in Requests : call[q].pc \notin {"idle", "ended"})
<1> DEFINE first == [NoCall EXCEPT !.token = holder, !.refresh = IF Loops(r) THEN holder ELSE 0]
           new == Attempt(first)
<1>1. r \in Calls /\ call \in [Calls -> Rec] /\ holder \in Nat
  BY DEF Calls, Shape
<1>2. /\ first.token = holder /\ first.refresh = IF Loops(r) THEN holder ELSE 0
      /\ first.using = 0 /\ first.count = 0 /\ ~first.tried /\ ~first.looped /\ first \in Rec
  BY <1>1, NoCallType DEF NoCall, Rec
<1> HIDE DEF first
<1>3. /\ new.pc = "sending" /\ new.resp = "none" /\ new.token = holder
      /\ new.refresh = IF Loops(r) THEN holder ELSE 0
      /\ new.using = 0 /\ new.count = 0 /\ ~new.tried /\ ~new.looped
  BY <1>2 DEF Attempt, Rec
<1>4. call'[r] = new /\ Same(r) /\ call[r].pc = "idle"
  BY <1>1 DEF Start, Same, first
<1> HIDE DEF new
<1> QED BY <1>3, <1>4 DEF Start, Starts

\* A request is answered, by what its token is; the refresh is granted or refused.
LEMMA ServerAnswersDoes ==
    ASSUME Shape, NEW c \in Calls, ServerAnswers(c)
    PROVE  /\ UNCHANGED expired /\ RestStays
           /\ c # Put => /\ UNCHANGED <<issued, broadcast, rotated>>
                         /\ Answered(c, IF call[c].token > expired THEN "ok" ELSE "expired", call[c].token)
           /\ c = Put => \/ /\ ~revoked /\ issued' = issued + 1 /\ broadcast' = broadcast \cup {issued'}
                            /\ UNCHANGED rotated /\ Answered(Put, "ok", issued')
                         \/ /\ revoked \/ call[Put].using # issued
                            /\ rotated' = (rotated \/ ~revoked) /\ UNCHANGED <<issued, broadcast>>
                            /\ \E resp \in {"refused", "expired"} : Answered(Put, resp, call[Put].token)
<1>1. PICK resp \in {"ok", "expired", "refused"} : Serves(c, resp) /\ Answer(c, resp)
  BY DEF ServerAnswers
<1>2. resp \in Resps /\ call[c].pc = "sending" /\ UNCHANGED expired /\ RestStays /\ issued \in Nat
  BY DEF ServerAnswers, Resps, RestStays, Shape
<1>3. CASE c # Put
  <2>1. UNCHANGED <<issued, broadcast, rotated>> /\ resp = IF call[c].token > expired THEN "ok" ELSE "expired"
    BY <1>1, <1>3 DEF Serves
  <2>2. Answered(c, resp, call[c].token)
    BY <1>1, <1>2, <1>3, <2>1, AnsweredDoes
  <2> QED BY <1>2, <1>3, <2>1, <2>2
<1>4. CASE c = Put
  <2>1. CASE resp = "ok"
    <3>1. ~revoked /\ issued' = issued + 1 /\ broadcast' = broadcast \cup {issued'} /\ UNCHANGED rotated
      BY <1>1, <1>4, <2>1 DEF Serves, Grants
    <3>2. Answered(Put, "ok", issued')
      BY <1>1, <1>2, <1>4, <2>1, <3>1, AnsweredDoes
    <3> QED BY <1>2, <1>4, <3>1, <3>2
  <2>2. CASE resp \in {"refused", "expired"}
    <3>1. /\ revoked \/ call[Put].using # issued
          /\ rotated' = (rotated \/ ~revoked) /\ UNCHANGED <<issued, broadcast>>
      BY <1>1, <1>4, <2>2 DEF Serves, Grants
    <3>2. Answered(Put, resp, call[Put].token)
      BY <1>1, <1>2, <1>4, <2>2, <3>1, AnsweredDoes
    <3> QED BY <1>2, <1>4, <2>2, <3>1, <3>2
  <2> QED BY <2>1, <2>2
<1> QED BY <1>3, <1>4

\* An attempt fails, after the server has seen it or before.
LEMMA AttemptFailsDoes ==
    ASSUME Shape, NEW c \in Calls, AttemptFails(c)
    PROVE  /\ MayFail /\ faults < MaxFaults /\ faults' = faults + 1
           /\ UNCHANGED <<expired, revoked, holder, lock, status, together, expiries>>
           /\ \/ issued' = issued + 1 /\ broadcast' = broadcast \cup {issued'}
              \/ UNCHANGED <<issued, broadcast>>
           /\ rotated' \in {rotated, rotated \/ ~revoked}
           /\ \E resp \in {"lost", "error"} : Answered(c, resp, call[c].token)
<1>1. PICK resp \in {"lost", "error"} : Answer(c, resp)
  BY DEF AttemptFails
<1>2. /\ MayFail /\ faults < MaxFaults /\ faults' = faults + 1
      /\ UNCHANGED <<expired, revoked, holder, lock, status, together, expiries>>
      /\ call[c].pc = "sending" /\ resp \in Resps /\ issued \in Nat
  BY DEF AttemptFails, Fault, Resps, Shape
<1>3. /\ \/ issued' = issued + 1 /\ broadcast' = broadcast \cup {issued'}
         \/ UNCHANGED <<issued, broadcast>>
      /\ rotated' \in {rotated, rotated \/ ~revoked}
  <2>1. (\E r \in {"ok", "expired", "refused"} : Serves(c, r)) \/ UNCHANGED <<issued, broadcast, rotated>>
    BY DEF AttemptFails
  <2> QED BY <2>1 DEF Serves, Grants
<1>4. issued' \in Nat
  BY <1>2, <1>3
<1>5. Answered(c, resp, call[c].token)
  BY <1>1, <1>2, <1>4, AnsweredDoes
<1> QED BY <1>2, <1>3, <1>5

\* The rate limiter ends a call.
LEMMA RateLimitedDoes ==
    ASSUME Shape, NEW c \in Calls, RateLimited(c)
    PROVE  /\ Ends(c, "lost") /\ call[c].pc = "sending" /\ MayFail /\ faults < MaxFaults /\ faults' = faults + 1
           /\ logout' \in {logout, "due"}
           /\ UNCHANGED <<server, holder, lock, refreshFailed, told, timers, outrun, together, expiries>>
<1>1. call[c] \in Rec /\ call \in [Calls -> Rec]
  BY DEF Shape
<1> DEFINE over == Ended(call[c])
           new == [over EXCEPT !.resp = "lost"]
<1>2. /\ over.pc = "ended" /\ over.token = call[c].token
      /\ over.refresh = 0 /\ over.using = 0 /\ over.count = 0 /\ ~over.tried /\ ~over.looped
      /\ over \in Rec
  BY <1>1, EndedType DEF Rec, Ended, NoCall
<1>3. call'[c] = new /\ Same(c)
  BY <1>1 DEF RateLimited, Same
<1> HIDE DEF over
<1>4. /\ new.pc = "ended" /\ new.resp = "lost" /\ new.token = call[c].token
      /\ new.refresh = 0 /\ new.using = 0 /\ new.count = 0 /\ ~new.tried /\ ~new.looped
  BY <1>2 DEF Rec
<1> HIDE DEF new
<1>5. Ends(c, "lost")
  BY <1>3, <1>4 DEF Ends
<1> QED BY <1>5 DEF RateLimited, Fault

\* fetchCore() tries again, or gives up.
LEMMA HandleExceptionDoes ==
    ASSUME Shape, NEW c \in Calls, HandleException(c)
    PROVE  /\ call[c].pc = "answered" /\ call[c].resp = "lost" /\ (Repeats(c, FALSE) \/ Ends(c, "lost"))
           /\ UNCHANGED <<server, holder, lock, status, together, expiries, faults>>
<1>1. call[c] \in Rec /\ call \in [Calls -> Rec]
  BY DEF Shape
<1>2. CASE MayRetry(c)
  <2>1. call' = [call EXCEPT ![c] = Again(@, FALSE)]
    BY <1>2 DEF HandleException
  <2> QED BY <1>2, <2>1, RepeatsDoes DEF HandleException
<1>3. CASE ~MayRetry(c)
  <2>1. call' = [call EXCEPT ![c] = Ended(call[c])]
    BY <1>1, <1>3 DEF HandleException
  <2>2. Ends(c, call[c].resp) /\ call[c].resp = "lost"
    BY <2>1, EndsDoes DEF HandleException
  <2> QED BY <2>2 DEF HandleException
<1> QED BY <1>2, <1>3

\* The interceptor takes the answer, and notes the refresh token.
LEMMA StartInterceptDoes ==
    ASSUME Shape, NEW c \in Calls, StartIntercept(c)
    PROVE  /\ call[c].pc = "answered" /\ Intercepting(c) /\ c \in Requests
           /\ Same(c) /\ Waits(c, "reading") /\ call'[c].using = holder
           /\ UNCHANGED <<server, holder, lock, status, together, expiries, faults>>
<1>1. call[c] \in Rec /\ call \in [Calls -> Rec] /\ holder \in Nat
  BY DEF Shape
<1> DEFINE new == [call[c] EXCEPT !.pc = "reading", !.using = holder]
<1>2. call' = [call EXCEPT ![c] = new]
  BY <1>1 DEF StartIntercept
<1>3. call'[c] = new /\ Same(c)
  BY <1>1, <1>2 DEF Same
<1>4. /\ new.pc = "reading" /\ new.using = holder /\ new.resp = call[c].resp /\ new.token = call[c].token
      /\ new.refresh = call[c].refresh /\ new.looped = call[c].looped /\ new.count = call[c].count
      /\ new.tried = call[c].tried
  BY <1>1 DEF Rec
<1> HIDE DEF new
<1>5. Waits(c, "reading") /\ call'[c].using = holder
  BY <1>3, <1>4 DEF Waits, KeepsTokens, KeepsCounts
<1>6. c \in Requests
  BY DEF StartIntercept, Intercepting, Intercepts, Requests
<1> QED BY <1>3, <1>5, <1>6 DEF StartIntercept

\* fetchCore() tries again after an error, or returns.
LEMMA HandleResponseDoes ==
    ASSUME Shape, NEW c \in Calls, HandleResponse(c)
    PROVE  /\ call[c].pc = "answered" /\ call[c].resp # "lost" /\ ~Intercepting(c)
           /\ (call[c].resp = "error" /\ Repeats(c, TRUE)) \/ Returns(c)
           /\ UNCHANGED <<server, holder, lock, status, together, expiries, faults>>
<1>1. /\ call[c].pc = "answered" /\ call[c].resp # "lost" /\ ~Intercepting(c)
      /\ UNCHANGED <<server, holder, lock, status, together, expiries, faults>>
  BY DEF HandleResponse
<1>2. CASE call[c].resp = "error" /\ MayRetry(c)
  <2>1. call' = [call EXCEPT ![c] = Again(@, TRUE)]
    BY <1>2 DEF HandleResponse
  <2> QED BY <1>1, <1>2, <2>1, RepeatsDoes
<1>3. CASE ~(call[c].resp = "error" /\ MayRetry(c))
  BY <1>1, <1>3, ReturnsDoes DEF HandleResponse
<1> QED BY <1>2, <1>3

\* The body is read: the request waits for the lock, or takes it and refreshes.
LEMMA ReadBodyDoes ==
    ASSUME Shape, NEW c \in Calls, ReadBody(c)
    PROVE  /\ call[c].pc = "reading" /\ c # Put /\ call'[c].using = call[c].using
           /\ \/ lock # None /\ lock' = lock /\ Same(c) /\ Waits(c, "lockWait")
              \/ lock = None /\ lock' = c /\ SameBut(c) /\ Waits(c, "refreshWait") /\ Joins(call[c].using)
           /\ UNCHANGED <<server, holder, status, together, expiries, faults>>
<1>1. /\ call[c] \in Rec /\ call \in [Calls -> Rec] /\ call[c].pc = "reading" /\ c # Put
      /\ UNCHANGED <<server, holder, status, together, expiries, faults>>
  BY DEF Shape, ReadBody
<1>2. CASE lock # None
  <2> DEFINE new == [call[c] EXCEPT !.pc = "lockWait"]
  <2>1. call' = [call EXCEPT ![c] = new] /\ lock' = lock
    BY <1>1, <1>2 DEF ReadBody
  <2>2. call'[c] = new /\ Same(c)
    BY <1>1, <2>1 DEF Same
  <2>3. /\ new.pc = "lockWait" /\ new.using = call[c].using /\ new.resp = call[c].resp /\ new.token = call[c].token
        /\ new.refresh = call[c].refresh /\ new.looped = call[c].looped /\ new.count = call[c].count
        /\ new.tried = call[c].tried
    BY <1>1 DEF Rec
  <2> HIDE DEF new
  <2> QED BY <1>1, <1>2, <2>1, <2>2, <2>3 DEF Waits, KeepsTokens, KeepsCounts
<1>3. CASE lock = None
  <2> DEFINE new == [call[c] EXCEPT !.pc = "refreshWait"]
  <2>1. Refresh(c, new, call[c].using) /\ lock' = c
    BY <1>3 DEF ReadBody
  <2>2. /\ new.pc = "refreshWait" /\ new.using = call[c].using /\ new.resp = call[c].resp
        /\ new.token = call[c].token /\ new.refresh = call[c].refresh /\ new.looped = call[c].looped
        /\ new.count = call[c].count /\ new.tried = call[c].tried /\ new \in Rec /\ call[c].using \in Nat
    BY <1>1 DEF Rec, Pcs
  <2> HIDE DEF new
  <2>3. call'[c] = new /\ SameBut(c) /\ Joins(call[c].using)
    BY <1>1, <2>1, <2>2, JoinsDoes
  <2> QED BY <1>1, <1>3, <2>1, <2>2, <2>3 DEF Waits, KeepsTokens, KeepsCounts
<1> QED BY <1>2, <1>3

\* The interceptor lets fetchCore() try again, if it may.
LEMMA RetryDoes ==
    ASSUME Shape, NEW c \in Calls, Retry(c)
    PROVE  /\ call[c].pc = "retry" /\ (Repeats(c, TRUE) \/ (~MayRetry(c) /\ Returns(c)))
           /\ UNCHANGED <<server, holder, lock, status, together, expiries, faults>>
<1>1. call[c].pc = "retry" /\ UNCHANGED <<server, holder, lock, status, together, expiries, faults>>
  BY DEF Retry
<1>2. CASE MayRetry(c)
  <2>1. call' = [call EXCEPT ![c] = Again(@, TRUE)]
    BY <1>2 DEF Retry
  <2> QED BY <1>1, <1>2, <2>1, RepeatsDoes
<1>3. CASE ~MayRetry(c)
  BY <1>1, <1>3, ReturnsDoes DEF Retry
<1> QED BY <1>2, <1>3

\* Or has it return the answer it got.
LEMMA AbortDoes ==
    ASSUME Shape, NEW c \in Calls, Abort(c)
    PROVE  /\ call[c].pc = "aborted" /\ Returns(c)
           /\ UNCHANGED <<server, holder, lock, status, together, expiries, faults>>
<1>1. call[c].pc = "aborted" /\ UNCHANGED <<server, holder, lock, status, together, expiries, faults>>
  BY DEF Abort
<1> QED BY <1>1, ReturnsDoes DEF Abort

--------------------------------------------------------------------------------
(* Tokens have been issued, and an answer is there when it is needed. *)

FitsRec(c, rec, n) ==
    /\ rec.token <= n /\ rec.refresh <= n /\ rec.using <= n
    /\ rec.pc \in {"idle", "sending"} => rec.resp = "none"
    /\ rec.pc \in {"answered", "ended"} => rec.resp # "none"
    /\ rec.pc \in {"reading", "retry", "aborted"} \cup WaitPcs => rec.resp = "expired"
    /\ rec.pc \in {"reading", "lockWait", "refreshWait", "retry", "aborted"} => Intercepts(c)
    /\ rec.pc = "loopWait" => Loops(c) /\ ~rec.looped
    /\ rec.looped => Loops(c)
    /\ c \in Requests /\ rec.pc \notin {"idle", "ended"} => rec.token >= 1
    /\ c = Put /\ rec.resp = "ok" => rec.token >= 1

Tokens ==
    /\ issued \in Nat \ {0} /\ holder \in 1..issued /\ expired \in 0..issued /\ broadcast \subseteq 1..issued

Basics == IInv /\ Tokens /\ \A c \in Calls : FitsRec(c, call[c], issued)

\* What fits goes on fitting as tokens are issued.
LEMMA FitsGrows ==
    ASSUME NEW c \in Calls, NEW rec \in Rec, NEW n \in Nat, NEW m \in Nat, n <= m, FitsRec(c, rec, n)
    PROVE  FitsRec(c, rec, m)
<1>1. rec.token \in Nat /\ rec.refresh \in Nat /\ rec.using \in Nat
  BY DEF Rec
<1>2. rec.token <= m /\ rec.refresh <= m /\ rec.using <= m
  BY <1>1 DEF FitsRec
<1> QED BY <1>2 DEF FitsRec

\* A step of one call, which another may join.
LEMMA OneFits ==
    ASSUME Basics, IInv', Tokens', issued' >= issued, NEW c \in Calls,
           Same(c) \/ \E n \in 0..issued : SameBut(c) /\ (c # Put => Joins(n)),
           FitsRec(c, call'[c], issued')
    PROVE  Basics'
<1>1. call \in [Calls -> Rec] /\ issued \in Nat /\ issued' \in Nat /\ call' \in [Calls -> Rec] /\ Put \in Calls
  BY DEF Basics, IInv, Shape, Calls
<1>2. ASSUME NEW d \in Calls, d # c PROVE FitsRec(d, call'[d], issued')
  <2>1. CASE call'[d] = call[d]
    BY <1>1, <2>1, FitsGrows DEF Basics
  <2>2. CASE call'[d] # call[d]
    <3>1. PICK n \in 0..issued : SameBut(c) /\ (c # Put => Joins(n))
      BY <1>2, <2>2 DEF Same
    <3>2. d = Put /\ ~Refreshing
      BY <1>2, <2>2, <3>1 DEF SameBut, Joins
    <3>3. /\ call'[d].pc = "sending" /\ call'[d].resp = "none" /\ call'[d].using = n /\ call'[d].token = 0
          /\ call'[d].refresh = 0 /\ ~call'[d].looped
      BY <1>2, <3>1, <3>2 DEF Joins
    <3>4. n <= issued' /\ 0 <= issued' /\ d \notin Requests
      BY <1>1, <3>1, <3>2, TokenRefreshAssumption
    <3> QED BY <3>3, <3>4 DEF FitsRec, WaitPcs
  <2> QED BY <2>1, <2>2
<1>3. \A d \in Calls : FitsRec(d, call'[d], issued')
  BY <1>2
<1> QED BY <1>3 DEF Basics

\* What becomes of a call that ends, is repeated or waits.
LEMMA FitsOn ==
    ASSUME Basics, NEW c \in Calls, call'[c] \in Rec, call[c].pc # "idle", call[c].pc # "ended",
           \/ \E t \in BOOLEAN : Repeats(c, t)
           \/ \E resp \in Resps \ {"none"} : Ends(c, resp) /\ (resp = "ok" => call[c].resp = "ok")
           \/ LoopWaits(c)
           \/ Intercepts(c) /\ call[c].resp = "expired" /\ Waits(c, "reading") /\ call'[c].using = holder
           \/ Intercepts(c) /\ call[c].resp = "expired" /\ call'[c].using = call[c].using
              /\ \E pc \in {"lockWait", "refreshWait"} : Waits(c, pc)
    PROVE  FitsRec(c, call'[c], issued)
<1>1. call[c] \in Rec /\ issued \in Nat /\ 0 <= issued /\ holder <= issued /\ FitsRec(c, call[c], issued)
  BY DEF Basics, IInv, Shape, Tokens
<1>2. CASE \E t \in BOOLEAN : Repeats(c, t)
  BY <1>1, <1>2 DEF Repeats, KeepsTokens, FitsRec, WaitPcs
<1>3. CASE \E resp \in Resps \ {"none"} : Ends(c, resp) /\ (resp = "ok" => call[c].resp = "ok")
  BY <1>1, <1>3 DEF Ends, FitsRec, WaitPcs
<1>4. CASE LoopWaits(c)
  BY <1>1, <1>4 DEF LoopWaits, Waits, KeepsTokens, KeepsCounts, FitsRec, WaitPcs
<1>5. CASE Intercepts(c) /\ call[c].resp = "expired" /\ Waits(c, "reading") /\ call'[c].using = holder
  BY <1>1, <1>5 DEF Waits, KeepsTokens, KeepsCounts, FitsRec, WaitPcs
<1>6. CASE Intercepts(c) /\ call[c].resp = "expired" /\ call'[c].using = call[c].using
           /\ \E pc \in {"lockWait", "refreshWait"} : Waits(c, pc)
  BY <1>1, <1>6 DEF Waits, KeepsTokens, KeepsCounts, FitsRec, WaitPcs
<1> QED BY <1>2, <1>3, <1>4, <1>5, <1>6

\* At first no token but one has been issued.
LEMMA BasicsInit == Init => Basics
<1> SUFFICES ASSUME Init PROVE Basics
  OBVIOUS
<1>1. \A c \in Calls : call[c] = NoCall
  BY DEF Init
<1>2. Tokens
  BY DEF Init, Tokens
<1>3. \A c \in Calls : FitsRec(c, NoCall, 1)
  BY DEF FitsRec, NoCall, WaitPcs
<1> QED BY <1>1, <1>2, <1>3, InitKeeps DEF Basics, Init

\* The steps of the server, of other editors and of the client.
LEMMA SurroundingsFit ==
    ASSUME Basics, IInv', Surroundings
    PROVE  Basics'
<1>0. /\ issued \in Nat \ {0} /\ holder \in 1..issued /\ expired \in 0..issued /\ broadcast \subseteq 1..issued
      /\ call \in [Calls -> Rec] /\ \A c \in Calls : FitsRec(c, call[c], issued)
  BY DEF Basics, Tokens, IInv, Shape
<1>1. ASSUME UNCHANGED call, Tokens', issued' >= issued PROVE Basics'
  BY <1>0, <1>1, FitsGrows DEF Basics, Tokens
<1>2. CASE Expire
  BY <1>0, <1>1, <1>2 DEF Expire, Tokens
<1>3. CASE Revoke
  BY <1>0, <1>1, <1>3 DEF Revoke, Tokens
<1>4. CASE OtherEditorRefreshes
  <2>1. issued' = issued + 1 /\ broadcast' = broadcast \cup {issued'} /\ UNCHANGED <<call, holder, expired>>
    BY <1>4 DEF OtherEditorRefreshes
  <2>2. Tokens' /\ issued' >= issued
    BY <1>0, <2>1 DEF Tokens
  <2> QED BY <1>1, <2>1, <2>2
<1>5. CASE UserMessage
  BY <1>0, <1>1, <1>5 DEF UserMessage, Tokens
<1>6. CASE DebounceEnds
  BY <1>0, <1>1, <1>6 DEF DebounceEnds, server, Tokens
<1>7. CASE LogoutTold
  BY <1>0, <1>1, <1>7 DEF LogoutTold, server, Tokens
<1>8. ASSUME NEW r \in Requests, Start(r)
      PROVE  Basics'
  <2>1. Starts(r) /\ UNCHANGED <<issued, holder, expired, broadcast>>
    BY <1>8, StartDoes DEF Basics, IInv, server
  <2>2. r \in Calls /\ r # Put
    BY TokenRefreshAssumption DEF Calls
  <2>3. FitsRec(r, call'[r], issued')
    BY <1>0, <2>1, <2>2 DEF Starts, FitsRec, WaitPcs
  <2>4. Tokens' /\ issued' >= issued
    BY <1>0, <2>1 DEF Tokens
  <2> QED BY <2>1, <2>2, <2>3, <2>4, OneFits DEF Starts
<1> QED BY <1>2, <1>3, <1>4, <1>5, <1>6, <1>7, <1>8 DEF Surroundings

\* What fetchCore() and the interceptor make of an answer.
LEMMA GoingOnFits ==
    ASSUME Basics, IInv', NEW c \in Calls, UNCHANGED server, holder' \in 1..issued,
           \/ HandleException(c) \/ StartIntercept(c) \/ HandleResponse(c) \/ ReadBody(c)
           \/ Retry(c) \/ Abort(c) \/ RateLimited(c)
    PROVE  Basics'
<1>0. /\ issued' = issued /\ issued \in Nat /\ Tokens' /\ Shape /\ call'[c] \in Rec /\ holder \in 0..issued
      /\ call[c] \in Rec
  BY DEF Basics, Tokens, IInv, Shape, server
<1>1. FitsRec(c, call[c], issued)
  BY DEF Basics
<1>2. ASSUME Returns(c), call[c].pc \in {"answered", "retry", "aborted"} PROVE Basics'
  <2>1. call[c].resp \in Resps \ {"none"}
    BY <1>0, <1>1, <1>2 DEF FitsRec, Rec
  <2>2. FitsRec(c, call'[c], issued)
    BY <1>0, <1>2, <2>1, FitsOn DEF Returns
  <2>3. call[c].refresh \in 0..issued
    BY <1>0, <1>1 DEF FitsRec, Rec
  <2>4. Same(c) \/ \E n \in 0..issued : SameBut(c) /\ (c # Put => Joins(n))
    BY <1>2, <2>3 DEF Returns, LoopWaits, Ends
  <2> QED BY <1>0, <2>2, <2>4, OneFits
<1>3. ASSUME NEW t \in BOOLEAN, Repeats(c, t), call[c].pc \in {"answered", "retry"} PROVE Basics'
  <2>1. FitsRec(c, call'[c], issued)
    BY <1>0, <1>3, FitsOn
  <2> QED BY <1>0, <1>3, <2>1, OneFits DEF Repeats
<1>4. ASSUME Ends(c, "lost"), call[c].pc \in {"answered", "sending"} PROVE Basics'
  <2>1. FitsRec(c, call'[c], issued)
    BY <1>0, <1>4, FitsOn DEF Resps
  <2> QED BY <1>0, <1>4, <2>1, OneFits DEF Ends
<1>5. CASE HandleException(c)
  BY <1>0, <1>3, <1>4, <1>5, HandleExceptionDoes
<1>6. CASE StartIntercept(c)
  <2>1. /\ Same(c) /\ Waits(c, "reading") /\ call'[c].using = holder /\ call[c].pc = "answered"
        /\ Intercepts(c) /\ call[c].resp = "expired"
    BY <1>0, <1>6, StartInterceptDoes DEF Intercepting
  <2>2. FitsRec(c, call'[c], issued)
    BY <1>0, <2>1, FitsOn
  <2> QED BY <1>0, <2>1, <2>2, OneFits
<1>7. CASE HandleResponse(c)
  BY <1>0, <1>2, <1>3, <1>7, HandleResponseDoes
<1>8. CASE ReadBody(c)
  <2>1. /\ call[c].pc = "reading" /\ call'[c].using = call[c].using
        /\ \/ Same(c) /\ Waits(c, "lockWait")
           \/ SameBut(c) /\ Waits(c, "refreshWait") /\ Joins(call[c].using)
    BY <1>0, <1>8, ReadBodyDoes
  <2>2. Intercepts(c) /\ call[c].resp = "expired" /\ call[c].using \in 0..issued
    BY <1>0, <1>1, <2>1 DEF FitsRec, Rec
  <2>3. FitsRec(c, call'[c], issued)
    BY <1>0, <2>1, <2>2, FitsOn
  <2>4. Same(c) \/ \E n \in 0..issued : SameBut(c) /\ (c # Put => Joins(n))
    BY <2>1, <2>2
  <2> QED BY <1>0, <2>3, <2>4, OneFits
<1>9. CASE Retry(c)
  BY <1>0, <1>2, <1>3, <1>9, RetryDoes
<1>10. CASE Abort(c)
  BY <1>0, <1>2, <1>10, AbortDoes
<1>11. CASE RateLimited(c)
  BY <1>0, <1>4, <1>11, RateLimitedDoes
<1> QED BY <1>5, <1>6, <1>7, <1>8, <1>9, <1>10, <1>11

\* Answers, and failures of attempts.
LEMMA AnswersFit ==
    ASSUME Basics, IInv', NEW c \in Calls, ServerAnswers(c) \/ AttemptFails(c)
    PROVE  Basics'
<1>0. /\ issued \in Nat \ {0} /\ holder \in 1..issued /\ expired \in 0..issued /\ broadcast \subseteq 1..issued
      /\ Shape /\ call'[c] \in Rec /\ call[c] \in Rec /\ FitsRec(c, call[c], issued)
  BY DEF Basics, Tokens, IInv, Shape
<1>1. ASSUME NEW resp \in Resps \ {"none"}, NEW n \in 0..issued', Answered(c, resp, n), Tokens', issued' >= issued,
             c \in Requests => n >= 1, c = Put /\ resp = "ok" => n >= 1
      PROVE  Basics'
  <2>1. issued' \in Nat
    BY <1>1 DEF Tokens
  <2>2. call[c].refresh <= issued' /\ call[c].using <= issued'
    BY <1>0, <1>1, <2>1 DEF FitsRec, Rec
  <2>3. FitsRec(c, call'[c], issued')
    BY <1>0, <1>1, <2>2 DEF Answered, FitsRec, WaitPcs
  <2> QED BY <1>1, <2>3, OneFits DEF Answered
<1>2. ASSUME call[c].pc = "sending" PROVE call[c].token \in 0..issued /\ (c \in Requests => call[c].token >= 1)
  BY <1>0, <1>2 DEF FitsRec, Rec
<1>3. Put \notin Requests /\ {"ok", "expired", "refused", "lost", "error"} \subseteq Resps \ {"none"}
  BY TokenRefreshAssumption DEF Resps
<1>4. CASE ServerAnswers(c)
  <2>1. UNCHANGED <<expired, holder>>
    BY <1>0, <1>4, ServerAnswersDoes DEF RestStays
  <2>2. CASE c # Put
    <3>1. /\ UNCHANGED <<issued, broadcast, rotated>>
          /\ Answered(c, IF call[c].token > expired THEN "ok" ELSE "expired", call[c].token)
      BY <1>0, <1>4, <2>2, ServerAnswersDoes
    <3>2. call[c].pc = "sending" /\ Tokens' /\ issued' >= issued
      BY <1>0, <2>1, <3>1 DEF Answered, Tokens
    <3> QED BY <1>1, <1>2, <1>3, <2>2, <3>1, <3>2
  <2>3. ASSUME c = Put, issued' = issued + 1, broadcast' = broadcast \cup {issued'}, Answered(Put, "ok", issued')
        PROVE  Basics'
    <3>1. Tokens' /\ issued' >= issued /\ issued' \in 0..issued' /\ issued' >= 1
      BY <1>0, <2>1, <2>3 DEF Tokens
    <3> QED BY <1>1, <1>3, <2>3, <3>1
  <2>4. ASSUME c = Put, UNCHANGED <<issued, broadcast>>, NEW resp \in {"refused", "expired"},
               Answered(Put, resp, call[Put].token)
        PROVE  Basics'
    <3>1. Tokens' /\ issued' >= issued /\ call[c].pc = "sending"
      BY <1>0, <2>1, <2>4 DEF Tokens, Answered
    <3> QED BY <1>1, <1>2, <1>3, <2>4, <3>1
  <2> QED BY <1>0, <1>4, <2>2, <2>3, <2>4, ServerAnswersDoes
<1>5. CASE AttemptFails(c)
  <2>1. /\ UNCHANGED <<expired, holder>>
        /\ \/ issued' = issued + 1 /\ broadcast' = broadcast \cup {issued'}
           \/ UNCHANGED <<issued, broadcast>>
    BY <1>0, <1>5, AttemptFailsDoes
  <2>2. PICK resp \in {"lost", "error"} : Answered(c, resp, call[c].token)
    BY <1>0, <1>5, AttemptFailsDoes
  <2>3. Tokens' /\ issued' >= issued
    <3>1. CASE issued' = issued + 1 /\ broadcast' = broadcast \cup {issued'}
      BY <1>0, <2>1, <3>1 DEF Tokens
    <3>2. CASE UNCHANGED <<issued, broadcast>>
      BY <1>0, <2>1, <3>2 DEF Tokens
    <3> QED BY <2>1, <3>1, <3>2
  <2>4. call[c].pc = "sending"
    BY <2>2 DEF Answered
  <2>5. call[c].token \in 0..issued'
    BY <1>0, <1>2, <2>3, <2>4 DEF Tokens
  <2> QED BY <1>1, <1>2, <1>3, <2>2, <2>3, <2>4, <2>5
<1> QED BY <1>4, <1>5

\* The refresh is over.
LEMMA OverFits ==
    ASSUME Basics, IInv', RefreshSucceeds \/ RefreshFails
    PROVE  Basics'
<1>0. /\ issued \in Nat \ {0} /\ holder \in 1..issued /\ expired \in 0..issued /\ broadcast \subseteq 1..issued
      /\ Shape /\ call' \in [Calls -> Rec] /\ call \in [Calls -> Rec] /\ \A c \in Calls : FitsRec(c, call[c], issued)
      /\ Put \in Calls /\ Put \notin Requests /\ Calls = Requests \cup {Put}
  BY TokenRefreshAssumption DEF Basics, Tokens, IInv, Shape, Calls
<1>1. PICK ok \in BOOLEAN : RefreshIsOver(ok)
  BY <1>0, RefreshIsOverDoes
<1> DEFINE n == IF ok THEN call[Put].token ELSE holder
<1>2. n \in 1..issued /\ holder' = n /\ UNCHANGED <<issued, expired, broadcast>>
  BY <1>0, <1>1 DEF RefreshIsOver, FitsRec, server, Rec
<1>3. Tokens'
  BY <1>0, <1>2 DEF Tokens
<1>4. FitsRec(Put, call'[Put], issued)
  BY <1>0, <1>1 DEF RefreshIsOver, FitsRec, WaitPcs
<1>5. ASSUME NEW r \in Requests PROVE FitsRec(r, call'[r], issued)
  <2>1. Resumes(r, ok) /\ FitsRec(r, call[r], issued) /\ r # Put /\ call[r] \in Rec /\ call'[r] \in Rec
    BY <1>0, <1>1 DEF RefreshIsOver
  <2>2. n >= 1 /\ n <= issued /\ 0 <= issued
    BY <1>0, <1>2
  <2>3. CASE call[r].pc = "refreshWait"
    <3>1. CASE ok
      BY <2>1, <2>2, <2>3, <3>1 DEF Resumes, FitsRec, WaitPcs
    <3>2. CASE ~ok
      BY <2>1, <2>2, <2>3, <3>2 DEF Resumes, FitsRec, WaitPcs
    <3> QED BY <3>1, <3>2
  <2>4. CASE call[r].pc = "lockWait"
    BY <2>1, <2>2, <2>4 DEF Resumes, FitsRec, WaitPcs
  <2>5. CASE call[r].pc = "loopWait"
    <3>1. CASE ok
      BY <2>1, <2>2, <2>5, <3>1 DEF Resumes, FitsRec, WaitPcs
    <3>2. CASE ~ok
      BY <2>1, <2>2, <2>5, <3>2 DEF Resumes, FitsRec, WaitPcs
    <3> QED BY <3>1, <3>2
  <2>6. CASE call[r].pc \notin WaitPcs
    BY <2>1, <2>6 DEF Resumes
  <2> QED BY <2>3, <2>4, <2>5, <2>6 DEF WaitPcs
<1> QED BY <1>0, <1>2, <1>3, <1>4, <1>5 DEF Basics

\* Every step.
LEMMA BasicsStep == Basics /\ [Next]_vars => Basics'
<1> SUFFICES ASSUME Basics, [Next]_vars PROVE Basics'
  OBVIOUS
<1>1. IInv'
  BY StepKeeps DEF Basics
<1>2. CASE UNCHANGED vars
  BY <1>1, <1>2 DEF vars, server, Basics, Tokens
<1>3. holder \in 1..issued /\ Shape /\ Requests \subseteq Calls
  BY DEF Basics, Tokens, IInv, Calls
<1>4. CASE RefreshSucceeds \/ RefreshFails
  BY <1>1, <1>4, OverFits
<1>5. ASSUME NEW c \in Calls,
             \/ RateLimited(c) \/ HandleException(c) \/ StartIntercept(c) \/ HandleResponse(c) \/ ReadBody(c)
             \/ Retry(c) \/ Abort(c)
      PROVE  Basics'
  <2>1. UNCHANGED <<server, holder>>
    BY <1>3, <1>5, RateLimitedDoes, HandleExceptionDoes, StartInterceptDoes, HandleResponseDoes, ReadBodyDoes,
       RetryDoes, AbortDoes
  <2>2. holder' \in 1..issued
    BY <1>3, <2>1
  <2> QED BY <1>1, <1>5, <2>1, <2>2, GoingOnFits
<1>6. CASE Attempts
  BY <1>1, <1>5, <1>6, AnswersFit DEF Attempts
<1>7. CASE Surroundings
  BY <1>1, <1>7, SurroundingsFit
<1>8. CASE Continue
  BY <1>3, <1>4, <1>5, <1>8 DEF Continue
<1> QED BY <1>2, <1>6, <1>7, <1>8 DEF Next, Progress

\* So it is in every state.
LEMMA BasicsInvariant == Spec => []Basics
BY BasicsInit, BasicsStep, PTL DEF Spec

--------------------------------------------------------------------------------

\* However many requests meet an expired token at once, whoever waits for the lock or for a
\* refresh waits for one that is under way, and the lock is never held by a request whose
\* refresh is not (newRelicResponseInterceptor.ts, codestreamApi.ts).
THEOREM WaitersServed == Spec => []WaitersAreServed
<1>1. IInv => WaitersAreServed
  BY DEF IInv
<1> QED
  BY <1>1, Inductive, PTL

\* No mixture of exceptions, server errors and refreshes makes fetchCore() try more often
\* than it may: the refresh of the loop starts the count anew, nothing else does
\* (fetchCore.ts).
THEOREM RetriesBounded == Spec => []RetriesAreBounded
<1>1. IInv => RetriesAreBounded
  BY TokenRefreshAssumption DEF IInv, Shape, Rec, RetriesAreBounded
<1> QED
  BY <1>1, Inductive, PTL


--------------------------------------------------------------------------------
(* The types of TokenRefresh, and what the client is told of the session. *)

Debounces == [status : {"active", "expired"}, again : BOOLEAN]
OnePerStatus ==
    /\ timers \in Seq(Debounces)
    /\ \A i, j \in 1..Len(timers) : timers[i].status = timers[j].status => i = j

\* The end of a sequence.
LEMMA SuffixProperties ==
    ASSUME NEW S, NEW s, NEW m \in Nat, NEW n \in Nat, m <= n, \A i \in (m + 1)..n : s[i] \in S
    PROVE  /\ SubSeq(s, m + 1, n) \in Seq(S) /\ Len(SubSeq(s, m + 1, n)) = n - m
           /\ \A i \in 1..(n - m) : SubSeq(s, m + 1, n)[i] = s[i + m]
<1>1. m + 1 \in Int /\ n \in Int /\ n - (m + 1) + 1 = n - m
  OBVIOUS
<1>2. (IF m + 1 <= n THEN n - (m + 1) + 1 ELSE 0) = n - m
  OBVIOUS
<1>3. /\ SubSeq(s, m + 1, n) \in Seq(S)
      /\ Len(SubSeq(s, m + 1, n)) = IF m + 1 <= n THEN n - (m + 1) + 1 ELSE 0
      /\ \A i \in 1..(n - (m + 1) + 1) : SubSeq(s, m + 1, n)[i] = s[m + 1 + i - 1]
  BY <1>1, SubSeqProperties
<1>4. \A i \in 1..(n - m) : m + 1 + i - 1 = i + m
  OBVIOUS
<1> QED BY <1>1, <1>2, <1>3, <1>4

\* What remains of the timers without the one of a status.
LEMMA OthersType ==
    ASSUME OnePerStatus, NEW s \in {"active", "expired"}
    PROVE  /\ Others(s) \in Seq(Debounces)
           /\ \A i \in 1..Len(Others(s)) : Others(s)[i].status # s
           /\ \A i, j \in 1..Len(Others(s)) : Others(s)[i].status = Others(s)[j].status => i = j
           /\ \A i \in 1..Len(Others(s)) : \E j \in 1..Len(timers) : Others(s)[i] = timers[j]
<1> DEFINE I == {i \in 1..Len(timers) : timers[i].status = s}
<1>0. Len(timers) \in Nat /\ DOMAIN timers = 1..Len(timers)
  BY DEF OnePerStatus
<1>1. CASE I = {}
  <2>1. \A i \in 1..Len(timers) : timers[i].status # s
    BY <1>1
  <2>2. Others(s) = timers
    BY <2>1 DEF Others, RemoveFirstMatch
  <2> QED BY <2>1, <2>2 DEF OnePerStatus
<1>2. CASE I # {}
  <2>1. PICK k \in 1..Len(timers) : timers[k].status = s
    BY <1>2
  <2>2. \A i \in 1..Len(timers) : timers[i].status = s => i = k
    BY <2>1 DEF OnePerStatus
  <2>3. I = {k}
    BY <2>1, <2>2
  <2>4. Min({k}) = k
    BY DEF Min
  <2>5. Others(s) = SubSeq(timers, 1, k - 1) \o SubSeq(timers, k + 1, Len(timers))
    <3>1. {i \in 1..Len(timers) : timers[i].status = s} = {k}
      BY <2>3
    <3>2. Others(s) = SubSeq(timers, 1, Min({k}) - 1) \o SubSeq(timers, Min({k}) + 1, Len(timers))
      BY <2>1, <3>1 DEF Others, RemoveFirstMatch, SelectInSeq, RemoveAt
    <3> QED BY <3>2, <2>4
  <2> DEFINE left == SubSeq(timers, 1, k - 1)
             right == SubSeq(timers, k + 1, Len(timers))
  <2>6. /\ left \in Seq(Debounces) /\ Len(left) = k - 1
        /\ \A i \in 1..(k - 1) : left[i] = timers[i]
    BY <1>0, <2>1 DEF OnePerStatus
  <2>7. /\ right \in Seq(Debounces) /\ Len(right) = Len(timers) - k
        /\ \A i \in 1..(Len(timers) - k) : right[i] = timers[i + k]
    <3>1. \A i \in (k + 1)..Len(timers) : timers[i] \in Debounces
      BY <1>0, <2>1 DEF OnePerStatus
    <3>2. k \in Nat /\ Len(timers) \in Nat /\ k <= Len(timers)
      BY <1>0, <2>1
    <3> QED BY <3>1, <3>2, SuffixProperties
  <2> HIDE DEF left, right
  <2>8. /\ left \o right \in Seq(Debounces) /\ Len(left \o right) = Len(timers) - 1
        /\ \A i \in 1..(Len(timers) - 1) : (left \o right)[i] = timers[IF i < k THEN i ELSE i + 1]
    <3>a. left \in Seq(Debounces) /\ right \in Seq(Debounces)
      BY <2>6, <2>7
    <3>1. /\ left \o right \in Seq(Debounces) /\ Len(left \o right) = Len(left) + Len(right)
          /\ \A i \in 1..(Len(left) + Len(right)) : (left \o right)[i] = IF i <= Len(left) THEN left[i] ELSE right[i - Len(left)]
      BY <3>a, ConcatProperties
    <3>2. Len(left) + Len(right) = Len(timers) - 1
      BY <1>0, <2>1, <2>6, <2>7
    <3>3. ASSUME NEW i \in 1..(Len(timers) - 1), i < k
          PROVE  (left \o right)[i] = timers[i]
      <4>1. i \in 1..(k - 1)
        BY <1>0, <2>1, <3>3
      <4>2. i \in 1..(Len(left) + Len(right)) /\ i <= Len(left)
        BY <1>0, <2>1, <2>6, <2>7, <4>1
      <4> QED BY <2>6, <3>1, <4>1, <4>2
    <3>4. ASSUME NEW i \in 1..(Len(timers) - 1), ~(i < k)
          PROVE  (left \o right)[i] = timers[i + 1]
      <4>1. /\ i \in (Len(left) + 1)..(Len(left) + Len(right))
            /\ i \in 1..(Len(left) + Len(right)) /\ ~(i <= Len(left))
            /\ i - Len(left) \in 1..(Len(timers) - k) /\ i - Len(left) + k = i + 1
        BY <1>0, <2>1, <2>6, <2>7, <3>4
      <4> QED BY <2>7, <3>1, <4>1
    <3> QED BY <3>1, <3>2, <3>3, <3>4
  <2>9. Others(s) = left \o right
    BY <2>5 DEF left, right
  <2> DEFINE at(i) == IF i < k THEN i ELSE i + 1
  <2>10. \A i \in 1..(Len(timers) - 1) : at(i) \in 1..Len(timers) /\ at(i) # k
    BY <1>0, <2>1
  <2>11. \A i, j \in 1..(Len(timers) - 1) : at(i) = at(j) => i = j
    BY <1>0, <2>1
  <2>12. \A i \in 1..(Len(timers) - 1) : Others(s)[i] = timers[at(i)]
    BY <2>8, <2>9
  <2> HIDE DEF at
  <2> DEFINE others == Others(s)
  <2>13. others \in Seq(Debounces) /\ Len(others) = Len(timers) - 1
         /\ \A i \in 1..Len(others) : others[i] = timers[at(i)]
    BY <2>8, <2>9, <2>12
  <2> HIDE DEF others
  <2>14. \A i \in 1..Len(others) : others[i].status # s
    BY <2>2, <2>10, <2>13
  <2>15. \A i, j \in 1..Len(others) : others[i].status = others[j].status => i = j
    BY <2>10, <2>11, <2>13 DEF OnePerStatus
  <2>16. \A i \in 1..Len(others) : \E j \in 1..Len(timers) : others[i] = timers[j]
    BY <2>10, <2>13
  <2> QED BY <2>13, <2>14, <2>15, <2>16 DEF others
<1> QED BY <1>1, <1>2

--------------------------------------------------------------------------------
(* What the client is told. *)


Scalars ==
    /\ revoked \in BOOLEAN /\ rotated \in BOOLEAN /\ refreshFailed \in BOOLEAN
    /\ outrun \in BOOLEAN /\ together \in BOOLEAN
    /\ logout \in {"no", "due", "told"} /\ told \in {"active", "expired"}
    /\ expiries \in Nat /\ faults \in 0..MaxFaults /\ expiries + faults <= MaxTroubles

\* The status of the session, as the client should know it.
Status == IF refreshFailed THEN "expired" ELSE "active"

\* The client has been told the status of the session, or is told it by the last timer.
LastSays(s) ==
    /\ timers = <<>> => told = s
    /\ timers # <<>> =>
        /\ timers[Len(timers)].status = s
        /\ timers[Len(timers)].again \/ (told = s /\ \A i \in 1..Len(timers) : ~timers[i].again)

Known == logout = "no" /\ ~outrun => LastSays(Status)

ClientInv == Basics /\ Scalars /\ OnePerStatus /\ Known

\* A status is told: it is the last from now on.
LEMMA TellSays ==
    ASSUME OnePerStatus, told \in {"active", "expired"}, NEW s \in {"active", "expired"}, Tell(s)
    PROVE  /\ OnePerStatus' /\ told' \in {"active", "expired"} /\ outrun' \in BOOLEAN
           /\ ~outrun' => LastSays(s)'
<1> DEFINE others == Others(s)
           new == [status |-> s, again |-> Waiting(s)]
<1>1. /\ others \in Seq(Debounces)
      /\ \A i \in 1..Len(others) : others[i].status # s
      /\ \A i, j \in 1..Len(others) : others[i].status = others[j].status => i = j
      /\ \A i \in 1..Len(others) : \E j \in 1..Len(timers) : others[i] = timers[j]
  BY OthersType
<1>2. Waiting(s) \in BOOLEAN
  BY DEF Waiting
<1>3. new \in Debounces /\ new.status = s /\ new.again = Waiting(s)
  BY <1>2 DEF Debounces
<1>4. timers' = Append(others, new)
  BY DEF Tell
<1> HIDE DEF others, new
<1>5. /\ timers' \in Seq(Debounces) /\ Len(timers') = Len(others) + 1
      /\ timers'[Len(timers')] = new
      /\ \A i \in 1..Len(others) : timers'[i] = others[i]
      /\ Len(others) \in Nat
  BY <1>1, <1>3, <1>4
<1>6. \A i \in 1..Len(timers') : i \in 1..Len(others) \/ i = Len(timers')
  BY <1>5
<1>7. \A i, j \in 1..Len(timers') : timers'[i].status = timers'[j].status => i = j
  BY <1>1, <1>3, <1>5, <1>6
<1>8. OnePerStatus'
  BY <1>5, <1>7 DEF OnePerStatus
<1>9. told' \in {"active", "expired"} /\ outrun' \in BOOLEAN
  BY DEF Tell
<1>10. timers' # <<>> /\ timers'[Len(timers')].status = s /\ timers'[Len(timers')].again = Waiting(s)
  BY <1>3, <1>5
<1>11. ASSUME ~outrun', ~Waiting(s)
       PROVE  told' = s /\ \A i \in 1..Len(timers') : ~timers'[i].again
  <2>1. told' = s /\ ~\E i \in DOMAIN timers : timers[i].again
    BY <1>11 DEF Tell
  <2>2. DOMAIN timers = 1..Len(timers)
    BY DEF OnePerStatus
  <2>3. \A i \in 1..Len(others) : ~others[i].again
    BY <1>1, <2>1, <2>2
  <2> QED BY <1>3, <1>5, <1>6, <1>11, <2>1, <2>3
<1>12. ~outrun' => LastSays(s)'
  BY <1>10, <1>11 DEF LastSays
<1> QED BY <1>8, <1>9, <1>12

\* A timer ends: the last says what it said.
LEMMA DebounceSays ==
    ASSUME OnePerStatus, told \in {"active", "expired"}, DebounceEnds, NEW s \in {"active", "expired"}
    PROVE  /\ OnePerStatus' /\ told' \in {"active", "expired"}
           /\ LastSays(s) => LastSays(s)'
<1>1. timers \in Seq(Debounces) /\ timers # <<>> /\ timers' = Tail(timers)
  BY DEF OnePerStatus, DebounceEnds
<1>2. /\ timers' \in Seq(Debounces) /\ Len(timers') = Len(timers) - 1 /\ Len(timers) \in Nat \ {0}
      /\ \A i \in 1..Len(timers') : timers'[i] = timers[i + 1]
      /\ Head(timers) = timers[1] /\ timers[1] \in Debounces
  BY <1>1
<1>3. OnePerStatus'
  <2>1. \A i \in 1..Len(timers') : i + 1 \in 1..Len(timers)
    BY <1>2
  <2>2. \A i, j \in 1..Len(timers') : i + 1 = j + 1 => i = j
    BY <1>2
  <2> QED BY <1>2, <2>1, <2>2 DEF OnePerStatus
<1>4. told' = IF timers[1].again THEN timers[1].status ELSE told
  BY <1>2 DEF DebounceEnds
<1>5. told' \in {"active", "expired"}
  BY <1>2, <1>4 DEF Debounces
<1>6. ASSUME LastSays(s) PROVE LastSays(s)'
  <2>1. /\ timers[Len(timers)].status = s
        /\ timers[Len(timers)].again \/ (told = s /\ \A i \in 1..Len(timers) : ~timers[i].again)
    BY <1>1, <1>6 DEF LastSays
  <2>2. CASE Len(timers) = 1
    <3>1. timers' = <<>>
      BY <1>2, <2>2
    <3>2. told' = s
      BY <1>4, <2>1, <2>2
    <3> QED BY <3>1, <3>2 DEF LastSays
  <2>3. CASE Len(timers) # 1
    <3>1. timers' # <<>> /\ Len(timers') \in 1..Len(timers') /\ Len(timers') + 1 = Len(timers) /\ 1 \in 1..Len(timers)
      BY <1>2, <2>3
    <3>2. timers'[Len(timers')] = timers[Len(timers)]
      BY <1>2, <3>1
    <3>3. ASSUME ~timers[Len(timers)].again
          PROVE  told' = s /\ \A i \in 1..Len(timers') : ~timers'[i].again
      <4>1. told = s /\ \A i \in 1..Len(timers) : ~timers[i].again
        BY <2>1, <3>3
      <4>2. \A i \in 1..Len(timers') : i + 1 \in 1..Len(timers)
        BY <1>2
      <4> QED BY <1>2, <1>4, <3>1, <4>1, <4>2
    <3> QED BY <2>1, <3>1, <3>2, <3>3 DEF LastSays
  <2> QED BY <2>2, <2>3
<1> QED BY <1>3, <1>5, <1>6

--------------------------------------------------------------------------------
(* The steps. *)

\* No step but five changes what the client is told or what it should know.
Quiet ==
    UNCHANGED <<refreshFailed, told, timers, outrun>> /\ logout' \in {logout, "due"}

\* A step of a call, as far as the client and the bounds are concerned.
LEMMA CallsAreQuiet ==
    ASSUME Shape, Scalars, NEW c \in Calls,
           \/ ServerAnswers(c) \/ AttemptFails(c) \/ RateLimited(c) \/ HandleException(c)
           \/ StartIntercept(c) \/ HandleResponse(c) \/ ReadBody(c) \/ Retry(c) \/ Abort(c)
    PROVE  Quiet /\ Scalars'
<1>0. expiries \in Nat /\ MaxTroubles \in Nat /\ MaxFaults \in Nat /\ faults \in Nat
  BY TokenRefreshAssumption DEF Scalars
<1>1. ASSUME UNCHANGED <<server, status, together, expiries, faults>> PROVE Quiet /\ Scalars'
  BY <1>1 DEF server, status, Quiet, Scalars
<1>2. CASE ServerAnswers(c)
  <2>1. UNCHANGED <<revoked, status, together, expiries, faults>>
    BY <1>2 DEF ServerAnswers
  <2>2. rotated' = (rotated \/ ~revoked) \/ rotated' = rotated
    BY <1>2 DEF ServerAnswers, Serves, Grants
  <2>3. rotated' \in BOOLEAN
    BY <2>2 DEF Scalars
  <2> QED BY <2>1, <2>3 DEF status, Quiet, Scalars
<1>3. CASE AttemptFails(c)
  <2>1. /\ expiries + faults < MaxTroubles /\ faults < MaxFaults /\ faults' = faults + 1
        /\ UNCHANGED <<revoked, status, together, expiries>>
    BY <1>3 DEF AttemptFails, Fault, MayFail
  <2>2. rotated' \in {rotated, rotated \/ ~revoked}
    BY <1>3, AttemptFailsDoes
  <2>3. rotated' \in BOOLEAN
    BY <2>2 DEF Scalars
  <2>4. faults' \in 0..MaxFaults /\ expiries' + faults' <= MaxTroubles /\ expiries' \in Nat
    BY <1>0, <2>1
  <2> QED BY <2>1, <2>3, <2>4 DEF status, Quiet, Scalars
<1>4. CASE RateLimited(c)
  <2>1. /\ expiries + faults < MaxTroubles /\ faults < MaxFaults /\ faults' = faults + 1
        /\ UNCHANGED <<revoked, rotated, refreshFailed, told, timers, outrun, together, expiries>>
    BY <1>4 DEF RateLimited, Fault, MayFail, server
  <2>2. logout' \in {logout, "due"}
    BY <1>4, RateLimitedDoes
  <2>3. faults' \in 0..MaxFaults /\ expiries' + faults' <= MaxTroubles /\ expiries' \in Nat
    BY <1>0, <2>1
  <2> QED BY <2>1, <2>2, <2>3 DEF Quiet, Scalars
<1> QED BY <1>1, <1>2, <1>3, <1>4, HandleExceptionDoes, StartInterceptDoes, HandleResponseDoes, ReadBodyDoes,
           RetryDoes, AbortDoes

\* The surroundings, but for the timers and the logout.
LEMMA SurroundingsAreQuiet ==
    ASSUME Shape, Scalars,
           Expire \/ Revoke \/ OtherEditorRefreshes \/ UserMessage \/ \E r \in Requests : Start(r)
    PROVE  Quiet /\ Scalars'
<1>0. expiries \in Nat /\ MaxTroubles \in Nat /\ MaxFaults \in Nat /\ faults \in Nat
  BY TokenRefreshAssumption DEF Scalars
<1>1. CASE Expire
  <2>1. /\ expiries + faults < MaxTroubles /\ expiries' = expiries + 1
        /\ UNCHANGED <<revoked, rotated, status, together, faults>>
    BY <1>1 DEF Expire, MayFail
  <2>2. expiries' + faults' <= MaxTroubles /\ expiries' \in Nat
    BY <1>0, <2>1
  <2> QED BY <2>1, <2>2 DEF status, Quiet, Scalars
<1>2. CASE Revoke
  <2>1. /\ expiries + faults < MaxTroubles /\ faults < MaxFaults /\ faults' = faults + 1
        /\ revoked' = TRUE /\ UNCHANGED <<rotated, status, together, expiries>>
    BY <1>2 DEF Revoke, Fault, MayFail
  <2>2. faults' \in 0..MaxFaults /\ expiries' + faults' <= MaxTroubles
    BY <1>0, <2>1
  <2> QED BY <2>1, <2>2 DEF status, Quiet, Scalars
<1>3. CASE OtherEditorRefreshes
  <2>1. /\ expiries + faults < MaxTroubles /\ faults < MaxFaults /\ faults' = faults + 1
        /\ UNCHANGED <<revoked, rotated, status, together, expiries>>
    BY <1>3 DEF OtherEditorRefreshes, Fault, MayFail
  <2>2. faults' \in 0..MaxFaults /\ expiries' + faults' <= MaxTroubles
    BY <1>0, <2>1
  <2> QED BY <2>1, <2>2 DEF status, Quiet, Scalars
<1>4. CASE UserMessage
  BY <1>4 DEF UserMessage, status, Quiet, Scalars
<1>5. CASE \E r \in Requests : Start(r)
  <2>1. UNCHANGED <<server, status, expiries, faults>> /\ together' \in BOOLEAN
    BY <1>5 DEF Start, Scalars
  <2> QED BY <2>1 DEF server, status, Quiet, Scalars
<1> QED BY <1>1, <1>2, <1>3, <1>4, <1>5

\* What changes nothing the client should know leaves it knowing it.
LEMMA QuietKnows ==
    ASSUME OnePerStatus, Known, Quiet
    PROVE  OnePerStatus' /\ Known'
<1>1. OnePerStatus'
  BY DEF OnePerStatus, Quiet
<1>2. (logout' = "no" /\ ~outrun') => (logout = "no" /\ ~outrun)
  BY DEF Quiet
<1>3. Status' = Status /\ (LastSays(Status) => LastSays(Status)')
  BY DEF Status, LastSays, Quiet
<1> QED BY <1>1, <1>2, <1>3 DEF Known

\* Each step leaves the client knowing what it should.
LEMMA ClientStep == ClientInv /\ [Next]_vars => ClientInv'
<1> SUFFICES ASSUME ClientInv, [Next]_vars PROVE ClientInv'
  OBVIOUS
<1>1. Basics' /\ Shape /\ Scalars /\ OnePerStatus /\ Known /\ told \in {"active", "expired"} /\ Requests \subseteq Calls
  BY BasicsStep DEF ClientInv, Basics, IInv, Scalars, Calls
<1>2. ASSUME Quiet, Scalars' PROVE ClientInv'
  BY <1>1, <1>2, QuietKnows DEF ClientInv
<1>3. CASE UNCHANGED vars
  BY <1>1, <1>2, <1>3 DEF vars, server, status, Quiet, Scalars
<1>4. CASE RefreshSucceeds
  <2>1. /\ refreshFailed' = FALSE /\ UNCHANGED <<server, logout, together, expiries, faults>>
        /\ IF refreshFailed THEN Tell("active") ELSE TellNothing
    BY <1>4 DEF RefreshSucceeds, Recovering
  <2>2. CASE refreshFailed
    <3>1. OnePerStatus' /\ told' \in {"active", "expired"} /\ outrun' \in BOOLEAN /\ (~outrun' => LastSays("active")')
      BY <1>1, <2>1, <2>2, TellSays
    <3>2. Scalars'
      BY <1>1, <2>1, <3>1 DEF Scalars, server
    <3>3. Known'
      BY <2>1, <3>1 DEF Known, Status, LastSays
    <3> QED BY <1>1, <3>1, <3>2, <3>3 DEF ClientInv
  <2>3. CASE ~refreshFailed
    <3>1. refreshFailed = FALSE
      BY <1>1, <2>3 DEF Scalars
    <3>2. Quiet /\ Scalars'
      BY <1>1, <2>1, <3>1 DEF Quiet, TellNothing, Scalars, server
    <3> QED BY <1>2, <3>2
  <2> QED BY <2>2, <2>3
<1>5. CASE RefreshFails
  <2>1. /\ UNCHANGED <<server, logout, together, expiries, faults>>
        /\ \/ refreshFailed' = TRUE /\ Tell("expired")
           \/ UNCHANGED refreshFailed /\ TellNothing
    BY <1>5 DEF RefreshFails
  <2>2. CASE refreshFailed' = TRUE /\ Tell("expired")
    <3>1. OnePerStatus' /\ told' \in {"active", "expired"} /\ outrun' \in BOOLEAN /\ (~outrun' => LastSays("expired")')
      BY <1>1, <2>2, TellSays
    <3>2. Scalars'
      BY <1>1, <2>1, <2>2, <3>1 DEF Scalars, server
    <3>3. Known'
      BY <2>2, <3>1 DEF Known, Status, LastSays
    <3> QED BY <1>1, <3>1, <3>2, <3>3 DEF ClientInv
  <2>3. CASE UNCHANGED refreshFailed /\ TellNothing
    BY <1>1, <1>2, <2>1, <2>3 DEF Quiet, TellNothing, Scalars, server
  <2> QED BY <2>1, <2>2, <2>3
<1>6. ASSUME NEW r \in Requests, Retry(r) \/ Abort(r) PROVE ClientInv'
  BY <1>1, <1>2, <1>6, CallsAreQuiet
<1>7. CASE Attempts
  BY <1>1, <1>2, <1>7, CallsAreQuiet DEF Attempts
<1>8. CASE DebounceEnds
  <2>1. UNCHANGED <<server, refreshFailed, logout, outrun, together, expiries, faults>>
    BY <1>8 DEF DebounceEnds
  <2>2. Status \in {"active", "expired"} /\ Status' = Status
    BY <2>1 DEF Status
  <2>3. OnePerStatus' /\ told' \in {"active", "expired"} /\ (LastSays(Status) => LastSays(Status)')
    <3>1. \A s \in {"active", "expired"} : LastSays(s) => LastSays(s)'
      BY <1>1, <1>8, DebounceSays
    <3>2. OnePerStatus' /\ told' \in {"active", "expired"}
      BY <1>1, <1>8, DebounceSays
    <3> QED BY <2>1, <3>1, <3>2 DEF Status, LastSays
  <2>4. Scalars'
    BY <1>1, <2>1, <2>3 DEF Scalars, server
  <2>5. Known'
    BY <1>1, <2>1, <2>3 DEF Known
  <2> QED BY <1>1, <2>3, <2>4, <2>5 DEF ClientInv
<1>9. CASE LogoutTold
  <2>1. logout' = "told" /\ Tell("expired") /\ UNCHANGED <<server, refreshFailed, together, expiries, faults>>
    BY <1>9 DEF LogoutTold
  <2>2. OnePerStatus' /\ told' \in {"active", "expired"} /\ outrun' \in BOOLEAN
    BY <1>1, <2>1, TellSays
  <2>3. Scalars'
    BY <1>1, <2>1, <2>2 DEF Scalars, server
  <2> QED BY <1>1, <2>1, <2>2, <2>3 DEF ClientInv, Known
<1>10. CASE Surroundings
  BY <1>1, <1>2, <1>8, <1>9, <1>10, SurroundingsAreQuiet DEF Surroundings
<1> QED BY <1>3, <1>4, <1>5, <1>6, <1>7, <1>10 DEF Next, Progress, Continue

\* And it starts so.
LEMMA ClientInit == Init => ClientInv
<1> SUFFICES ASSUME Init PROVE ClientInv
  OBVIOUS
<1>0. 0 \in 0..MaxFaults /\ 0 + 0 <= MaxTroubles
  BY TokenRefreshAssumption
<1>1. Scalars
  BY <1>0 DEF Init, Scalars
<1>2. OnePerStatus
  BY DEF Init, OnePerStatus
<1>3. Known
  BY DEF Init, Known, LastSays, Status
<1> QED BY <1>1, <1>2, <1>3, BasicsInit DEF ClientInv

\* So it is in every state.
LEMMA ClientInvariant == Spec => []ClientInv
BY ClientInit, ClientStep, PTL DEF Spec

--------------------------------------------------------------------------------

\* Two timers at most, as each has its own status.
LEMMA TwoTimers == OnePerStatus => Len(timers) <= 2
<1> SUFFICES ASSUME OnePerStatus, Len(timers) > 2 PROVE FALSE
  BY DEF OnePerStatus
<1>1. 1 \in 1..Len(timers) /\ 2 \in 1..Len(timers) /\ 3 \in 1..Len(timers)
  BY DEF OnePerStatus
<1>2. \A i \in 1..Len(timers) : timers[i].status \in {"active", "expired"}
  <2>1. timers \in Seq(Debounces)
    BY DEF OnePerStatus
  <2>2. \A i \in 1..Len(timers) : timers[i] \in Debounces
    BY <2>1
  <2> QED BY <2>2 DEF Debounces
<1>3. timers[1].status # timers[2].status /\ timers[1].status # timers[3].status /\ timers[2].status # timers[3].status
  BY <1>1 DEF OnePerStatus
<1> QED BY <1>1, <1>2, <1>3

\* The variables keep their types: among others, no token is in use that has not been issued,
\* each status is being debounced at most once, and no call is tried more often than
\* fetchCore() allows (fetchCore.ts, codestreamApi.ts).
THEOREM TypeCorrect == Spec => []TypeOK
<1>1. ClientInv => TypeOK
  <2> SUFFICES ASSUME ClientInv PROVE TypeOK
    OBVIOUS
  <2>1. issued \in Nat \ {0} /\ holder \in 1..issued /\ expired \in 0..issued /\ broadcast \subseteq 1..issued
    BY DEF ClientInv, Basics, Tokens
  <2>2. {issued, holder} \subseteq Nat \ {0}
    BY <2>1
  <2>3. /\ {revoked, rotated, refreshFailed, outrun, together} \subseteq BOOLEAN
        /\ logout \in {"no", "due", "told"} /\ told \in {"active", "expired"}
        /\ expiries \in Nat /\ faults \in 0..MaxFaults /\ expiries + faults <= MaxTroubles
    BY DEF ClientInv, Scalars
  <2>4. expiries \in 0..MaxTroubles
    BY <2>3, TokenRefreshAssumption
  <2>5. lock \in Requests \cup {None} /\ call \in [Calls -> Rec]
    BY DEF ClientInv, Basics, IInv, Shape
  <2>6. \A c \in Calls :
            call[c] \in [pc : {"idle", "sending", "answered", "reading", "lockWait", "refreshWait",
                               "loopWait", "retry", "aborted", "ended"},
                         token : 0..issued, refresh : 0..issued, using : 0..issued,
                         count : 0..MaxRetries, tried : BOOLEAN, looped : BOOLEAN,
                         resp : {"none", "ok", "expired", "refused", "error", "lost"}]
    <3> SUFFICES ASSUME NEW c \in Calls
                 PROVE  call[c] \in [pc : Pcs, token : 0..issued, refresh : 0..issued, using : 0..issued,
                                     count : 0..MaxRetries, tried : BOOLEAN, looped : BOOLEAN, resp : Resps]
      BY DEF Pcs, Resps
    <3>1. call[c] \in Rec
      BY <2>5
    <3>2. call[c].token \in 0..issued /\ call[c].refresh \in 0..issued /\ call[c].using \in 0..issued
      BY <2>1, <3>1 DEF ClientInv, Basics, FitsRec, Rec
    <3> QED BY <3>1, <3>2 DEF Rec
  <2>7. Len(timers) <= 2
    BY TwoTimers DEF ClientInv
  <2> QED BY <2>1, <2>2, <2>3, <2>4, <2>5, <2>6, <2>7 DEF TypeOK
<1> QED BY <1>1, ClientInvariant, PTL

\* When nothing is being debounced the client has been told the status the session has,
\* whatever the order in which refreshes failed and succeeded: unless a recovery was told
\* while a repeated "expired" waited (codestreamApi.ts, session.ts).
THEOREM ClientIsTold == Spec => []ClientKnows
<1>1. ClientInv => ClientKnows
  BY DEF ClientInv, Known, LastSays, Status, ClientKnows, Scalars
<1> QED BY <1>1, ClientInvariant, PTL

--------------------------------------------------------------------------------
(* Who moves. *)

CallSteps(c) ==
    \/ ServerAnswers(c) \/ AttemptFails(c) \/ RateLimited(c) \/ HandleException(c)
    \/ StartIntercept(c) \/ HandleResponse(c) \/ ReadBody(c) \/ Retry(c) \/ Abort(c)

\* A call that returns leaves the others alone, but that it may start a refresh.
LEMMA ReturnsAlone ==
    ASSUME Shape, NEW c \in Calls, Returns(c)
    PROVE  /\ \A r \in Requests : r # c => call'[r] = call[r]
           /\ Same(c) \/ (c # Put /\ call[c].resp = "expired" /\ \E n \in Nat : SameBut(c) /\ Joins(n))
<1>1. call[c].refresh \in Nat /\ \A r \in Requests : r \in Calls /\ r # Put
  BY TokenRefreshAssumption DEF Shape, Rec, Calls
<1>2. CASE Ends(c, call[c].resp)
  BY <1>1, <1>2 DEF Ends, Same
<1>3. CASE LoopWaits(c)
  <2>1. SameBut(c) /\ call[c].resp = "expired" /\ (c # Put => Joins(call[c].refresh))
    BY <1>3 DEF LoopWaits
  <2>2. c = Put => Same(c)
    BY <2>1 DEF SameBut, Same
  <2> QED BY <1>1, <2>1, <2>2 DEF SameBut
<1> QED BY <1>2, <1>3 DEF Returns

\* A step of a call is one of a call that does not wait, and the others stay as they are, but
\* that a refresh may start.
LEMMA OneMoves ==
    ASSUME Shape, NEW c \in Calls, CallSteps(c)
    PROVE  /\ call[c].pc \in {"sending", "answered", "reading", "retry", "aborted"}
           /\ UNCHANGED <<expired, holder, revoked, refreshFailed, together, expiries>>
           /\ \A r \in Requests : r # c => call'[r] = call[r]
           /\ Same(c) \/ (c # Put /\ \E n \in Nat : SameBut(c) /\ Joins(n))
<1>0. \A r \in Requests : r \in Calls /\ r # Put
  BY TokenRefreshAssumption DEF Calls
<1>1. call[c] \in Rec /\ call[c].using \in Nat
  BY DEF Shape, Rec
<1>2. CASE ServerAnswers(c) \/ AttemptFails(c)
  <2>1. call[c].pc = "sending" /\ UNCHANGED <<expired, holder, revoked, refreshFailed, together, expiries>>
    BY <1>2 DEF ServerAnswers, AttemptFails, status
  <2>2. Same(c)
    BY <1>2, ServerAnswersDoes, AttemptFailsDoes DEF Answered
  <2> QED BY <1>0, <2>1, <2>2 DEF Same
<1>3. CASE RateLimited(c)
  <2>1. call[c].pc = "sending" /\ UNCHANGED <<expired, holder, revoked, refreshFailed, together, expiries>> /\ Same(c)
    BY <1>3, RateLimitedDoes DEF Ends, server
  <2> QED BY <1>0, <2>1 DEF Same
<1>4. CASE HandleException(c)
  <2>1. call[c].pc = "answered" /\ UNCHANGED <<expired, holder, revoked, refreshFailed, together, expiries>> /\ Same(c)
    BY <1>4, HandleExceptionDoes DEF Ends, Repeats, server, status
  <2> QED BY <1>0, <2>1 DEF Same
<1>5. CASE StartIntercept(c)
  <2>1. call[c].pc = "answered" /\ UNCHANGED <<expired, holder, revoked, refreshFailed, together, expiries>> /\ Same(c)
    BY <1>5, StartInterceptDoes DEF server, status
  <2> QED BY <1>0, <2>1 DEF Same
<1>6. CASE HandleResponse(c)
  <2>1. call[c].pc = "answered" /\ UNCHANGED <<expired, holder, revoked, refreshFailed, together, expiries>>
    BY <1>6, HandleResponseDoes DEF server, status
  <2>2. Repeats(c, TRUE) \/ Returns(c)
    BY <1>6, HandleResponseDoes
  <2>3. CASE Repeats(c, TRUE)
    BY <1>0, <2>1, <2>3 DEF Same, Repeats
  <2> QED BY <2>1, <2>2, <2>3, ReturnsAlone
<1>7. CASE ReadBody(c)
  <2>1. call[c].pc = "reading" /\ c # Put /\ UNCHANGED <<expired, holder, revoked, refreshFailed, together, expiries>>
    BY <1>7, ReadBodyDoes DEF server, status
  <2>2. Same(c) \/ (SameBut(c) /\ Joins(call[c].using))
    BY <1>7, ReadBodyDoes
  <2> QED BY <1>0, <1>1, <2>1, <2>2 DEF Same, SameBut
<1>8. CASE Retry(c)
  <2>1. call[c].pc = "retry" /\ UNCHANGED <<expired, holder, revoked, refreshFailed, together, expiries>>
    BY <1>8, RetryDoes DEF server, status
  <2>2. Repeats(c, TRUE) \/ Returns(c)
    BY <1>8, RetryDoes
  <2>3. CASE Repeats(c, TRUE)
    BY <1>0, <2>1, <2>3 DEF Same, Repeats
  <2> QED BY <2>1, <2>2, <2>3, ReturnsAlone
<1>9. CASE Abort(c)
  <2>1. call[c].pc = "aborted" /\ UNCHANGED <<expired, holder, revoked, refreshFailed, together, expiries>> /\ Returns(c)
    BY <1>9, AbortDoes DEF server, status
  <2> QED BY <2>1, ReturnsAlone
<1> QED BY <1>2, <1>3, <1>4, <1>5, <1>6, <1>7, <1>8, <1>9 DEF CallSteps

--------------------------------------------------------------------------------
(* What a refresh brings is newer than what was refused. *)

\* Nothing is refused, and nothing is refreshed, before a token has expired; whoever waits
\* for a refresh that is granted was refused with an older token, as long as the tokens have
\* expired but once.
NewerRec(rec, put, e, k) ==
    /\ rec.resp = "expired" => k > 0
    /\ rec.resp = "expired" /\ rec.pc \in {"answered", "reading"} => rec.token <= e
    /\ rec.pc \in {"retry", "aborted"} => put.resp = "none"
    /\ rec.pc \in WaitPcs /\ put.resp = "ok" /\ k <= 1 => rec.token < put.token

Newer ==
    /\ expiries \in Nat
    /\ expired > 0 => expiries > 0
    /\ Refreshing => expiries > 0
    /\ call[Put].resp = "ok" /\ expiries <= 1 => call[Put].token > expired
    /\ \A r \in Requests : NewerRec(call[r], call[Put], expired, expiries)

\* A request moves, and may start a refresh.
LEMMA RequestNewer ==
    ASSUME Basics, Newer, NEW c \in Requests, UNCHANGED <<expired, expiries>>,
           Same(c) \/ (call[c].resp = "expired" /\ \E n \in Nat : SameBut(c) /\ Joins(n)),
           NewerRec(call'[c], call[Put], expired, expiries)
    PROVE  Newer'
<1>1. c \in Calls /\ c # Put /\ Put \in Calls /\ (\A r \in Requests : r \in Calls /\ r # Put) /\ expired \in Nat
  BY TokenRefreshAssumption DEF Calls, Basics, Tokens
<1>2. CASE Same(c) \/ Refreshing
  <2>1. call'[Put] = call[Put] /\ \A r \in Requests : r # c => call'[r] = call[r]
    BY <1>1, <1>2 DEF Same, SameBut, Joins
  <2> QED BY <1>1, <2>1 DEF Newer, Refreshing
<1>3. CASE ~Same(c) /\ ~Refreshing
  <2>1. PICK n \in Nat : SameBut(c) /\ Joins(n)
    BY <1>3
  <2>2. call'[Put].resp = "none" /\ \A r \in Requests : r # c => call'[r] = call[r]
    BY <1>1, <1>3, <2>1 DEF SameBut, Joins
  <2>3. expiries > 0
    BY <1>3 DEF Newer, NewerRec
  <2>4. \A r \in Requests : NewerRec(call'[r], call[Put], expired, expiries)
    BY <2>2 DEF Newer
  <2>5. \A r \in Requests : NewerRec(call'[r], call'[Put], expired, expiries)
    BY <2>2, <2>4 DEF NewerRec
  <2> QED BY <2>2, <2>3, <2>5 DEF Newer
<1> QED BY <1>2, <1>3

\* The refresh moves, when nobody is about to repeat anything.
LEMMA PutNewer ==
    ASSUME Basics, Newer, Idle, Same(Put), UNCHANGED <<expired, expiries>>, call[Put].pc # "idle",
           call'[Put].resp = "ok" =>
               \/ call[Put].resp = "ok" /\ call'[Put].token = call[Put].token
               \/ call'[Put].token = issued + 1
    PROVE  Newer'
<1>1. /\ Put \in Calls /\ (\A r \in Requests : r \in Calls /\ r # Put) /\ expired \in Nat /\ issued \in Nat
      /\ expired <= issued /\ expiries \in Nat
  BY TokenRefreshAssumption DEF Calls, Basics, Tokens, Newer
<1>2. \A r \in Requests : call'[r] = call[r]
  BY <1>1 DEF Same
<1>3. call'[Put].resp = "ok" /\ expiries <= 1 => call'[Put].token > expired
  BY <1>1 DEF Newer
<1>4. ASSUME NEW r \in Requests PROVE NewerRec(call[r], call'[Put], expired, expiries)
  <2>1. NewerRec(call[r], call[Put], expired, expiries) /\ call[r].pc \notin {"retry", "aborted"}
    BY DEF Newer, Idle
  <2>2. call[r].token <= issued /\ call[r].token \in Nat
    BY <1>1 DEF Basics, FitsRec, IInv, Shape, Rec
  <2>3. ASSUME call[r].pc \in WaitPcs, call'[Put].resp = "ok", expiries <= 1
        PROVE  call[r].token < call'[Put].token
    <3>1. CASE call[Put].resp = "ok" /\ call'[Put].token = call[Put].token
      BY <2>1, <2>3, <3>1 DEF NewerRec
    <3>2. CASE call'[Put].token = issued + 1
      BY <1>1, <2>2, <3>2
    <3> QED BY <2>3, <3>1, <3>2
  <2> QED BY <2>1, <2>3 DEF NewerRec
<1>5. expiries > 0
  BY DEF Newer, Refreshing
<1> QED BY <1>1, <1>2, <1>3, <1>4, <1>5 DEF Newer

\* A step of a request.
LEMMA RequestStepNewer ==
    ASSUME Basics, Newer, NEW c \in Requests, CallSteps(c)
    PROVE  Newer'
<1>0. /\ c \in Calls /\ c # Put /\ Shape /\ expired \in Nat /\ expiries \in Nat /\ call[c] \in Rec
      /\ NewerRec(call[c], call[Put], expired, expiries) /\ call[Put] \in Rec
      /\ call[Put].resp = "ok" /\ expiries <= 1 => call[Put].token > expired
  BY TokenRefreshAssumption DEF Calls, Basics, Tokens, IInv, Shape, Newer
<1>1. FitsRec(c, call[c], issued)
  BY <1>0 DEF Basics
<1>2. UNCHANGED <<expired, expiries>> /\ (Same(c) \/ \E n \in Nat : SameBut(c) /\ Joins(n))
  BY <1>0, OneMoves
<1>3. ASSUME Returns(c), call[c].pc \in {"answered", "retry", "aborted"}
      PROVE  Newer'
  <2>1. CASE Ends(c, call[c].resp)
    <3>1. NewerRec(call'[c], call[Put], expired, expiries)
      BY <1>0, <2>1 DEF Ends, NewerRec, WaitPcs
    <3>2. Same(c)
      BY <2>1 DEF Ends
    <3> QED BY <1>2, <3>1, <3>2, RequestNewer
  <2>2. CASE LoopWaits(c)
    <3>1. /\ call[c].resp = "expired" /\ call'[c].resp = "expired" /\ call'[c].pc = "loopWait"
          /\ call'[c].token = call[c].token
      BY <2>2 DEF LoopWaits, Waits, KeepsCounts, KeepsTokens
    <3>2. ASSUME call[Put].resp = "ok", expiries <= 1
          PROVE  call[c].token < call[Put].token
      <4>1. call[c].token <= expired /\ call[Put].token > expired
        BY <1>0, <1>3, <3>1, <3>2 DEF NewerRec
      <4>2. call[c].token \in Nat /\ call[Put].token \in Nat
        BY <1>0 DEF Rec
      <4> QED BY <1>0, <4>1, <4>2
    <3>3. NewerRec(call'[c], call[Put], expired, expiries)
      BY <1>0, <3>1, <3>2 DEF NewerRec
    <3> QED BY <1>2, <3>1, <3>3, RequestNewer
  <2> QED BY <1>3, <2>1, <2>2 DEF Returns
<1>4. ASSUME NEW t \in BOOLEAN, Repeats(c, t) PROVE Newer'
  <2>1. NewerRec(call'[c], call[Put], expired, expiries) /\ Same(c)
    BY <1>4 DEF Repeats, NewerRec, WaitPcs
  <2> QED BY <1>2, <2>1, RequestNewer
<1>5. ASSUME Ends(c, "lost") PROVE Newer'
  <2>1. NewerRec(call'[c], call[Put], expired, expiries) /\ Same(c)
    BY <1>5 DEF Ends, NewerRec, WaitPcs
  <2> QED BY <1>2, <2>1, RequestNewer
<1>6. CASE ServerAnswers(c)
  <2>1. Answered(c, IF call[c].token > expired THEN "ok" ELSE "expired", call[c].token)
    BY <1>0, <1>6, ServerAnswersDoes
  <2>2. call[c].token \in Nat /\ call[c].token >= 1
    BY <1>0, <1>1, <2>1 DEF Answered, FitsRec, Rec
  <2>3. ~(call[c].token > expired) => expiries > 0 /\ call[c].token <= expired
    BY <1>0, <2>2 DEF Newer
  <2>4. NewerRec(call'[c], call[Put], expired, expiries) /\ Same(c)
    BY <2>1, <2>3 DEF Answered, NewerRec, WaitPcs
  <2> QED BY <1>2, <2>4, RequestNewer
<1>7. CASE AttemptFails(c)
  <2>1. PICK resp \in {"lost", "error"} : Answered(c, resp, call[c].token)
    BY <1>0, <1>7, AttemptFailsDoes
  <2>2. NewerRec(call'[c], call[Put], expired, expiries) /\ Same(c)
    BY <2>1 DEF Answered, NewerRec, WaitPcs
  <2> QED BY <1>2, <2>2, RequestNewer
<1>8. CASE RateLimited(c)
  BY <1>0, <1>5, <1>8, RateLimitedDoes
<1>9. CASE HandleException(c)
  BY <1>0, <1>4, <1>5, <1>9, HandleExceptionDoes
<1>10. CASE StartIntercept(c)
  <2>1. call[c].pc = "answered" /\ Same(c) /\ Waits(c, "reading")
    BY <1>0, <1>10, StartInterceptDoes
  <2>2. NewerRec(call'[c], call[Put], expired, expiries)
    BY <1>0, <2>1 DEF Waits, KeepsCounts, KeepsTokens, NewerRec, WaitPcs
  <2> QED BY <1>2, <2>1, <2>2, RequestNewer
<1>11. CASE HandleResponse(c)
  BY <1>0, <1>3, <1>4, <1>11, HandleResponseDoes
<1>12. CASE ReadBody(c)
  <2>1. /\ call[c].pc = "reading"
        /\ Waits(c, "lockWait") \/ Waits(c, "refreshWait")
    BY <1>0, <1>12, ReadBodyDoes
  <2>2. call[c].resp = "expired" /\ call[c].token <= expired
    BY <1>0, <1>1, <2>1 DEF FitsRec, NewerRec
  <2>3. call[c].token \in Nat /\ call[Put].token \in Nat
    BY <1>0 DEF Rec
  <2>4. call[Put].resp = "ok" /\ expiries <= 1 => call[c].token < call[Put].token
    BY <1>0, <2>2, <2>3
  <2>5. NewerRec(call'[c], call[Put], expired, expiries)
    BY <1>0, <2>1, <2>2, <2>4 DEF Waits, KeepsCounts, KeepsTokens, NewerRec
  <2> QED BY <1>2, <2>2, <2>5, RequestNewer
<1>13. CASE Retry(c)
  BY <1>0, <1>3, <1>4, <1>13, RetryDoes
<1>14. CASE Abort(c)
  BY <1>0, <1>3, <1>14, AbortDoes
<1> QED BY <1>6, <1>7, <1>8, <1>9, <1>10, <1>11, <1>12, <1>13, <1>14 DEF CallSteps

\* What a step of the refresh itself does: it may be granted, or it keeps what it was granted,
\* or it is not granted.
LEMMA PutMoves ==
    ASSUME Shape, CallSteps(Put)
    PROVE  /\ Same(Put) /\ call[Put].pc # "idle"
           /\ \/ ~revoked /\ issued' = issued + 1 /\ broadcast' = broadcast \cup {issued'} /\ Answered(Put, "ok", issued')
              \/ call[Put].resp = "ok" /\ call'[Put].resp = "ok" /\ call'[Put].token = call[Put].token
              \/ call'[Put].resp # "ok"
<1>0. Put \in Calls /\ Put \notin Requests
  BY TokenRefreshAssumption DEF Calls
<1>1. Same(Put) /\ call[Put].pc # "idle"
  BY <1>0, OneMoves
<1>2. ASSUME Returns(Put)
      PROVE  call'[Put].resp = "ok" => call[Put].resp = "ok" /\ call'[Put].token = call[Put].token
  BY <1>2 DEF Returns, Ends, LoopWaits, Waits, KeepsCounts, KeepsTokens
<1>3. CASE ServerAnswers(Put)
  BY <1>0, <1>1, <1>3, ServerAnswersDoes DEF Answered
<1>4. CASE AttemptFails(Put)
  BY <1>0, <1>1, <1>4, AttemptFailsDoes DEF Answered
<1>5. CASE RateLimited(Put)
  BY <1>0, <1>1, <1>5, RateLimitedDoes DEF Ends
<1>6. CASE HandleException(Put)
  BY <1>0, <1>1, <1>6, HandleExceptionDoes DEF Ends, Repeats
<1>7. CASE StartIntercept(Put)
  BY <1>0, <1>7, StartInterceptDoes
<1>8. CASE HandleResponse(Put)
  <2>1. Repeats(Put, TRUE) \/ Returns(Put)
    BY <1>0, <1>8, HandleResponseDoes
  <2> QED BY <1>1, <1>2, <2>1 DEF Repeats
<1>9. CASE ReadBody(Put)
  BY <1>0, <1>9, ReadBodyDoes
<1>10. CASE Retry(Put)
  <2>1. Repeats(Put, TRUE) \/ Returns(Put)
    BY <1>0, <1>10, RetryDoes
  <2> QED BY <1>1, <1>2, <2>1 DEF Repeats
<1>11. CASE Abort(Put)
  BY <1>0, <1>1, <1>2, <1>11, AbortDoes
<1> QED BY <1>3, <1>4, <1>5, <1>6, <1>7, <1>8, <1>9, <1>10, <1>11 DEF CallSteps

\* The refresh is over.
LEMMA OverNewer ==
    ASSUME Basics, Newer, NEW ok \in BOOLEAN, RefreshIsOver(ok)
    PROVE  Newer'
<1>1. UNCHANGED <<expired, expiries>> /\ call'[Put].resp = "none" /\ call'[Put].pc = "idle"
  BY DEF RefreshIsOver, server
<1>2. ASSUME NEW r \in Requests PROVE NewerRec(call'[r], call'[Put], expired, expiries)
  <2>1. Resumes(r, ok) /\ NewerRec(call[r], call[Put], expired, expiries)
    BY DEF RefreshIsOver, Newer
  <2>2. CASE call[r].pc \in {"refreshWait", "lockWait"}
    <3>1. call'[r].resp = call[r].resp /\ call'[r].pc \in {"retry", "aborted"}
      BY <2>1, <2>2 DEF Resumes
    <3> QED BY <1>1, <2>1, <3>1 DEF NewerRec, WaitPcs
  <2>3. CASE call[r].pc = "loopWait"
    <3>1. call'[r].pc \in {"sending", "ended"} /\ call'[r].resp \in {"none", call[r].resp}
      BY <2>1, <2>3 DEF Resumes
    <3> QED BY <1>1, <2>1, <3>1 DEF NewerRec, WaitPcs
  <2>4. CASE call[r].pc \notin WaitPcs
    <3>1. call'[r] = call[r]
      BY <2>1, <2>4 DEF Resumes
    <3> QED BY <1>1, <2>1, <2>4, <3>1 DEF NewerRec
  <2> QED BY <2>2, <2>3, <2>4 DEF WaitPcs
<1> QED BY <1>1, <1>2 DEF Newer, Refreshing

\* The tokens expire, or a request starts, or nothing of this changes.
LEMMA SurroundingsNewer ==
    ASSUME Basics, Newer, Surroundings
    PROVE  Newer'
<1>0. /\ expired \in Nat /\ issued \in Nat /\ expiries \in Nat /\ expired <= issued
      /\ \A r \in Requests : call[r] \in Rec /\ FitsRec(r, call[r], issued) /\ r \in Calls
      /\ Put \in Calls /\ FitsRec(Put, call[Put], issued)
  BY DEF Basics, Tokens, Newer, IInv, Shape, Calls
<1>1. CASE Expire
  <2>1. expired' = issued /\ expiries' = expiries + 1 /\ call' = call /\ expired < issued
    BY <1>1 DEF Expire
  <2>2. call[Put].resp = "ok" => expiries' > 1
    BY <1>0, <2>1 DEF Newer, Refreshing, FitsRec
  <2>3. ASSUME NEW r \in Requests PROVE NewerRec(call[r], call[Put], expired', expiries')
    <3>1. NewerRec(call[r], call[Put], expired, expiries) /\ call[r].token <= issued
      BY <1>0 DEF Newer, FitsRec
    <3>2. expiries' > 0 /\ (call[Put].resp = "ok" => ~(expiries' <= 1))
      BY <1>0, <2>1, <2>2
    <3> QED BY <2>1, <3>1, <3>2 DEF NewerRec
  <2>4. expiries' \in Nat /\ expiries' > 0 /\ (call[Put].resp = "ok" => ~(expiries' <= 1))
    BY <1>0, <2>1, <2>2
  <2> QED BY <2>1, <2>3, <2>4 DEF Newer
<1>2. CASE UNCHANGED <<expired, expiries, call>>
  BY <1>2 DEF Newer, Refreshing
<1>3. CASE Revoke \/ OtherEditorRefreshes \/ UserMessage \/ DebounceEnds \/ LogoutTold
  BY <1>2, <1>3 DEF Revoke, OtherEditorRefreshes, UserMessage, DebounceEnds, LogoutTold, server
<1>4. ASSUME NEW r \in Requests, Start(r) PROVE Newer'
  <2>1. Starts(r) /\ UNCHANGED <<expired, expiries>>
    BY <1>0, <1>4, StartDoes DEF Basics, IInv, server
  <2>2. NewerRec(call'[r], call[Put], expired, expiries)
    BY <2>1 DEF Starts, NewerRec, WaitPcs
  <2> QED BY <2>1, <2>2, RequestNewer DEF Starts
<1> QED BY <1>1, <1>3, <1>4 DEF Surroundings

\* Every step.
LEMMA NewerStep == Basics /\ Newer /\ [Next]_vars => Newer'
<1> SUFFICES ASSUME Basics, Newer, [Next]_vars PROVE Newer'
  OBVIOUS
<1>0. Shape /\ Put \notin Requests /\ Calls = Requests \cup {Put} /\ issued \in Nat
  BY TokenRefreshAssumption DEF Basics, IInv, Tokens, Calls
<1>1. CASE UNCHANGED vars
  BY <1>1 DEF vars, server, Newer, Refreshing
<1>2. CASE RefreshSucceeds \/ RefreshFails
  BY <1>0, <1>2, RefreshIsOverDoes, OverNewer
<1>3. ASSUME NEW c \in Calls, CallSteps(c), c = Put => Idle PROVE Newer'
  <2>1. CASE c # Put
    BY <1>0, <1>3, <2>1, RequestStepNewer
  <2>2. CASE c = Put
    <3>1. UNCHANGED <<expired, expiries>>
      BY <1>0, <1>3, OneMoves
    <3>2. /\ Same(Put) /\ call[Put].pc # "idle"
          /\ call'[Put].resp = "ok" => \/ call[Put].resp = "ok" /\ call'[Put].token = call[Put].token
                                       \/ call'[Put].token = issued + 1
      BY <1>0, <1>3, <2>2, PutMoves DEF Answered
    <3> QED BY <1>3, <2>2, <3>1, <3>2, PutNewer
  <2> QED BY <2>1, <2>2
<1>4. CASE Continue
  BY <1>0, <1>2, <1>3, <1>4 DEF Continue, CallSteps
<1>5. CASE Idle /\ Attempts
  BY <1>3, <1>5 DEF Attempts, CallSteps
<1>6. CASE Surroundings
  BY <1>6, SurroundingsNewer
<1> QED BY <1>1, <1>4, <1>5, <1>6 DEF Next, Progress

\* At first nothing has expired.
LEMMA NewerInit == Init => Newer
<1> SUFFICES ASSUME Init PROVE Newer
  OBVIOUS
<1>1. \A c \in Calls : call[c].pc = "idle" /\ call[c].resp = "none"
  BY DEF Init, NoCall
<1>2. Put \in Calls /\ Requests \subseteq Calls
  BY DEF Calls
<1>3. \A r \in Requests : NewerRec(call[r], call[Put], expired, expiries)
  BY <1>1, <1>2 DEF NewerRec, WaitPcs
<1> QED BY <1>1, <1>2, <1>3 DEF Init, Newer, Refreshing

\* So it is in every state.
LEMMA NewerInvariant == Spec => [](Basics /\ Newer)
<1>1. Basics /\ Newer /\ [Next]_vars => (Basics /\ Newer)'
  BY BasicsStep, NewerStep
<1>2. Init => Basics /\ Newer
  BY BasicsInit, NewerInit
<1> QED BY <1>1, <1>2, PTL DEF Spec

\* Whoever goes on does so as the refresh succeeds, with the token it brought.
LEMMA GoesOnNewer ==
    ASSUME Basics, Newer, [Next]_vars, call[Put].resp = "ok", expiries <= 1, NEW r \in Requests, GoesOn(r)
    PROVE  call'[r].token > call[r].token
<1>0. /\ Shape /\ Put \notin Requests /\ Calls = Requests \cup {Put} /\ r \in Calls
      /\ call[r].pc \in WaitPcs /\ call'[r].pc \in {"retry", "sending"}
  BY TokenRefreshAssumption DEF Basics, IInv, Tokens, Calls, GoesOn, WaitPcs
<1>1. call'[r] # call[r]
  BY <1>0 DEF WaitPcs
<1>2. ASSUME NEW c \in Calls, CallSteps(c) PROVE FALSE
  BY <1>0, <1>1, <1>2, OneMoves DEF WaitPcs
<1>3. CASE RefreshSucceeds \/ RefreshFails
  <2>1. PICK ok \in BOOLEAN : RefreshIsOver(ok)
    BY <1>0, <1>3, RefreshIsOverDoes
  <2>2. Resumes(r, ok) /\ ok
    BY <2>1 DEF RefreshIsOver
  <2>3. call'[r].token = call[Put].token
    BY <1>0, <2>2 DEF Resumes, WaitPcs
  <2>4. call[r].token < call[Put].token
    BY <1>0 DEF Newer, NewerRec
  <2>5. call[r].token \in Nat /\ call[Put].token \in Nat
    BY <1>0 DEF Shape, Rec
  <2> QED BY <2>3, <2>4, <2>5
<1>4. CASE Surroundings
  <2>1. CASE Expire \/ Revoke \/ OtherEditorRefreshes \/ UserMessage \/ DebounceEnds \/ LogoutTold
    BY <1>1, <2>1 DEF Expire, Revoke, OtherEditorRefreshes, UserMessage, DebounceEnds, LogoutTold
  <2>2. ASSUME NEW q \in Requests, Start(q) PROVE FALSE
    <3>1. Starts(q)
      BY <1>0, <2>2, StartDoes
    <3> QED BY <1>0, <1>1, <3>1 DEF Starts, Same, WaitPcs
  <2> QED BY <1>4, <2>1, <2>2 DEF Surroundings
<1>5. CASE Continue
  BY <1>0, <1>2, <1>3, <1>5 DEF Continue, CallSteps
<1>6. CASE Attempts
  BY <1>2, <1>6 DEF Attempts, CallSteps
<1> QED BY <1>1, <1>3, <1>4, <1>5, <1>6 DEF Next, Progress, vars

\* Whoever waited for a refresh that is granted, for the lock, for its own or in the loop,
\* goes on with a newer token than the one that was refused, as long as the tokens have
\* expired but once: however many requests share the refresh, and whoever else refreshes
\* (newRelicResponseInterceptor.ts, codestreamApi.ts).
THEOREM NewerTokenRetried == Spec => RetriedWithNewerToken
<1>1. Basics /\ Newer /\ [Next]_vars
        => [call[Put].resp = "ok" /\ expiries <= 1
              => \A r \in Requests : GoesOn(r) => call'[r].token > call[r].token]_vars
  BY GoesOnNewer
<1> QED BY <1>1, NewerInvariant, PTL DEF Spec, RetriedWithNewerToken

--------------------------------------------------------------------------------
(* Expiry is hidden. *)

\* How often tokens have expired when an attempt is refused that follows a refresh, as long
\* as nothing but expiry disturbs the requests.  One refresh answers to one expiry: what it
\* brings is not refused before the next.  A request refreshed by the loop as well has seen
\* two before that.
HiddenRec(c, rec, put, e, k) ==
    /\ rec.resp \in {"none", "ok", "expired"} /\ rec.pc # "aborted"
    /\ ~rec.tried => rec.count = 0
    /\ rec.pc \in {"reading", "lockWait", "refreshWait", "retry"} => ~rec.tried
    /\ rec.tried \/ rec.looped \/ rec.pc = "retry" =>
        /\ k >= 1
        /\ rec.pc \in {"sending", "retry"} => rec.token > e \/ k >= 2
        /\ rec.pc = "answered" /\ rec.resp = "expired" => k >= 2
    /\ c \in Intercepted =>
        /\ rec.pc = "loopWait" => k >= 2
        /\ rec.looped =>
            /\ k >= 2
            /\ put.resp = "ok" => put.token > e \/ k >= 3
            /\ rec.tried \/ rec.pc = "retry" =>
                /\ rec.pc \in {"sending", "retry"} => rec.token > e \/ k >= 3
                /\ rec.pc = "answered" /\ rec.resp = "expired" => k >= 3
    /\ rec.pc = "ended" /\ rec.resp # "ok" => k > (IF c \in Intercepted THEN 2 ELSE 1)

Undisturbed == ~rotated /\ faults = 0

Hidden ==
    /\ ~revoked /\ call[Put].resp \in {"none", "ok"}
    /\ \A r \in Requests : HiddenRec(r, call[r], call[Put], expired, expiries)

HiddenInv == Undisturbed => Hidden

\* The refresh under way matters to a request only by what it brings.
LEMMA OtherRefresh ==
    ASSUME NEW c \in Requests, NEW rec \in Rec, NEW put \in Rec, NEW new, NEW e \in Nat, NEW k \in Nat,
           HiddenRec(c, rec, put, e, k), new.resp = "ok" => new.token > e
    PROVE  HiddenRec(c, rec, new, e, k)
BY DEF HiddenRec

\* A request moves, and may start a refresh.
LEMMA RequestHidden ==
    ASSUME Basics, Newer, Hidden, NEW c \in Requests, UNCHANGED <<expired, expiries, revoked>>,
           Same(c) \/ \E n \in Nat : SameBut(c) /\ Joins(n),
           HiddenRec(c, call'[c], call[Put], expired, expiries), call'[c] \in Rec
    PROVE  Hidden'
<1>1. /\ c \in Calls /\ c # Put /\ Put \in Calls /\ (\A r \in Requests : r \in Calls /\ r # Put)
      /\ expired \in Nat /\ expiries \in Nat /\ call \in [Calls -> Rec]
  BY TokenRefreshAssumption DEF Calls, Basics, Tokens, Newer, IInv, Shape
<1>2. CASE Same(c) \/ Refreshing
  <2>1. call'[Put] = call[Put] /\ \A r \in Requests : r # c => call'[r] = call[r]
    BY <1>1, <1>2 DEF Same, SameBut, Joins
  <2> QED BY <1>1, <2>1 DEF Hidden
<1>3. CASE ~Same(c) /\ ~Refreshing
  <2>1. PICK n \in Nat : SameBut(c) /\ Joins(n)
    BY <1>3
  <2>2. call'[Put].resp = "none" /\ \A r \in Requests : r # c => call'[r] = call[r]
    BY <1>1, <1>3, <2>1 DEF SameBut, Joins
  <2>3. \A r \in Requests : HiddenRec(r, call'[r], call[Put], expired, expiries) /\ call'[r] \in Rec
    BY <1>1, <2>2 DEF Hidden
  <2>4. \A r \in Requests : HiddenRec(r, call'[r], call'[Put], expired, expiries)
    BY <1>1, <2>2, <2>3, OtherRefresh
  <2> QED BY <1>1, <2>2, <2>4 DEF Hidden
<1> QED BY <1>2, <1>3

\* Both are put on record: a request is an intercepted one if it is refreshed both ways.
LEMMA TwoWays ==
    ASSUME NEW c \in Requests
    PROVE  /\ c \in Intercepted <=> Intercepts(c) /\ Loops(c)
           /\ c # Put /\ c \in Calls /\ (Intercepts(c) \/ Loops(c))
BY TokenRefreshAssumption DEF Requests, Calls, Intercepts, Loops

\* fetchCore() has returned an answer.
LEMMA ReturnHidden ==
    ASSUME Basics, Newer, Hidden, NEW c \in Requests, Returns(c), call[c].pc = "answered", ~Intercepting(c)
    PROVE  HiddenRec(c, call'[c], call[Put], expired, expiries)
<1>0. /\ expired \in Nat /\ expiries \in Nat /\ call[c] \in Rec /\ c \in Calls
      /\ HiddenRec(c, call[c], call[Put], expired, expiries) /\ call[c].resp \in {"ok", "expired"}
  BY TwoWays DEF Basics, Tokens, IInv, Shape, Newer, Hidden, HiddenRec, FitsRec
<1>1. call[c].resp = "expired" /\ Intercepts(c) => call[c].tried
  BY DEF Intercepting
<1>2. CASE LoopWaits(c)
  <2>1. /\ Loops(c) /\ call[c].resp = "expired" /\ ~call[c].looped
        /\ call'[c].pc = "loopWait" /\ call'[c].resp = "expired" /\ call'[c].token = call[c].token
        /\ call'[c].tried = call[c].tried /\ call'[c].looped = call[c].looped /\ call'[c].count = call[c].count
    BY <1>2 DEF LoopWaits, Waits, KeepsCounts, KeepsTokens
  <2>2. c \in Intercepted => expiries >= 2
    BY <1>0, <1>1, <2>1, TwoWays DEF HiddenRec
  <2>3. call[c].tried => expiries >= 1
    BY <1>0 DEF HiddenRec
  <2> QED BY <1>0, <2>1, <2>2, <2>3 DEF HiddenRec
<1>3. CASE ~(Loops(c) /\ call[c].resp = "expired" /\ ~call[c].looped) /\ Ends(c, call[c].resp)
  <2>1. /\ call'[c].pc = "ended" /\ call'[c].resp = call[c].resp /\ call'[c].count = 0
        /\ ~call'[c].tried /\ ~call'[c].looped
    BY <1>3 DEF Ends
  <2>2. call[c].resp = "expired" => expiries >= 2
    BY <1>0, <1>1, <1>3, TwoWays DEF HiddenRec
  <2>3. call[c].resp = "expired" /\ c \in Intercepted => expiries >= 3
    BY <1>0, <1>1, <1>3, TwoWays DEF HiddenRec
  <2>4. call[c].resp # "ok" => expiries > (IF c \in Intercepted THEN 2 ELSE 1)
    BY <1>0, <2>2, <2>3
  <2> QED BY <1>0, <2>1, <2>4 DEF HiddenRec
<1> QED BY <1>2, <1>3 DEF Returns

\* A step of a request, when nothing else goes wrong.
LEMMA RequestStepHidden ==
    ASSUME Basics, Newer, Hidden, Basics', NEW c \in Requests, CallSteps(c), faults = 0, faults' = 0
    PROVE  Hidden'
<1>0. /\ c \in Calls /\ c # Put /\ Shape /\ expired \in Nat /\ expiries \in Nat /\ faults = 0
      /\ call[c] \in Rec /\ call'[c] \in Rec /\ call[c].count \in Nat
      /\ HiddenRec(c, call[c], call[Put], expired, expiries)
      /\ NewerRec(call[c], call[Put], expired, expiries)
      /\ FitsRec(c, call[c], issued)
  BY TokenRefreshAssumption DEF Calls, Basics, Tokens, IInv, Shape, Newer, Hidden, Rec
<1>1. /\ UNCHANGED <<expired, expiries, revoked>>
      /\ Same(c) \/ \E n \in Nat : SameBut(c) /\ Joins(n)
  BY <1>0, OneMoves
<1>2. SUFFICES HiddenRec(c, call'[c], call[Put], expired, expiries)
  BY <1>0, <1>1, RequestHidden
<1>3. CASE ServerAnswers(c)
  <2>1. Answered(c, IF call[c].token > expired THEN "ok" ELSE "expired", call[c].token)
    BY <1>0, <1>3, ServerAnswersDoes
  <2>2. /\ call[c].pc = "sending" /\ call'[c].pc = "answered" /\ call'[c].token = call[c].token
        /\ call'[c].tried = call[c].tried /\ call'[c].looped = call[c].looped /\ call'[c].count = call[c].count
        /\ call'[c].resp = IF call[c].token > expired THEN "ok" ELSE "expired"
    BY <2>1 DEF Answered
  <2> QED BY <1>0, <2>2 DEF HiddenRec
<1>4. CASE AttemptFails(c) \/ RateLimited(c)
  <2>1. faults' = faults + 1
    BY <1>0, <1>4, AttemptFailsDoes, RateLimitedDoes
  <2> QED BY <1>0, <2>1
<1>5. CASE HandleException(c)
  BY <1>0, <1>5, HandleExceptionDoes DEF HiddenRec
<1>6. CASE StartIntercept(c)
  <2>1. /\ call[c].pc = "answered" /\ ~call[c].tried /\ call'[c].pc = "reading" /\ call'[c].resp = call[c].resp
        /\ call'[c].tried = call[c].tried /\ call'[c].looped = call[c].looped /\ call'[c].count = call[c].count
    BY <1>0, <1>6, StartInterceptDoes DEF Intercepting, Waits, KeepsCounts, KeepsTokens
  <2> QED BY <1>0, <2>1 DEF HiddenRec
<1>7. CASE HandleResponse(c)
  <2>1. call[c].resp # "error"
    BY <1>0 DEF HiddenRec
  <2> QED BY <1>0, <1>7, <2>1, HandleResponseDoes, ReturnHidden
<1>8. CASE ReadBody(c)
  <2>1. /\ call[c].pc = "reading" /\ call'[c].pc \in {"lockWait", "refreshWait"} /\ call'[c].resp = call[c].resp
        /\ call'[c].tried = call[c].tried /\ call'[c].looped = call[c].looped /\ call'[c].count = call[c].count
    BY <1>0, <1>8, ReadBodyDoes DEF Waits, KeepsCounts, KeepsTokens
  <2> QED BY <1>0, <2>1 DEF HiddenRec
<1>9. CASE Retry(c)
  <2>1. call[c].pc = "retry" /\ call[c].count = 0
    BY <1>0, <1>9, RetryDoes DEF HiddenRec
  <2>2. MayRetry(c)
    BY <2>1, TokenRefreshAssumption DEF MayRetry
  <2>3. Repeats(c, TRUE)
    BY <1>0, <1>9, <2>2, RetryDoes
  <2>4. /\ call'[c].pc = "sending" /\ call'[c].resp = "none" /\ call'[c].token = call[c].token
        /\ call'[c].tried = TRUE /\ call'[c].looped = call[c].looped
    BY <2>3 DEF Repeats, KeepsTokens
  <2> QED BY <1>0, <2>1, <2>4 DEF HiddenRec
<1>10. CASE Abort(c)
  BY <1>0, <1>10, AbortDoes DEF HiddenRec
<1> QED BY <1>3, <1>4, <1>5, <1>6, <1>7, <1>8, <1>9, <1>10 DEF CallSteps

\* The refresh is granted whenever it is answered: nothing was revoked, and a server that
\* refuses a replaced token is another story.
LEMMA PutHidden ==
    ASSUME Basics, Newer, Hidden, Basics', CallSteps(Put), faults = 0, faults' = 0, ~rotated'
    PROVE  Hidden'
<1>0. /\ Put \in Calls /\ Put \notin Requests /\ Shape /\ expired \in Nat /\ expiries \in Nat /\ issued \in Nat
      /\ expired <= issued /\ faults = 0 /\ call \in [Calls -> Rec] /\ \A r \in Requests : r \in Calls /\ r # Put
  BY TokenRefreshAssumption DEF Calls, Basics, Tokens, IInv, Shape, Newer
<1>1. Same(Put) /\ UNCHANGED <<expired, expiries, revoked>>
  BY <1>0, OneMoves, PutMoves
<1>2. \/ call'[Put].resp = "none"
      \/ call'[Put].resp = "ok" /\ call'[Put].token > expired
      \/ call'[Put].resp = "ok" /\ call'[Put].token = call[Put].token /\ call[Put].resp = "ok"
  <2>1. call[Put].resp \in {"none", "ok"} /\ ~revoked
    BY DEF Hidden
  <2>2. ASSUME Returns(Put) PROVE call'[Put].resp = call[Put].resp /\ call'[Put].token = call[Put].token
    BY <2>2 DEF Returns, Ends, LoopWaits, Waits, KeepsCounts, KeepsTokens
  <2>3. CASE ServerAnswers(Put)
    <3>1. issued' = issued + 1 /\ Answered(Put, "ok", issued')
      BY <1>0, <2>1, <2>3, ServerAnswersDoes
    <3> QED BY <1>0, <3>1 DEF Answered
  <2>4. CASE AttemptFails(Put) \/ RateLimited(Put)
    <3>1. faults' = faults + 1
      BY <1>0, <2>4, AttemptFailsDoes, RateLimitedDoes
    <3> QED BY <1>0, <3>1
  <2>5. CASE HandleException(Put)
    BY <1>0, <2>1, <2>5, HandleExceptionDoes
  <2>6. CASE StartIntercept(Put) \/ ReadBody(Put)
    BY <1>0, <2>6, StartInterceptDoes, ReadBodyDoes
  <2>7. CASE HandleResponse(Put)
    BY <1>0, <2>1, <2>2, <2>7, HandleResponseDoes
  <2>8. CASE Retry(Put)
    <3>1. Repeats(Put, TRUE) \/ Returns(Put)
      BY <1>0, <2>8, RetryDoes
    <3> QED BY <2>1, <2>2, <3>1 DEF Repeats
  <2>9. CASE Abort(Put)
    BY <1>0, <2>1, <2>2, <2>9, AbortDoes
  <2> QED BY <2>3, <2>4, <2>5, <2>6, <2>7, <2>8, <2>9 DEF CallSteps
<1>3. ASSUME NEW r \in Requests PROVE HiddenRec(r, call'[r], call'[Put], expired, expiries)
  <2>1. call'[r] = call[r] /\ HiddenRec(r, call[r], call[Put], expired, expiries) /\ call[r] \in Rec /\ call[Put] \in Rec
    BY <1>0, <1>1 DEF Same, Hidden
  <2>2. CASE call'[Put].resp = "ok" /\ call'[Put].token = call[Put].token /\ call[Put].resp = "ok"
    BY <2>1, <2>2 DEF HiddenRec
  <2>3. CASE call'[Put].resp = "ok" => call'[Put].token > expired
    <3> DEFINE new == call'[Put]
    <3>1. new.resp = "ok" => new.token > expired
      BY <2>3
    <3> HIDE DEF new
    <3>2. HiddenRec(r, call[r], new, expired, expiries)
      BY <1>0, <2>1, <3>1, OtherRefresh
    <3> QED BY <2>1, <3>2 DEF new
  <2> QED BY <1>2, <2>2, <2>3
<1> QED BY <1>1, <1>2, <1>3 DEF Hidden

\* The refresh is over: it was granted.
LEMMA OverHidden ==
    ASSUME Basics, Newer, Hidden, NEW ok \in BOOLEAN, RefreshIsOver(ok)
    PROVE  Hidden'
<1>0. /\ Put \in Calls /\ call[Put] \in Rec /\ FitsRec(Put, call[Put], issued) /\ expired \in Nat /\ expiries \in Nat
      /\ call[Put].token \in Nat
  BY DEF Calls, Basics, Tokens, IInv, Shape, Newer, Rec
<1>1. /\ UNCHANGED <<expired, expiries, revoked>> /\ call'[Put].resp = "none" /\ call[Put].pc = "ended"
      /\ (call[Put].resp = "ok") = ok
  BY DEF RefreshIsOver, server
<1>2. ok /\ call[Put].resp = "ok"
  BY <1>0, <1>1 DEF FitsRec, Hidden
<1>3. call[Put].token > expired \/ expiries >= 2
  BY <1>0, <1>2 DEF Newer
<1>4. expiries >= 1
  BY <1>0, <1>1 DEF Newer, Refreshing
<1>5. ASSUME NEW r \in Requests PROVE HiddenRec(r, call'[r], call'[Put], expired, expiries)
  <2>1. Resumes(r, ok) /\ HiddenRec(r, call[r], call[Put], expired, expiries) /\ call[r] \in Rec
    BY TwoWays DEF RefreshIsOver, Hidden, Basics, IInv, Shape
  <2>2. CASE call[r].pc \in {"refreshWait", "lockWait"}
    <3>1. /\ call'[r].pc = "retry" /\ call'[r].token = call[Put].token /\ call'[r].resp = call[r].resp
          /\ call'[r].looped = call[r].looped /\ call'[r].count = call[r].count /\ call'[r].tried = call[r].tried
      BY <1>2, <2>1, <2>2 DEF Resumes
    <3>2. ~call[r].tried /\ (r \in Intercepted /\ call[r].looped => call[Put].token > expired \/ expiries >= 3)
      BY <1>2, <2>1, <2>2 DEF HiddenRec
    <3> QED BY <1>0, <1>1, <1>3, <1>4, <2>1, <2>2, <3>1, <3>2 DEF HiddenRec
  <2>3. CASE call[r].pc = "loopWait"
    <3>1. /\ call'[r].pc = "sending" /\ call'[r].resp = "none" /\ call'[r].token = call[Put].token
          /\ call'[r].count = 0 /\ ~call'[r].tried /\ call'[r].looped
      BY <1>2, <2>1, <2>3 DEF Resumes
    <3> QED BY <1>0, <1>1, <1>3, <1>4, <2>1, <2>3, <3>1 DEF HiddenRec
  <2>4. CASE call[r].pc \notin WaitPcs
    <3>1. call'[r] = call[r]
      BY <2>1, <2>4 DEF Resumes
    <3> QED BY <1>1, <2>1, <3>1 DEF HiddenRec
  <2> QED BY <2>2, <2>3, <2>4 DEF WaitPcs
<1> QED BY <1>1, <1>5 DEF Hidden

\* Tokens expire, messages come, requests start.
LEMMA SurroundingsHidden ==
    ASSUME Basics, Newer, Hidden, Basics', Surroundings, faults = 0, faults' = 0
    PROVE  Hidden'
<1>0. /\ expired \in Nat /\ issued \in Nat /\ expiries \in Nat /\ expired <= issued /\ faults = 0 /\ Shape
      /\ \A r \in Requests : call[r] \in Rec /\ FitsRec(r, call[r], issued) /\ r \in Calls /\ call'[r] \in Rec
      /\ Put \in Calls /\ FitsRec(Put, call[Put], issued) /\ call[Put] \in Rec
  BY DEF Basics, Tokens, Newer, IInv, Shape, Calls
<1>1. CASE Expire
  <2>1. expired' = issued /\ expiries' = expiries + 1 /\ call' = call /\ revoked' = revoked
    BY <1>1 DEF Expire
  <2>2. ASSUME NEW r \in Requests PROVE HiddenRec(r, call[r], call[Put], issued, expiries + 1)
    <3>1. /\ HiddenRec(r, call[r], call[Put], expired, expiries) /\ NewerRec(call[r], call[Put], expired, expiries)
          /\ call[r] \in Rec
      BY <1>0 DEF Newer, Hidden
    <3> DEFINE k == expiries + 1
    <3>2. k >= expiries /\ (expiries >= 1 => k >= 2) /\ (expiries >= 2 => k >= 3) /\ k >= 1 /\ k \in Nat
          /\ (expiries >= 3 => k >= 3)
      BY <1>0
    <3>3. expiries > (IF r \in Intercepted THEN 2 ELSE 1) => k > (IF r \in Intercepted THEN 2 ELSE 1)
      BY <1>0
    <3> HIDE DEF k
    <3>4. HiddenRec(r, call[r], call[Put], issued, k)
      BY <1>0, <3>1, <3>2, <3>3 DEF HiddenRec
    <3> QED BY <3>4 DEF k
  <2> QED BY <2>1, <2>2 DEF Hidden
<1>2. CASE Revoke \/ OtherEditorRefreshes
  BY <1>0, <1>2 DEF Revoke, OtherEditorRefreshes, Fault
<1>3. CASE UserMessage \/ DebounceEnds \/ LogoutTold
  <2>1. UNCHANGED <<revoked, call, expired, expiries>>
    BY <1>3 DEF UserMessage, DebounceEnds, LogoutTold, server
  <2> QED BY <2>1 DEF Hidden
<1>4. ASSUME NEW r \in Requests, Start(r) PROVE Hidden'
  <2>1. Starts(r) /\ UNCHANGED <<expired, expiries, revoked>>
    BY <1>0, <1>4, StartDoes DEF server
  <2>2. HiddenRec(r, call'[r], call[Put], expired, expiries)
    BY <2>1 DEF Starts, HiddenRec
  <2> QED BY <1>0, <2>1, <2>2, RequestHidden DEF Starts
<1> QED BY <1>1, <1>2, <1>3, <1>4 DEF Surroundings

\* What has gone wrong stays so: each step leaves the faults and the expiries as they are or
\* counts one more.
Counts == faults' \in {faults, faults + 1} /\ expiries' \in {expiries, expiries + 1}

\* The steps of the calls count what they should.
LEMMA CallsCount ==
    ASSUME Shape, NEW c \in Calls, CallSteps(c)
    PROVE  Counts /\ UNCHANGED together /\ (rotated => rotated')
<1>1. CASE ServerAnswers(c)
  <2>1. UNCHANGED <<faults, expiries, together>>
    BY <1>1 DEF ServerAnswers
  <2>2. rotated' = rotated \/ rotated' = (rotated \/ ~revoked)
    BY <1>1 DEF ServerAnswers, Serves, Grants
  <2>3. rotated => rotated'
    BY <2>2
  <2> QED BY <2>1, <2>3 DEF Counts
<1>2. CASE AttemptFails(c)
  <2>1. faults' = faults + 1 /\ UNCHANGED <<expiries, together>>
    BY <1>2 DEF AttemptFails, Fault
  <2>2. rotated' \in {rotated, rotated \/ ~revoked}
    BY <1>2, AttemptFailsDoes
  <2>3. rotated => rotated'
    BY <2>2
  <2> QED BY <2>1, <2>3 DEF Counts
<1>3. CASE RateLimited(c)
  BY <1>3 DEF RateLimited, Fault, server, Counts
<1>4. CASE ~(ServerAnswers(c) \/ AttemptFails(c) \/ RateLimited(c))
  <2>1. UNCHANGED <<server, faults, expiries, together>>
    BY <1>4, HandleExceptionDoes, StartInterceptDoes, HandleResponseDoes, ReadBodyDoes,
       RetryDoes, AbortDoes DEF CallSteps
  <2> QED BY <2>1 DEF server, Counts
<1> QED BY <1>1, <1>2, <1>3, <1>4

\* So does every step.
LEMMA AllCount ==
    ASSUME Basics, [Next]_vars
    PROVE  Counts /\ (rotated => rotated') /\ (together => together')
<1>0. Shape /\ Requests \subseteq Calls
  BY DEF Basics, IInv, Calls
<1>1. ASSUME UNCHANGED <<rotated, together, faults, expiries>>
      PROVE  Counts /\ (rotated => rotated') /\ (together => together')
  BY <1>1 DEF Counts
<1>2. ASSUME NEW c \in Calls, CallSteps(c)
      PROVE  Counts /\ (rotated => rotated') /\ (together => together')
  BY <1>0, <1>2, CallsCount
<1>3. CASE RefreshSucceeds \/ RefreshFails
  <2>1. UNCHANGED <<server, together, faults, expiries>>
    BY <1>3 DEF RefreshSucceeds, RefreshFails
  <2> QED BY <1>1, <2>1 DEF server
<1>4. CASE UserMessage \/ DebounceEnds \/ LogoutTold
  <2>1. UNCHANGED <<rotated, together, faults, expiries>>
    BY <1>4 DEF UserMessage, DebounceEnds, LogoutTold, server
  <2> QED BY <1>1, <2>1
<1>5. CASE Revoke \/ OtherEditorRefreshes
  <2>1. UNCHANGED <<rotated, together, expiries>> /\ faults' = faults + 1
    BY <1>5 DEF Revoke, OtherEditorRefreshes, Fault
  <2> QED BY <2>1 DEF Counts
<1>6. CASE Expire
  <2>1. UNCHANGED <<rotated, together, faults>> /\ expiries' = expiries + 1
    BY <1>6 DEF Expire
  <2> QED BY <2>1 DEF Counts
<1>7. ASSUME NEW r \in Requests, Start(r)
      PROVE  Counts /\ (rotated => rotated') /\ (together => together')
  <2>1. UNCHANGED <<rotated, faults, expiries>>
    BY <1>7 DEF Start, server
  <2>2. together => together'
    BY <1>7 DEF Start
  <2> QED BY <2>1, <2>2 DEF Counts
<1>8. CASE UNCHANGED vars
  BY <1>1, <1>8 DEF vars, server
<1>9. CASE Continue
  BY <1>0, <1>2, <1>3, <1>9 DEF Continue, CallSteps
<1>10. CASE Attempts
  BY <1>2, <1>10 DEF Attempts, CallSteps
<1>11. CASE Surroundings
  BY <1>4, <1>5, <1>6, <1>7, <1>11 DEF Surroundings
<1> QED BY <1>8, <1>9, <1>10, <1>11 DEF Next, Progress

\* What is undisturbed was so before.
LEMMA DisturbedForGood ==
    ASSUME Basics, faults \in Nat, [Next]_vars, Undisturbed'
    PROVE  Undisturbed /\ faults = 0 /\ faults' = 0 /\ ~rotated'
<1>1. ~rotated' /\ faults' = 0
  BY DEF Undisturbed
<1>2. faults' \in {faults, faults + 1} /\ (rotated => rotated')
  BY AllCount DEF Counts
<1>3. faults = 0
  BY <1>1, <1>2
<1> QED BY <1>1, <1>2, <1>3 DEF Undisturbed

\* Every step.
LEMMA HiddenStep ==
    Basics /\ Newer /\ faults \in Nat /\ HiddenInv /\ [Next]_vars => HiddenInv'
<1> SUFFICES ASSUME Basics, Newer, faults \in Nat, HiddenInv, [Next]_vars, Undisturbed' PROVE Hidden'
  BY DEF HiddenInv
<1>0. /\ Shape /\ Put \notin Requests /\ Calls = Requests \cup {Put} /\ Basics'
      /\ Hidden /\ faults = 0 /\ faults' = 0 /\ ~rotated'
  BY TokenRefreshAssumption, BasicsStep, DisturbedForGood DEF Basics, IInv, Calls, HiddenInv
<1>1. CASE UNCHANGED vars
  BY <1>0, <1>1 DEF vars, server, Hidden
<1>2. CASE RefreshSucceeds \/ RefreshFails
  BY <1>0, <1>2, RefreshIsOverDoes, OverHidden
<1>3. ASSUME NEW c \in Calls, CallSteps(c) PROVE Hidden'
  BY <1>0, <1>3, RequestStepHidden, PutHidden
<1>4. CASE Continue
  BY <1>0, <1>2, <1>3, <1>4 DEF Continue, CallSteps
<1>5. CASE Attempts
  BY <1>3, <1>5 DEF Attempts, CallSteps
<1>6. CASE Surroundings
  BY <1>0, <1>6, SurroundingsHidden
<1> QED BY <1>1, <1>4, <1>5, <1>6 DEF Next, Progress

\* Faults are counted by natural numbers.
LEMMA FaultsStep == Basics /\ faults \in Nat /\ [Next]_vars => faults' \in Nat
<1> SUFFICES ASSUME Basics, faults \in Nat, [Next]_vars PROVE faults' \in Nat
  OBVIOUS
<1>1. faults' \in {faults, faults + 1}
  BY AllCount DEF Counts
<1> QED BY <1>1

\* At first nothing has been asked for.
LEMMA HiddenInit == Init => faults \in Nat /\ HiddenInv
<1> SUFFICES ASSUME Init PROVE faults \in Nat /\ HiddenInv
  OBVIOUS
<1>1. \A c \in Calls : /\ call[c].pc = "idle" /\ call[c].resp = "none" /\ call[c].count = 0
                       /\ ~call[c].tried /\ ~call[c].looped
  BY DEF Init, NoCall
<1>2. Put \in Calls /\ Requests \subseteq Calls
  BY DEF Calls
<1>3. \A r \in Requests : HiddenRec(r, call[r], call[Put], expired, expiries)
  BY <1>1, <1>2 DEF HiddenRec
<1>4. Hidden
  BY <1>1, <1>2, <1>3 DEF Init, Hidden
<1> QED BY <1>4 DEF Init, HiddenInv

\* So it is in every state.
LEMMA HiddenInvariant == Spec => [](Basics /\ Newer /\ faults \in Nat /\ HiddenInv)
<1>1. Basics /\ Newer /\ faults \in Nat /\ HiddenInv /\ [Next]_vars
        => (Basics /\ Newer /\ faults \in Nat /\ HiddenInv)'
  BY BasicsStep, NewerStep, FaultsStep, HiddenStep
<1>2. Init => Basics /\ Newer /\ faults \in Nat /\ HiddenInv
  BY BasicsInit, NewerInit, HiddenInit
<1> QED BY <1>1, <1>2, PTL DEF Spec

\* No request fails because a token has expired, however many requests share, queue for and
\* repeat the refresh and wherever expiries fall between their steps: as long as nothing else
\* goes wrong it takes two expiries to make one fail, and three if both the interceptor and
\* the loop refresh for it (newRelicResponseInterceptor.ts, codestreamApi.ts).
THEOREM ExpiryHidden == Spec => []ExpiryIsHidden
<1>1. HiddenInv => ExpiryIsHidden
  BY DEF HiddenInv, Hidden, HiddenRec, Undisturbed, ExpiryIsHidden
<1> QED BY <1>1, HiddenInvariant, PTL

--------------------------------------------------------------------------------
(* Requests one at a time. *)

Active(rec) == rec.pc \notin {"idle", "ended"}

Alone == ~together /\ faults = 0 /\ expiries <= 1

\* Before the refresh: every place that keeps a refresh token has the first one, and the
\* request under way waits as soon as the refresh is.
EarlyRec(c, rec, refreshing) ==
    Active(rec) =>
        /\ rec.resp \in {"none", "ok", "expired"} /\ rec.count = 0 /\ ~rec.tried /\ ~rec.looped
        /\ Loops(c) => rec.refresh = 1
        /\ rec.pc = "reading" => rec.using = 1
        /\ rec.pc \notin {"retry", "aborted"}
        /\ refreshing => rec.pc \in WaitPcs

Early ==
    /\ issued = 1 /\ holder = 1 /\ broadcast = {} /\ expired = expiries
    /\ call[Put].pc \in {"idle", "sending"}
    /\ call[Put].pc = "sending" => call[Put].using = 1
    /\ \A r \in Requests : EarlyRec(r, call[r], Refreshing)

\* After it: the request goes on with the second token, which does not expire any more, and
\* the next ones start with it.
LateRec(rec, refreshing) ==
    Active(rec) =>
        /\ refreshing => rec.pc \in WaitPcs /\ rec.count = 0
        /\ ~refreshing =>
            /\ rec.token = 2 /\ rec.pc \in {"sending", "answered", "retry"}
            /\ rec.pc = "answered" => rec.resp = "ok"
            /\ rec.pc = "retry" => rec.count = 0

Late ==
    /\ issued = 2 /\ broadcast \subseteq {2} /\ expired = 1 /\ expiries = 1
    /\ Refreshing => call[Put].pc \in {"answered", "ended"} /\ call[Put].resp = "ok" /\ call[Put].token = 2
    /\ ~Refreshing => holder = 2
    /\ \A r \in Requests : LateRec(call[r], Refreshing)

Ordered ==
    /\ ~revoked /\ refreshFailed = FALSE
    /\ \A q, r \in Requests : Active(call[q]) /\ Active(call[r]) => q = r
    /\ Refreshing => \E r \in Requests : Active(call[r])
    /\ Early \/ Late

OrderedInv == Alone => Ordered

\* The request under way moves, or one starts, before the refresh.
LEMMA EarlyMove ==
    ASSUME Basics, Ordered, Early, ~Refreshing, NEW c \in Requests,
           \A r \in Requests \ {c} : ~Active(call[r]),
           UNCHANGED <<issued, holder, broadcast, expired, expiries, revoked, refreshFailed>>,
           EarlyRec(c, call'[c], FALSE),
           Same(c) \/ (SameBut(c) /\ Joins(1) /\ call'[c].pc \in WaitPcs)
    PROVE  Ordered'
<1>0. c # Put /\ c \in Calls /\ Put \in Calls /\ \A r \in Requests : r \in Calls /\ r # Put
  BY TokenRefreshAssumption DEF Calls
<1>1. \A r \in Requests : r # c => call'[r] = call[r] /\ ~Active(call'[r])
  BY <1>0 DEF Same, SameBut
<1>2. \A q, r \in Requests : Active(call'[q]) /\ Active(call'[r]) => q = r
  BY <1>1
<1>3. CASE Same(c)
  <2>1. call'[Put] = call[Put] /\ ~Refreshing'
    BY <1>0, <1>3 DEF Same, Refreshing
  <2>2. \A r \in Requests : EarlyRec(r, call'[r], Refreshing')
    BY <1>1, <2>1 DEF EarlyRec
  <2>3. Early'
    BY <2>1, <2>2 DEF Early
  <2> QED BY <1>2, <2>1, <2>3 DEF Ordered
<1>4. CASE SameBut(c) /\ Joins(1) /\ call'[c].pc \in WaitPcs
  <2>1. call'[Put].pc = "sending" /\ call'[Put].using = 1 /\ Refreshing'
    BY <1>4 DEF Joins, Refreshing
  <2>2. \A r \in Requests : EarlyRec(r, call'[r], Refreshing')
    BY <1>1, <1>4 DEF EarlyRec
  <2>3. Early'
    BY <2>1, <2>2 DEF Early
  <2>4. Active(call'[c])
    BY <1>4 DEF Active, WaitPcs
  <2> QED BY <1>2, <2>3, <2>4 DEF Ordered
<1> QED BY <1>3, <1>4

\* And after it.
LEMMA LateMove ==
    ASSUME Basics, Ordered, Late, ~Refreshing, NEW c \in Requests,
           \A r \in Requests \ {c} : ~Active(call[r]),
           UNCHANGED <<issued, holder, broadcast, expired, expiries, revoked, refreshFailed>>,
           LateRec(call'[c], FALSE), Same(c)
    PROVE  Ordered'
<1>0. c # Put /\ c \in Calls /\ Put \in Calls /\ \A r \in Requests : r \in Calls /\ r # Put
  BY TokenRefreshAssumption DEF Calls
<1>1. \A r \in Requests : r # c => call'[r] = call[r] /\ ~Active(call'[r])
  BY <1>0 DEF Same
<1>2. \A q, r \in Requests : Active(call'[q]) /\ Active(call'[r]) => q = r
  BY <1>1
<1>3. call'[Put] = call[Put] /\ ~Refreshing'
  BY <1>0 DEF Same, Refreshing
<1>4. \A r \in Requests : LateRec(call'[r], Refreshing')
  BY <1>1, <1>3 DEF LateRec
<1>5. Late'
  BY <1>3, <1>4 DEF Late
<1> QED BY <1>2, <1>3, <1>5 DEF Ordered

\* A step of the request, before the refresh.
LEMMA EarlyStep ==
    ASSUME Basics, Ordered, Early, NEW c \in Requests, CallSteps(c), faults = 0, faults' = 0
    PROVE  Ordered'
<1>0. c # Put /\ c \in Calls /\ Shape /\ call[c].count = 0 /\ FitsRec(c, call[c], issued) /\ faults = 0
  <2>1. call[c].pc \in {"sending", "answered", "reading", "retry", "aborted"}
    BY TwoWays, OneMoves DEF Basics, IInv
  <2> QED BY <2>1, TwoWays DEF Basics, IInv, Early, EarlyRec, Active
<1>1. /\ call[c].pc \in {"sending", "answered", "reading", "retry", "aborted"}
      /\ UNCHANGED <<expired, holder, revoked, refreshFailed, expiries>>
  BY <1>0, OneMoves
<1>2. Active(call[c]) /\ call[c].pc \notin WaitPcs /\ EarlyRec(c, call[c], Refreshing)
  BY <1>1 DEF Active, WaitPcs, Early
<1>3. /\ ~Refreshing /\ call[c].resp \in {"none", "ok", "expired"} /\ ~call[c].tried /\ ~call[c].looped
      /\ (Loops(c) => call[c].refresh = 1) /\ (call[c].pc = "reading" => call[c].using = 1)
      /\ call[c].pc \notin {"retry", "aborted"}
  BY <1>2 DEF EarlyRec
<1>4. \A r \in Requests \ {c} : ~Active(call[r])
  BY <1>2 DEF Ordered
<1>5. ASSUME UNCHANGED server, EarlyRec(c, call'[c], FALSE),
             Same(c) \/ (SameBut(c) /\ Joins(1) /\ call'[c].pc \in WaitPcs)
      PROVE  Ordered'
  BY <1>1, <1>3, <1>4, <1>5, EarlyMove DEF server
<1>6. CASE ServerAnswers(c)
  <2>1. /\ UNCHANGED <<issued, broadcast>>
        /\ Answered(c, IF call[c].token > expired THEN "ok" ELSE "expired", call[c].token)
    BY <1>0, <1>6, ServerAnswersDoes
  <2>2. EarlyRec(c, call'[c], FALSE) /\ Same(c)
    BY <1>0, <1>3, <2>1 DEF Answered, EarlyRec
  <2> QED BY <1>1, <1>3, <1>4, <2>1, <2>2, EarlyMove
<1>7. CASE AttemptFails(c) \/ RateLimited(c)
  <2>1. faults' = faults + 1
    BY <1>0, <1>7, AttemptFailsDoes, RateLimitedDoes
  <2> QED BY <1>0, <2>1
<1>8. CASE HandleException(c)
  BY <1>0, <1>3, <1>8, HandleExceptionDoes
<1>9. CASE StartIntercept(c)
  <2>1. /\ UNCHANGED server /\ Same(c) /\ Waits(c, "reading") /\ call'[c].using = holder
    BY <1>0, <1>9, StartInterceptDoes
  <2>2. EarlyRec(c, call'[c], FALSE)
    BY <1>0, <1>3, <2>1 DEF Waits, KeepsCounts, KeepsTokens, EarlyRec, Early
  <2> QED BY <1>5, <2>1, <2>2
<1>10. CASE HandleResponse(c)
  <2>1. UNCHANGED server /\ Returns(c)
    BY <1>0, <1>3, <1>10, HandleResponseDoes
  <2>2. CASE LoopWaits(c)
    <3>1. /\ Loops(c) /\ Waits(c, "loopWait") /\ SameBut(c) /\ Joins(call[c].refresh)
      BY <1>0, <2>2 DEF LoopWaits
    <3>2. EarlyRec(c, call'[c], FALSE) /\ call'[c].pc \in WaitPcs /\ Joins(1)
      BY <1>0, <1>3, <3>1 DEF Waits, KeepsCounts, KeepsTokens, EarlyRec, WaitPcs
    <3> QED BY <1>5, <2>1, <3>1, <3>2
  <2>3. CASE Ends(c, call[c].resp)
    <3>1. EarlyRec(c, call'[c], FALSE) /\ Same(c)
      BY <2>3 DEF Ends, EarlyRec, Active
    <3> QED BY <1>5, <2>1, <3>1
  <2> QED BY <2>1, <2>2, <2>3 DEF Returns
<1>11. CASE ReadBody(c)
  <2>1. lock = None
    BY <1>3 DEF Basics, IInv, WaitersAreServed, Shape
  <2>2. /\ UNCHANGED server /\ SameBut(c) /\ Waits(c, "refreshWait") /\ Joins(call[c].using)
        /\ call[c].pc = "reading"
    BY <1>0, <1>11, <2>1, ReadBodyDoes
  <2>3. EarlyRec(c, call'[c], FALSE) /\ call'[c].pc \in WaitPcs /\ Joins(1)
    BY <1>0, <1>3, <2>2 DEF Waits, KeepsCounts, KeepsTokens, EarlyRec, WaitPcs
  <2> QED BY <1>5, <2>2, <2>3
<1>12. CASE Retry(c) \/ Abort(c)
  BY <1>0, <1>3, <1>12, RetryDoes, AbortDoes
<1> QED BY <1>6, <1>7, <1>8, <1>9, <1>10, <1>11, <1>12 DEF CallSteps

\* A step of the request, after the refresh.
LEMMA LateStep ==
    ASSUME Basics, Ordered, Late, NEW c \in Requests, CallSteps(c), faults = 0, faults' = 0
    PROVE  Ordered'
<1>0. c # Put /\ c \in Calls /\ Shape /\ faults = 0 /\ FitsRec(c, call[c], issued)
  BY TwoWays DEF Basics, IInv
<1>1. /\ call[c].pc \in {"sending", "answered", "reading", "retry", "aborted"}
      /\ UNCHANGED <<expired, holder, revoked, refreshFailed, expiries>>
  BY <1>0, OneMoves
<1>2. Active(call[c]) /\ call[c].pc \notin WaitPcs /\ LateRec(call[c], Refreshing)
  BY <1>1 DEF Active, WaitPcs, Late
<1>3. /\ ~Refreshing /\ call[c].token = 2 /\ call[c].pc \in {"sending", "answered", "retry"}
      /\ call[c].pc = "answered" => call[c].resp = "ok"
      /\ call[c].pc = "retry" => call[c].count = 0
  BY <1>2 DEF LateRec
<1>4. \A r \in Requests \ {c} : ~Active(call[r])
  BY <1>2 DEF Ordered
<1>5. ASSUME UNCHANGED <<issued, broadcast>>, LateRec(call'[c], FALSE), Same(c)
      PROVE  Ordered'
  BY <1>1, <1>3, <1>4, <1>5, LateMove
<1>6. CASE ServerAnswers(c)
  <2>1. /\ UNCHANGED <<issued, broadcast>>
        /\ Answered(c, IF call[c].token > expired THEN "ok" ELSE "expired", call[c].token)
    BY <1>0, <1>6, ServerAnswersDoes
  <2>2. call[c].token > expired
    BY <1>3 DEF Late
  <2>3. LateRec(call'[c], FALSE) /\ Same(c)
    BY <1>3, <2>1, <2>2 DEF Answered, LateRec
  <2> QED BY <1>5, <2>1, <2>3
<1>7. CASE AttemptFails(c) \/ RateLimited(c)
  <2>1. faults' = faults + 1
    BY <1>0, <1>7, AttemptFailsDoes, RateLimitedDoes
  <2> QED BY <1>0, <2>1
<1>8. CASE HandleException(c)
  BY <1>0, <1>3, <1>8, HandleExceptionDoes
<1>9. CASE StartIntercept(c)
  BY <1>0, <1>3, <1>9, StartInterceptDoes DEF Intercepting
<1>10. CASE HandleResponse(c)
  <2>1. UNCHANGED server /\ Returns(c) /\ call[c].resp = "ok"
    BY <1>0, <1>3, <1>10, HandleResponseDoes
  <2>2. Ends(c, call[c].resp)
    BY <2>1 DEF Returns, LoopWaits
  <2>3. LateRec(call'[c], FALSE) /\ Same(c)
    BY <2>2 DEF Ends, LateRec, Active
  <2> QED BY <1>5, <2>1, <2>3 DEF server
<1>11. CASE ReadBody(c)
  BY <1>0, <1>3, <1>11, ReadBodyDoes
<1>12. CASE Retry(c)
  <2>1. call[c].count = 0 /\ UNCHANGED server
    BY <1>0, <1>3, <1>12, RetryDoes
  <2>2. MayRetry(c)
    BY <2>1, TokenRefreshAssumption DEF MayRetry
  <2>3. Repeats(c, TRUE)
    BY <1>0, <1>12, <2>2, RetryDoes
  <2>4. LateRec(call'[c], FALSE) /\ Same(c)
    BY <1>3, <2>3 DEF Repeats, KeepsTokens, LateRec
  <2> QED BY <1>5, <2>1, <2>4 DEF server
<1>13. CASE Abort(c)
  BY <1>0, <1>3, <1>13, AbortDoes
<1> QED BY <1>6, <1>7, <1>8, <1>9, <1>10, <1>11, <1>12, <1>13 DEF CallSteps

\* A step of the refresh itself: it is granted, as it comes with the only refresh token there is.
LEMMA RefreshStep ==
    ASSUME Basics, Newer, Ordered, CallSteps(Put), faults = 0, faults' = 0, expiries <= 1
    PROVE  Ordered'
<1>0. /\ Put \in Calls /\ Shape /\ faults = 0 /\ (\A r \in Requests : r \in Calls /\ r # Put)
      /\ FitsRec(Put, call[Put], issued) /\ expiries \in Nat
  BY TokenRefreshAssumption DEF Calls, Basics, IInv, Newer
<1>1. /\ call[Put].pc \in {"sending", "answered", "reading", "retry", "aborted"} /\ Refreshing
      /\ UNCHANGED <<expired, holder, revoked, refreshFailed, expiries>> /\ Same(Put)
  BY <1>0, OneMoves, PutMoves DEF Refreshing
<1>2. \A r \in Requests : call'[r] = call[r]
  BY <1>0, <1>1 DEF Same
<1>3. ASSUME Refreshing', Late' PROVE Ordered'
  BY <1>1, <1>2, <1>3 DEF Ordered
<1>4. faults' # faults + 1
  BY <1>0
<1>5. CASE Early
  <2>1. call[Put].pc = "sending" /\ call[Put].using = issued /\ call[Put].resp = "none"
    BY <1>0, <1>1, <1>5 DEF Early, FitsRec
  <2>2. ServerAnswers(Put)
    BY <1>0, <1>4, <2>1, AttemptFailsDoes, RateLimitedDoes, HandleExceptionDoes, StartInterceptDoes, HandleResponseDoes,
       ReadBodyDoes, RetryDoes, AbortDoes DEF CallSteps
  <2>3. issued' = issued + 1 /\ broadcast' = broadcast \cup {issued'} /\ Answered(Put, "ok", issued')
    BY <1>0, <2>1, <2>2, ServerAnswersDoes DEF Ordered
  <2>4. expired' = 1 /\ expiries' = 1
    BY <1>0, <1>1, <1>5 DEF Early, Newer
  <2>5. /\ issued' = 2 /\ broadcast' \subseteq {2}
        /\ call'[Put].pc = "answered" /\ call'[Put].resp = "ok" /\ call'[Put].token = 2 /\ Refreshing'
    BY <1>5, <2>3 DEF Early, Answered, Refreshing
  <2>6. \A r \in Requests : LateRec(call'[r], TRUE)
    BY <1>1, <1>2, <1>5 DEF Early, EarlyRec, LateRec
  <2>7. Late'
    BY <2>4, <2>5, <2>6 DEF Late
  <2> QED BY <1>3, <2>5, <2>7
<1>6. CASE Late
  <2>1. call[Put].pc = "answered" /\ call[Put].resp = "ok" /\ call[Put].token = 2
    BY <1>1, <1>6 DEF Late
  <2>2. HandleResponse(Put)
    BY <1>0, <1>4, <2>1, ServerAnswersDoes, AttemptFailsDoes, RateLimitedDoes, HandleExceptionDoes, StartInterceptDoes,
       ReadBodyDoes, RetryDoes, AbortDoes DEF CallSteps, Answered
  <2>3. UNCHANGED server /\ Returns(Put)
    BY <1>0, <2>1, <2>2, HandleResponseDoes
  <2>4. Ends(Put, "ok")
    BY <2>1, <2>3 DEF Returns, LoopWaits
  <2>5. call'[Put].pc = "ended" /\ call'[Put].resp = "ok" /\ call'[Put].token = 2 /\ Refreshing'
    BY <2>1, <2>4 DEF Ends, Refreshing
  <2>6. Late'
    BY <1>1, <1>2, <1>6, <2>3, <2>5 DEF Late, server
  <2> QED BY <1>3, <2>5, <2>6
<1> QED BY <1>5, <1>6 DEF Ordered

\* The refresh is over, and it was granted.
LEMMA RefreshEnds ==
    ASSUME Basics, Newer, Ordered, RefreshSucceeds \/ RefreshFails
    PROVE  Ordered'
<1>0. /\ Put \in Calls /\ Shape /\ (\A r \in Requests : r \in Calls /\ r # Put)
  BY TokenRefreshAssumption DEF Calls, Basics, IInv
<1>1. PICK ok \in BOOLEAN : RefreshIsOver(ok) /\ (ok => refreshFailed' = FALSE)
  BY <1>0, RefreshIsOverDoes
<1>2. /\ call[Put].pc = "ended" /\ (call[Put].resp = "ok") = ok /\ Refreshing
      /\ call'[Put].pc = "idle" /\ ~Refreshing'
      /\ UNCHANGED <<issued, broadcast, expired, expiries, revoked>>
      /\ holder' = IF ok THEN call[Put].token ELSE holder
  BY <1>1 DEF RefreshIsOver, server, Refreshing
<1>3. Late /\ ok /\ call[Put].token = 2
  BY <1>2 DEF Ordered, Early, Late
<1>4. ASSUME NEW r \in Requests
      PROVE  /\ LateRec(call'[r], FALSE)
             /\ Active(call'[r]) => Active(call[r])
  <2>1. Resumes(r, TRUE) /\ LateRec(call[r], TRUE)
    BY <1>1, <1>2, <1>3 DEF RefreshIsOver, Late
  <2>2. CASE call[r].pc \in {"refreshWait", "lockWait"}
    <3>1. call'[r].pc = "retry" /\ call'[r].token = 2 /\ call'[r].count = call[r].count /\ call[r].count = 0
      BY <1>3, <2>1, <2>2 DEF Resumes, LateRec, Active
    <3> QED BY <2>2, <3>1 DEF LateRec, Active
  <2>3. CASE call[r].pc = "loopWait"
    <3>1. call'[r].pc = "sending" /\ call'[r].token = 2
      BY <1>3, <2>1, <2>3 DEF Resumes
    <3> QED BY <2>3, <3>1 DEF LateRec, Active
  <2>4. CASE call[r].pc \notin WaitPcs
    <3>1. call'[r] = call[r] /\ ~Active(call[r])
      BY <2>1, <2>4 DEF Resumes, LateRec
    <3> QED BY <3>1 DEF LateRec
  <2> QED BY <2>2, <2>3, <2>4 DEF WaitPcs
<1>5. Late'
  <2>1. \A r \in Requests : LateRec(call'[r], Refreshing')
    BY <1>2, <1>4 DEF LateRec
  <2> QED BY <1>2, <1>3, <2>1 DEF Late
<1>6. \A q, r \in Requests : Active(call'[q]) /\ Active(call'[r]) => q = r
  BY <1>4 DEF Ordered
<1> QED BY <1>1, <1>2, <1>3, <1>5, <1>6 DEF Ordered

\* Messages, the expiry of the tokens, and a request that starts.
LEMMA SurroundingsOrdered ==
    ASSUME Basics, Newer, Ordered, Surroundings, faults = 0, faults' = 0, ~together', expiries' <= 1
    PROVE  Ordered'
<1>0. /\ Put \in Calls /\ Shape /\ (\A r \in Requests : r \in Calls /\ r # Put) /\ faults = 0
      /\ expiries \in Nat
  BY TokenRefreshAssumption DEF Calls, Basics, IInv, Newer
<1>1. CASE Expire
  <2>1. expired' = issued /\ expiries' = expiries + 1
        /\ UNCHANGED <<issued, broadcast, holder, revoked, refreshFailed, call>>
    BY <1>1 DEF Expire, status
  <2>2. expiries = 0 /\ expiries' = 1
    BY <1>0, <2>1
  <2>3. Early
    BY <2>2 DEF Ordered, Late
  <2>4. Early'
    BY <2>1, <2>2, <2>3 DEF Early, Refreshing
  <2> QED BY <2>1, <2>4 DEF Ordered, Refreshing
<1>2. CASE Revoke \/ OtherEditorRefreshes
  BY <1>0, <1>2 DEF Revoke, OtherEditorRefreshes, Fault
<1>3. CASE UserMessage
  <2>1. PICK n \in broadcast : holder' = n /\ broadcast' = broadcast \ {n}
    BY <1>3 DEF UserMessage
  <2>2. UNCHANGED <<issued, expired, expiries, revoked, refreshFailed, call>>
    BY <1>3 DEF UserMessage, status
  <2>3. Late
    BY <2>1 DEF Ordered, Early
  <2>4. Late'
    BY <2>1, <2>2, <2>3 DEF Late, Refreshing
  <2> QED BY <2>2, <2>4 DEF Ordered, Refreshing
<1>4. CASE DebounceEnds \/ LogoutTold
  <2>1. UNCHANGED <<issued, broadcast, holder, expired, expiries, revoked, refreshFailed, call>>
    BY <1>4 DEF DebounceEnds, LogoutTold, server
  <2> QED BY <2>1 DEF Ordered, Early, Late, Refreshing
<1>5. ASSUME NEW r \in Requests, Start(r) PROVE Ordered'
  <2>1. /\ Starts(r) /\ UNCHANGED <<issued, broadcast, holder, expired, expiries, revoked, refreshFailed>>
        /\ together' = (together \/ \E q \in Requests : call[q].pc \notin {"idle", "ended"})
    BY <1>0, <1>5, StartDoes DEF server, status
  <2>2. \A q \in Requests : ~Active(call[q])
    BY <2>1 DEF Active
  <2>3. ~Refreshing
    BY <2>2 DEF Ordered
  <2>4. CASE Early
    <3>1. EarlyRec(r, call'[r], FALSE) /\ Same(r)
      BY <2>1, <2>4 DEF Starts, EarlyRec, Early
    <3> QED BY <2>1, <2>2, <2>3, <2>4, <3>1, EarlyMove
  <2>5. CASE Late
    <3>1. LateRec(call'[r], FALSE) /\ Same(r)
      BY <2>1, <2>3, <2>5 DEF Starts, LateRec, Late
    <3> QED BY <2>1, <2>2, <2>3, <2>5, <3>1, LateMove
  <2> QED BY <2>4, <2>5 DEF Ordered
<1> QED BY <1>1, <1>2, <1>3, <1>4, <1>5 DEF Surroundings

\* Every step.
LEMMA OrderedStep ==
    Basics /\ Newer /\ faults \in Nat /\ OrderedInv /\ [Next]_vars => OrderedInv'
<1> SUFFICES ASSUME Basics, Newer, faults \in Nat, OrderedInv, [Next]_vars, Alone' PROVE Ordered'
  BY DEF OrderedInv
<1>0. Shape /\ Put \notin Requests /\ Calls = Requests \cup {Put} /\ expiries \in Nat
  BY TokenRefreshAssumption DEF Basics, IInv, Calls, Newer
<1>1. /\ faults' \in {faults, faults + 1} /\ expiries' \in {expiries, expiries + 1} /\ (together => together')
      /\ ~together' /\ faults' = 0 /\ expiries' <= 1
  BY AllCount DEF Counts, Alone
<1>2. faults = 0
  BY <1>1
<1>3. expiries <= 1
  BY <1>0, <1>1
<1>4. Ordered
  BY <1>1, <1>2, <1>3 DEF OrderedInv, Alone
<1>5. CASE UNCHANGED vars
  BY <1>4, <1>5 DEF vars, server, status, Ordered, Early, Late, Refreshing
<1>6. ASSUME NEW c \in Calls, CallSteps(c) PROVE Ordered'
  <2>1. CASE c = Put
    BY <1>1, <1>2, <1>3, <1>4, <1>6, <2>1, RefreshStep
  <2>2. CASE c # Put
    BY <1>0, <1>1, <1>2, <1>4, <1>6, <2>2, EarlyStep, LateStep DEF Ordered
  <2> QED BY <2>1, <2>2
<1>7. CASE Continue
  BY <1>0, <1>4, <1>6, <1>7, RefreshEnds DEF Continue, CallSteps
<1>8. CASE Attempts
  BY <1>6, <1>8 DEF Attempts, CallSteps
<1>9. CASE Surroundings
  BY <1>1, <1>2, <1>4, <1>9, SurroundingsOrdered
<1> QED BY <1>5, <1>7, <1>8, <1>9 DEF Next, Progress

\* At first nothing is under way.
LEMMA OrderedInit == Init => OrderedInv
<1> SUFFICES ASSUME Init PROVE OrderedInv
  OBVIOUS
<1>1. \A c \in Calls : call[c].pc = "idle"
  BY DEF Init, NoCall
<1>2. Put \in Calls /\ Requests \subseteq Calls
  BY DEF Calls
<1>3. Early
  BY <1>1, <1>2 DEF Init, Early, EarlyRec, Active
<1>4. Ordered
  BY <1>1, <1>2, <1>3 DEF Init, Ordered, Active, Refreshing
<1> QED BY <1>4 DEF OrderedInv

\* So it is in every state.
LEMMA OrderedInvariant == Spec => [](Basics /\ Newer /\ faults \in Nat /\ OrderedInv)
<1>1. Basics /\ Newer /\ faults \in Nat /\ OrderedInv /\ [Next]_vars
        => (Basics /\ Newer /\ faults \in Nat /\ OrderedInv)'
  BY BasicsStep, NewerStep, FaultsStep, OrderedStep
<1>2. Init => Basics /\ Newer /\ faults \in Nat /\ OrderedInv
  BY BasicsInit, NewerInit, HiddenInit, OrderedInit
<1> QED BY <1>1, <1>2, PTL DEF Spec

\* Requests that are made one at a time never have the session declared expired by a single
\* expiry: whichever of the three places the refresh token is taken from, the holder, the
\* interceptor or the loop, it is the one that was issued last (codestreamApi.ts,
\* newRelicResponseInterceptor.ts, TokenHolder.ts).
THEOREM OverlapNeeded == Spec => []ExpiredOnlyByOverlap
<1>1. OrderedInv => ExpiredOnlyByOverlap
  BY DEF OrderedInv, Ordered, Alone, ExpiredOnlyByOverlap
<1> QED BY <1>1, OrderedInvariant, PTL

================================================================================
