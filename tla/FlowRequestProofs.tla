------------------------- MODULE FlowRequestProofs -------------------------
(***************************************************************************)
(* Theorems about FlowRequest, for every set of requests and any number of *)
(* sockets: type correctness, and the contract of UpstreamCall.            *)
(***************************************************************************)
EXTENDS FlowRequest, TLAPS

-----------------------------------------------------------------------------
(* The inductive invariant.                                                *)

\* Fetches of a request that Google Flow may still take.
Undecided(r) == (IF ask[r] = "asked" THEN 1 ELSE 0) + (IF stray[r] THEN 1 ELSE 0)

\* A handler fetches once, or twice if the first fetch was a page's.
FetchInv(r) ==
    /\ call[r].phase \in {"idle", "preparing"} => rpc[r].phase = "none"
    /\ rpc[r].phase \in {"none", "wired", "authorizing"} =>
         ask[r] = "none" /\ ~stray[r] /\ carried[r] = 0 /\ reply[r] = "none"
    /\ rpc[r].phase = "fetching" => carried[r] + Undecided(r) <= 1
    /\ carried[r] + Undecided(r) <= 2

\* A generation request is fetched once, and what is said of it is so.
CallInv(r) ==
    /\ rpc[r].phase = "none" => call[r].phase \in {"idle", "preparing", "unknown"}
    /\ rpc[r].phase # "again" /\ ~stray[r]
    /\ carried[r] = IF ask[r] = "taken" THEN 1 ELSE 0
    /\ reply[r] = "taken" => ask[r] = "taken"
    /\ reply[r] = "refused" => ask[r] = "refused"
    /\ call[r].phase = "ok" => ask[r] = "taken"
    /\ call[r].phase = "refused" => ask[r] = "refused"

IInv ==
    /\ Types
    /\ \A r \in Request : FetchInv(r)
    /\ \A r \in Generation : CallInv(r)

\* Actions that move one request leave the others as they are.
Alone(r) ==
    \A q \in Request \ {r} :
        /\ call'[q] = call[q] /\ rpc'[q] = rpc[q] /\ reply'[q] = reply[q]
        /\ ask'[q] = ask[q] /\ stray'[q] = stray[q] /\ carried'[q] = carried[q]

-----------------------------------------------------------------------------
(* The initial state, and what all actions on one request have in common.  *)

LEMMA InitInv == Init => IInv
BY RequestAssumption
   DEF Init, IInv, Types, FetchInv, CallInv, Undecided, Generation, Running, Outcomes, Answer

LEMMA AloneStep ==
    ASSUME IInv, Types', NEW r \in Request, Alone(r), FetchInv(r)', r \in Generation => CallInv(r)'
    PROVE  IInv'
<1>1. ASSUME NEW q \in Request PROVE FetchInv(q)'
  <2>1. CASE q = r
    BY <2>1
  <2>2. CASE q # r
    BY <2>2 DEF IInv, FetchInv, Undecided, Alone
  <2> QED
    BY <2>1, <2>2
<1>2. ASSUME NEW q \in Generation PROVE CallInv(q)'
  <2>1. CASE q = r
    BY <2>1
  <2>2. CASE q # r
    BY <2>2 DEF IInv, CallInv, Alone, Generation
  <2> QED
    BY <2>1, <2>2
<1> QED
  BY <1>1, <1>2 DEF IInv

-----------------------------------------------------------------------------
(* The coroutine of the backend.                                           *)

\* The type of a coroutine and of a handler.
Calls == [phase: {"idle", "preparing", "waiting", "ok", "refused", "unknown"}, steps: 0..2, on: Nat]
Handlers == [phase: {"none", "wired", "ended", "authorizing", "fetching", "again"},
             aborted: BOOLEAN, cancel: BOOLEAN]

\* The request starts.
LEMMA StartInv ==
    ASSUME IInv, NEW r \in Request, Start(r)
    PROVE  IInv'
<1>1. Types'
  <2>1. call \in [Request -> Calls]
    BY DEF IInv, Types, Outcomes, Calls
  <2>2. call[r] \in Calls
    BY <2>1
  <2> DEFINE n == IF r \in Page THEN 1 ELSE 2
  <2>3. n \in 0..2 /\ call' = [call EXCEPT ![r].phase = "preparing", ![r].steps = n]
    BY DEF Start
  <2> HIDE DEF n
  <2>4. [call[r] EXCEPT !.phase = "preparing", !.steps = n] \in Calls
    BY <2>2, <2>3 DEF Calls
  <2>5. call' \in [Request -> Calls]
    BY <2>1, <2>3, <2>4
  <2> QED
    BY <2>5 DEF IInv, Types, Start, sockets, flow, Outcomes, Calls
<1>2. Alone(r)
  BY DEF IInv, Types, Start, Alone, sockets, flow
<1>3. FetchInv(r)'
  BY DEF IInv, Types, Start, FetchInv, Undecided, sockets, flow
<1>4. ASSUME r \in Generation PROVE CallInv(r)'
  BY <1>4 DEF IInv, Types, Start, CallInv, FetchInv, sockets, flow, Generation
<1> QED
  BY <1>1, <1>2, <1>3, <1>4, AloneStep

\* A tab or a token is there.
LEMMA PreparesInv ==
    ASSUME IInv, NEW r \in Request, Prepares(r)
    PROVE  IInv'
<1>1. Types'
  BY DEF IInv, Types, Prepares, sockets, flow, Outcomes, Answer
<1>2. Alone(r)
  BY DEF IInv, Types, Prepares, Alone, sockets, flow
<1>3. FetchInv(r)'
  BY DEF IInv, Types, Prepares, FetchInv, Undecided, sockets, flow
<1>4. ASSUME r \in Generation PROVE CallInv(r)'
  BY <1>4 DEF IInv, Types, Prepares, CallInv, FetchInv, sockets, flow, Generation
<1> QED
  BY <1>1, <1>2, <1>3, <1>4, AloneStep

\* Nothing was sent yet.
LEMMA PrepareFailsInv ==
    ASSUME IInv, NEW r \in Request, PrepareFails(r)
    PROVE  IInv'
<1>1. Types'
  BY DEF IInv, Types, PrepareFails, sockets, flow, Outcomes, Answer
<1>2. Alone(r)
  BY DEF IInv, Types, PrepareFails, Alone, sockets, flow
<1>3. FetchInv(r)'
  BY DEF IInv, Types, PrepareFails, FetchInv, Undecided, sockets, flow
<1>4. ASSUME r \in Generation PROVE CallInv(r)'
  BY <1>4 DEF IInv, Types, PrepareFails, CallInv, FetchInv, sockets, flow, Generation
<1> QED
  BY <1>1, <1>2, <1>3, <1>4, AloneStep

\* The handler has nothing fetched yet.
LEMMA SendsInv ==
    ASSUME IInv, NEW r \in Request, Sends(r)
    PROVE  IInv'
<1>1. Types'
  <2>1. call \in [Request -> Calls] /\ live \in Nat
    BY DEF IInv, Types, Outcomes, Calls
  <2>2. call[r] \in Calls
    BY <2>1
  <2>3. [call[r] EXCEPT !.phase = "waiting", !.on = live] \in Calls
    BY <2>1, <2>2 DEF Calls
  <2>4. call' \in [Request -> Calls]
    BY <2>1, <2>3 DEF Sends
  <2> QED
    BY <2>4 DEF IInv, Types, Sends, sockets, flow, Outcomes, Calls, Running
<1>2. Alone(r)
  BY DEF IInv, Types, Sends, Alone, sockets, flow
<1>3. FetchInv(r)'
  <2>1. rpc[r].phase = "none" /\ rpc'[r].phase = "wired"
    BY DEF IInv, Types, Sends, FetchInv
  <2> QED
    BY <2>1 DEF IInv, Types, Sends, FetchInv, Undecided, sockets, flow
<1>4. ASSUME r \in Generation PROVE CallInv(r)'
  BY <1>4 DEF IInv, Types, Sends, CallInv, FetchInv, sockets, flow, Generation
<1> QED
  BY <1>1, <1>2, <1>3, <1>4, AloneStep

\* What the answer says, Google Flow has done.
LEMMA HearsInv ==
    ASSUME IInv, NEW r \in Request, Hears(r)
    PROVE  IInv'
<1>1. Types'
  BY DEF IInv, Types, Hears, sockets, flow, Outcomes, Answer, Outcome
<1>2. Alone(r)
  BY DEF IInv, Types, Hears, Alone, sockets, flow, Outcome
<1>3. FetchInv(r)'
  BY DEF IInv, Types, Hears, FetchInv, Undecided, sockets, flow, Outcome
<1>4. ASSUME r \in Generation PROVE CallInv(r)'
  BY <1>4 DEF IInv, Types, Hears, CallInv, FetchInv, sockets, flow, Generation, Outcome
<1> QED
  BY <1>1, <1>2, <1>3, <1>4, AloneStep

\* A request given up is not known to have failed.
LEMMA GivesUpInv ==
    ASSUME IInv, NEW r \in Request, GivesUp(r)
    PROVE  IInv'
<1>1. Types'
  BY DEF IInv, Types, GivesUp, sockets, flow, Outcomes, Answer
<1>2. Alone(r)
  BY DEF IInv, Types, GivesUp, Alone, sockets, flow
<1>3. FetchInv(r)'
  BY DEF IInv, Types, GivesUp, FetchInv, Undecided, sockets, flow
<1>4. ASSUME r \in Generation PROVE CallInv(r)'
  BY <1>4 DEF IInv, Types, GivesUp, CallInv, FetchInv, sockets, flow, Generation
<1> QED
  BY <1>1, <1>2, <1>3, <1>4, AloneStep

-----------------------------------------------------------------------------
(* The handler in the service worker.                                      *)

\* The handler starts.
LEMMA ReceivesInv ==
    ASSUME IInv, NEW r \in Request, Receives(r)
    PROVE  IInv'
<1>1. Types'
  BY DEF IInv, Types, Receives, sockets, flow, Outcomes, Answer, Running
<1>2. Alone(r)
  BY DEF IInv, Types, Receives, Alone, sockets, flow, Running
<1>3. FetchInv(r)'
  BY DEF IInv, Types, Receives, FetchInv, Undecided, sockets, flow, Running
<1>4. ASSUME r \in Generation PROVE CallInv(r)'
  BY <1>4 DEF IInv, Types, Receives, CallInv, FetchInv, sockets, flow, Generation, Running
<1> QED
  BY <1>1, <1>2, <1>3, <1>4, AloneStep

\* An abort does not undo a fetch.
LEMMA CancelsInv ==
    ASSUME IInv, NEW r \in Request, Cancels(r)
    PROVE  IInv'
<1>1. Types'
  BY DEF IInv, Types, Cancels, sockets, flow, Outcomes, Answer, Abort, Running
<1>2. Alone(r)
  BY DEF IInv, Types, Cancels, Alone, sockets, flow, Abort, Running
<1>3. FetchInv(r)'
  BY DEF IInv, Types, Cancels, FetchInv, Undecided, sockets, flow, Abort, Running
<1>4. ASSUME r \in Generation PROVE CallInv(r)'
  BY <1>4 DEF IInv, Types, Cancels, CallInv, FetchInv, sockets, flow, Generation, Abort, Running
<1> QED
  BY <1>1, <1>2, <1>3, <1>4, AloneStep

\* The first and, for a generation request, only fetch.
LEMMA FetchesInv ==
    ASSUME IInv, NEW r \in Request, Fetches(r)
    PROVE  IInv'
<1>1. Types'
  BY DEF IInv, Types, Fetches, sockets, flow, Outcomes, Answer, Running
<1>2. Alone(r)
  BY DEF IInv, Types, Fetches, Alone, sockets, flow, Running
<1>3. FetchInv(r)'
  BY DEF IInv, Types, Fetches, FetchInv, Undecided, sockets, flow, Running
<1>4. ASSUME r \in Generation PROVE CallInv(r)'
  BY <1>4 DEF IInv, Types, Fetches, CallInv, FetchInv, sockets, flow, Generation, Running
<1> QED
  BY <1>1, <1>2, <1>3, <1>4, AloneStep

\* An error says nothing of Google Flow.
LEMMA AuthFailsInv ==
    ASSUME IInv, NEW r \in Request, AuthFails(r)
    PROVE  IInv'
<1>1. Types'
  BY DEF IInv, Types, AuthFails, sockets, flow, Outcomes, Answer, Replies, Running
<1>2. Alone(r)
  BY DEF IInv, Types, AuthFails, Alone, sockets, flow, Replies, Running
<1>3. FetchInv(r)'
  BY DEF IInv, Types, AuthFails, FetchInv, Undecided, sockets, flow, Replies, Running
<1>4. ASSUME r \in Generation PROVE CallInv(r)'
  BY <1>4 DEF IInv, Types, AuthFails, CallInv, FetchInv, sockets, flow, Generation, Replies, Running
<1> QED
  BY <1>1, <1>2, <1>3, <1>4, AloneStep

\* A fetch that ends, or is repeated.
LEMMA AnsweredInv ==
    ASSUME IInv, NEW r \in Request, NEW a \in Answer, Answered(r, a)
    PROVE  IInv'
<1>1. Types'
  <2>1. CASE a = "error" /\ r \in Page /\ rpc[r].phase = "fetching"
    <3>1. rpc' = [rpc EXCEPT ![r].phase = "again"] /\ reply' = reply
      BY <2>1 DEF Answered
    <3>2. stray' = [stray EXCEPT ![r] = ask[r] = "asked"] /\ ask' = [ask EXCEPT ![r] = "asked"]
      BY <2>1 DEF Answered
    <3>3. UNCHANGED <<opened, heard, live, call, carried>>
      BY DEF Answered, sockets
    <3> QED
      BY <3>1, <3>2, <3>3 DEF IInv, Types, Running
  <2>2. CASE ~(a = "error" /\ r \in Page /\ rpc[r].phase = "fetching")
    <3>1. rpc' = [rpc EXCEPT ![r].phase = "ended"]
      BY <2>2 DEF Answered, Replies
    <3>2. \E b \in Answer \cup {"none"} : reply' = [reply EXCEPT ![r] = b]
      BY <2>2 DEF IInv, Types, Answered, Replies
    <3>3. UNCHANGED <<opened, heard, live, call, ask, stray, carried>>
      BY <2>2 DEF Answered, sockets
    <3> QED
      BY <3>1, <3>2, <3>3 DEF IInv, Types
  <2> QED
    BY <2>1, <2>2
<1>2. Alone(r)
  BY DEF IInv, Types, Answered, Alone, sockets, flow, Replies, Possible, Running
<1>3. FetchInv(r)'
  BY DEF IInv, Types, Answered, FetchInv, Undecided, sockets, flow, Replies, Possible, Running
<1>4. ASSUME r \in Generation PROVE CallInv(r)'
  BY <1>4 DEF IInv, Types, Answered, CallInv, FetchInv, sockets, flow, Generation, Replies, Possible, Running
<1> QED
  BY <1>1, <1>2, <1>3, <1>4, AloneStep

-----------------------------------------------------------------------------
(* Google Flow.                                                            *)

\* Google Flow takes a request once for each fetch.
LEMMA TakesInv ==
    ASSUME IInv, NEW r \in Request, Takes(r)
    PROVE  IInv'
<1>1. Types'
  <2>1. carried[r] + 1 \in 0..2
    BY DEF IInv, Types, Takes, FetchInv, Undecided
  <2> QED
    BY <2>1 DEF IInv, Types, Takes, sockets
<1>2. Alone(r)
  BY DEF IInv, Types, Takes, Alone, sockets, flow
<1>3. FetchInv(r)'
  BY DEF IInv, Types, Takes, FetchInv, Undecided, sockets, flow
<1>4. ASSUME r \in Generation PROVE CallInv(r)'
  BY <1>4 DEF IInv, Types, Takes, CallInv, FetchInv, sockets, flow, Generation
<1> QED
  BY <1>1, <1>2, <1>3, <1>4, AloneStep

\* A refused request is not carried out.
LEMMA RefusesInv ==
    ASSUME IInv, NEW r \in Request, Refuses(r)
    PROVE  IInv'
<1>1. Types'
  BY DEF IInv, Types, Refuses, sockets, flow, Outcomes, Answer
<1>2. Alone(r)
  BY DEF IInv, Types, Refuses, Alone, sockets, flow
<1>3. FetchInv(r)'
  <2>1. ask[r] = "asked" /\ ask'[r] = "refused"
    BY DEF IInv, Types, Refuses
  <2>2. carried[r] \in 0..2 /\ UNCHANGED <<call, rpc, reply, stray, carried>>
    BY DEF IInv, Types, Refuses
  <2> QED
    BY <2>1, <2>2 DEF IInv, FetchInv, Undecided
<1>4. ASSUME r \in Generation PROVE CallInv(r)'
  BY <1>4 DEF IInv, Types, Refuses, CallInv, FetchInv, sockets, flow, Generation
<1> QED
  BY <1>1, <1>2, <1>3, <1>4, AloneStep

\* Only a page leaves a stray fetch.
LEMMA TakesStrayInv ==
    ASSUME IInv, NEW r \in Request, TakesStray(r)
    PROVE  IInv'
<1>1. Types'
  <2>1. carried[r] + 1 \in 0..2
    BY DEF IInv, Types, TakesStray, FetchInv, Undecided
  <2> QED
    BY <2>1 DEF IInv, Types, TakesStray, sockets
<1>2. Alone(r)
  BY DEF IInv, Types, TakesStray, Alone, sockets, flow
<1>3. FetchInv(r)'
  BY DEF IInv, Types, TakesStray, FetchInv, Undecided, sockets, flow
<1>4. ASSUME r \in Generation PROVE CallInv(r)'
  BY <1>4 DEF IInv, Types, TakesStray, CallInv, FetchInv, sockets, flow, Generation
<1> QED
  BY <1>1, <1>2, <1>3, <1>4, AloneStep

-----------------------------------------------------------------------------
(* Sockets.                                                                *)

\* A connection that is cleared leaves its requests in doubt.
LEMMA ClearedInv ==
    ASSUME IInv, Cleared, UNCHANGED <<opened, heard, rpc, reply, flow>>, live' \in 0..opened
    PROVE  IInv'
<1>1. call' \in [Request -> Calls]
  <2>1. call \in [Request -> Calls]
    BY DEF IInv, Types, Calls, Outcomes
  <2>2. \A r \in Request : [call[r] EXCEPT !.phase = "unknown"] \in Calls
    BY <2>1 DEF Calls
  <2> QED
    BY <2>1, <2>2 DEF Cleared
<1>2. Types'
  BY <1>1 DEF IInv, Types, Calls, Outcomes, flow
<1>3. ASSUME NEW r \in Request PROVE FetchInv(r)'
  BY <1>3 DEF IInv, Types, Cleared, FetchInv, Undecided, flow
<1>4. ASSUME NEW r \in Generation PROVE CallInv(r)'
  BY <1>4 DEF IInv, Types, Cleared, CallInv, Generation, flow
<1> QED
  BY <1>2, <1>3, <1>4 DEF IInv

\* An abort marks handlers, and undoes nothing.
LEMMA LosesInv ==
    ASSUME IInv, Loses
    PROVE  IInv'
<1>1. rpc' \in [Request -> Handlers]
  BY DEF IInv, Types, Loses, Abort, Handlers, Running
<1>2. Types'
  BY <1>1 DEF IInv, Types, Loses, Handlers, Running, flow
<1>3. \A r \in Request : rpc'[r].phase = rpc[r].phase
  BY DEF IInv, Types, Loses, Abort
<1>4. ASSUME NEW r \in Request PROVE FetchInv(r)'
  BY <1>3, <1>4 DEF IInv, Loses, FetchInv, Undecided, flow
<1>5. ASSUME NEW r \in Generation PROVE CallInv(r)'
  BY <1>3, <1>5 DEF IInv, Loses, CallInv, Generation, flow
<1> QED
  BY <1>2, <1>4, <1>5 DEF IInv

\* A service worker that ends takes its handlers along.
LEMMA RestartsInv ==
    ASSUME IInv, Restarts
    PROVE  IInv'
<1>1. rpc' \in [Request -> Handlers]
  BY DEF IInv, Types, Restarts, Handlers, Running
<1>2. Types'
  BY <1>1 DEF IInv, Types, Restarts, Handlers, Running, flow
<1>3. \A r \in Request : rpc'[r].phase = rpc[r].phase \/ (rpc[r].phase \in Running /\ rpc'[r].phase = "ended")
  BY DEF IInv, Types, Restarts
<1>4. ASSUME NEW r \in Request PROVE FetchInv(r)'
  BY <1>3, <1>4 DEF IInv, Restarts, FetchInv, Undecided, Running, flow
<1>5. ASSUME NEW r \in Generation PROVE CallInv(r)'
  BY <1>3, <1>5 DEF IInv, Restarts, CallInv, Generation, flow, Running
<1> QED
  BY <1>2, <1>4, <1>5 DEF IInv

\* No step leads out of the invariant.
LEMMA NextInv ==
    ASSUME IInv, [Next]_vars
    PROVE  IInv'
<1>1. ASSUME NEW r \in Request,
             Start(r) \/ Prepares(r) \/ PrepareFails(r) \/ Sends(r) \/ Hears(r) \/ GivesUp(r)
      PROVE  IInv'
  BY <1>1, StartInv, PreparesInv, PrepareFailsInv, SendsInv, HearsInv, GivesUpInv
<1>2. ASSUME NEW r \in Request, Receives(r) \/ Cancels(r) \/ Fetches(r) \/ AuthFails(r)
      PROVE  IInv'
  BY <1>2, ReceivesInv, CancelsInv, FetchesInv, AuthFailsInv
<1>3. ASSUME NEW r \in Request, NEW a \in Answer, Answered(r, a)
      PROVE  IInv'
  BY <1>3, AnsweredInv
<1>4. ASSUME NEW r \in Request, Takes(r) \/ Refuses(r) \/ TakesStray(r)
      PROVE  IInv'
  BY <1>4, TakesInv, RefusesInv, TakesStrayInv
<1>5. CASE Disconnect
  BY <1>5, ClearedInv DEF Disconnect, IInv, Types
<1>6. ASSUME NEW s \in Socket, Register(s)
      PROVE  IInv'
  BY <1>6, ClearedInv DEF Register, IInv, Types
<1>7. CASE Connects
  BY <1>7 DEF Connects, IInv, Types, FetchInv, CallInv, Undecided, flow
<1>8. CASE UNCHANGED vars
  BY <1>8 DEF vars, sockets, flow, IInv, Types, FetchInv, CallInv, Undecided
<1> QED
  BY <1>1, <1>2, <1>3, <1>4, <1>5, <1>6, <1>7, <1>8, LosesInv, RestartsInv DEF Next

-----------------------------------------------------------------------------
(* The theorems.                                                           *)

\* The invariant holds in every reachable state of every instance.
THEOREM Invariant == Spec => []IInv
<1>1. Init => IInv
  BY InitInv
<1>2. IInv /\ [Next]_vars => IInv'
  BY NextInv
<1> QED
  BY <1>1, <1>2, PTL DEF Spec

\* For every set of requests: Google Flow carries out a request of the service worker once
\* at most, and a request of a page, whose fetch inject repeats, at most twice.
THEOREM TypeCorrect == Spec => []TypeOK
<1>1. IInv => TypeOK
  BY DEF IInv, CallInv, TypeOK
<1> QED
  BY <1>1, Invariant, PTL

-----------------------------------------------------------------------------
(* The contract.                                                           *)

\* What a step may mean to the worker: s and n become t and m.
CallStep(s, t, n, m) ==
    \/ t = s /\ m = n
    \/ /\ m = n
       /\ \/ s = "idle" /\ t = "away"
          \/ s = "away" /\ t = "ok" /\ n = 1
          \/ s = "away" /\ t = "refused" /\ n = 0
          \/ s = "away" /\ t = "unknown"
    \/ s \in {"away", "unknown"} /\ t = s /\ n = 0 /\ m = 1

\* Every step is one of these for every generation request.
LEMMA StepMeans ==
    ASSUME IInv, [Next]_vars, NEW g \in Generation
    PROVE  CallStep(StateOf(call[g].phase), StateOf(call'[g].phase), carried[g], carried'[g])
<1> USE DEF CallStep, StateOf
<1>0. g \in Request /\ g \notin Page
  BY DEF Generation
<1>1. ASSUME NEW r \in Request,
             Start(r) \/ Prepares(r) \/ PrepareFails(r) \/ Sends(r) \/ GivesUp(r)
      PROVE  CallStep(StateOf(call[g].phase), StateOf(call'[g].phase), carried[g], carried'[g])
  BY <1>0, <1>1 DEF IInv, Types, Start, Prepares, PrepareFails, Sends, GivesUp, flow
<1>2. ASSUME NEW r \in Request, Hears(r)
      PROVE  CallStep(StateOf(call[g].phase), StateOf(call'[g].phase), carried[g], carried'[g])
  BY <1>0, <1>2 DEF IInv, Types, CallInv, Hears, Outcome, flow
<1>3. ASSUME NEW r \in Request, Takes(r)
      PROVE  CallStep(StateOf(call[g].phase), StateOf(call'[g].phase), carried[g], carried'[g])
  BY <1>0, <1>3 DEF IInv, Types, FetchInv, CallInv, Takes, Outcomes
<1>4. ASSUME NEW r \in Request, TakesStray(r)
      PROVE  CallStep(StateOf(call[g].phase), StateOf(call'[g].phase), carried[g], carried'[g])
  BY <1>0, <1>4 DEF IInv, Types, CallInv, TakesStray
<1>5. ASSUME Cleared, UNCHANGED flow
      PROVE  CallStep(StateOf(call[g].phase), StateOf(call'[g].phase), carried[g], carried'[g])
  BY <1>0, <1>5 DEF IInv, Types, Cleared, flow
<1>6. ASSUME UNCHANGED <<call, carried>>
      PROVE  CallStep(StateOf(call[g].phase), StateOf(call'[g].phase), carried[g], carried'[g])
  BY <1>6
<1> HIDE DEF CallStep, StateOf
<1>7. ASSUME NEW r \in Request,
             \/ Receives(r) \/ Cancels(r) \/ Fetches(r) \/ AuthFails(r) \/ Refuses(r)
             \/ \E a \in Answer : Answered(r, a)
      PROVE  UNCHANGED <<call, carried>>
  BY <1>7 DEF Receives, Cancels, Fetches, AuthFails, Answered, Refuses, flow
<1>8. CASE Disconnect \/ \E s \in Socket : Register(s)
  BY <1>5, <1>8 DEF Disconnect, Register
<1>9. CASE Connects \/ Loses \/ Restarts \/ UNCHANGED vars
  BY <1>6, <1>9 DEF Connects, Loses, Restarts, vars, flow
<1> QED
  BY <1>1, <1>2, <1>3, <1>4, <1>6, <1>7, <1>8, <1>9 DEF Next

\* KeepsCall: what JobLifecycle assumes of its calls holds of every generation
\* request, however many there are and however often sockets change.
THEOREM Implements == Spec => KeepsCall
<1> DEFINE state == [r \in Generation |-> StateOf(call[r].phase)]
           done == [r \in Generation |-> carried[r]]
<1>1. Init => Contract!Init
  BY DEF Init, Contract!Init, StateOf, Generation
<1>2. IInv /\ [Next]_vars => [Contract!Next]_<<state, done>>
  <2> SUFFICES ASSUME IInv, [Next]_vars, NEW g \in Generation
               PROVE  Contract!Step(g) \/ (state'[g] = state[g] /\ done'[g] = done[g])
    BY DEF Contract!Next
  <2>1. CallStep(StateOf(call[g].phase), StateOf(call'[g].phase), carried[g], carried'[g])
    BY StepMeans
  <2>2. state[g] = StateOf(call[g].phase) /\ state'[g] = StateOf(call'[g].phase)
    OBVIOUS
  <2>3. done[g] = carried[g] /\ done'[g] = carried'[g]
    OBVIOUS
  <2> HIDE DEF state, done
  <2> QED
    BY <2>1, <2>2, <2>3
       DEF CallStep, Contract!Step, Contract!Move, Contract!Begin, Contract!Succeed,
           Contract!Refuse, Contract!Doubt, Contract!Carry
<1> QED
  BY <1>1, <1>2, Invariant, PTL DEF Spec, KeepsCall, Contract!Spec
=============================================================================
