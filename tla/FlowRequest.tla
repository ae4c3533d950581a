----------------------------- MODULE FlowRequest -----------------------------
(***************************************************************************)
(* A request of the backend to Google Flow, end to end: the coroutine in   *)
(* FlowBridge (api_request, trpc_request and send_rpc), the handler in the *)
(* extension's service worker (handleRpc, swFetch, inject), Google Flow,   *)
(* and what the worker makes of the answer.                                *)
(*                                                                         *)
(* Only the RPC that carries the request is followed message by message;   *)
(* the RPCs before it (a tab, a captcha token) leave nothing behind, and   *)
(* an answer is matched by a request id that is never used again.  How the *)
(* bearer is found is BrowserSession, how sockets come and go is           *)
(* ConnectorSession; both are outcomes here.                               *)
(***************************************************************************)
EXTENDS Naturals

CONSTANTS
    Request,
    Page,          \* requests that a page sends (trpc_request); the others are sent
                   \* by the service worker (api_request)
    MaxSockets     \* bound: sockets the extension opens

Generation == Request \ Page
Socket == 1..MaxSockets

ASSUME RequestAssumption == Page \subseteq Request /\ MaxSockets \in Nat

VARIABLES
    opened,   \* sockets opened so far
    heard,    \* the extension's socket, 0 for null
    live,     \* the socket registered at the backend, 0 for none
    call,     \* the coroutine of each request, and the socket it sent on
    rpc,      \* its handler in the service worker; cancel: a CANCEL_RPC is on its way
    reply,    \* the answer on its way to the backend
    ask,      \* what Google Flow has made of the fetch
    stray,    \* an earlier fetch of the same request may still reach Google Flow
    carried   \* how often Google Flow has carried the request out

sockets == <<opened, heard, live>>
flow == <<ask, stray, carried>>
vars == <<sockets, call, rpc, reply, flow>>

Outcomes == {"ok", "refused", "unknown"}

\* A fetch ends with a status and a body, or with an exception: "taken" is a 200
\* that names media or an operation, "garbled" one that does not (its body is lost),
\* "unclear" a 408, 425, 500, 502, 503 or 504, which a proxy may have sent, "refused"
\* any other status from 400 on.
Answer == {"taken", "garbled", "refused", "unclear", "error"}

Init ==
    /\ opened = 0 /\ heard = 0 /\ live = 0
    /\ call = [r \in Request |-> [phase |-> "idle", steps |-> 0, on |-> 0]]
    /\ rpc = [r \in Request |-> [phase |-> "none", aborted |-> FALSE, cancel |-> FALSE]]
    /\ reply = [r \in Request |-> "none"]
    /\ ask = [r \in Request |-> "none"]
    /\ stray = [r \in Request |-> FALSE]
    /\ carried = [r \in Request |-> 0]

-----------------------------------------------------------------------------
(* The backend.                                                            *)

\* api_request opens a tab and asks it for a captcha token, trpc_request needs a tab.
Start(r) ==
    /\ call[r].phase = "idle"
    /\ call' = [call EXCEPT ![r].phase = "preparing",
                            ![r].steps = IF r \in Page THEN 1 ELSE 2]
    /\ UNCHANGED <<sockets, rpc, reply, flow>>

Prepares(r) ==
    /\ call[r].phase = "preparing" /\ call[r].steps > 0 /\ live # 0
    /\ call' = [call EXCEPT ![r].steps = @ - 1]
    /\ UNCHANGED <<sockets, rpc, reply, flow>>

\* No connection, no tab, no token, a timeout: an error without a status.
PrepareFails(r) ==
    /\ call[r].phase = "preparing"
    /\ call' = [call EXCEPT ![r].phase = "unknown"]
    /\ UNCHANGED <<sockets, rpc, reply, flow>>

\* send_rpc, over whichever socket is registered by now.
Sends(r) ==
    /\ call[r].phase = "preparing" /\ call[r].steps = 0 /\ live # 0
    /\ call' = [call EXCEPT ![r].phase = "waiting", ![r].on = live]
    /\ rpc' = [rpc EXCEPT ![r].phase = "wired"]
    /\ UNCHANGED <<sockets, reply, flow>>

\* Mutant: a gateway's 503 or 504 counts as a refusal.
OutcomeHasty(a) ==
    IF a = "taken" THEN "ok" ELSE IF a \in {"refused", "unclear"} THEN "refused" ELSE "unknown"

\* _normalize_fetch, and the worker's classification of its result.  For a video it asks
\* _credit_exhaustion first, which only speaks of 400, 402, 403 and 429: no unclear status.
Outcome(a) ==
    IF a = "taken" THEN "ok" ELSE IF a = "refused" THEN "refused" ELSE "unknown"

\* handle_message: an answer nobody waits for any more is dropped.
Hears(r) ==
    /\ call[r].phase = "waiting" /\ reply[r] # "none"
    /\ call' = [call EXCEPT ![r].phase = Outcome(reply[r])]
    /\ UNCHANGED <<sockets, rpc, reply, flow>>

\* send_rpc, after its timeout or when its task is cancelled.
GivesUp(r) ==
    /\ call[r].phase = "waiting"
    /\ call' = [call EXCEPT ![r].phase = "unknown"]
    /\ rpc' = [rpc EXCEPT ![r].cancel = TRUE]
    /\ UNCHANGED <<sockets, reply, flow>>

\* clear: every request that waits on the connection fails.
Cleared ==
    call' = [r \in Request |-> IF call[r].phase = "waiting" THEN [call[r] EXCEPT !.phase = "unknown"]
                               ELSE call[r]]

Disconnect ==
    /\ live # 0 /\ live' = 0
    /\ Cleared
    /\ UNCHANGED <<opened, heard, rpc, reply, flow>>

\* register, at the hello of a later socket.
Register(s) ==
    /\ s \in live + 1..opened
    /\ live' = s
    /\ Cleared
    /\ UNCHANGED <<opened, heard, rpc, reply, flow>>

-----------------------------------------------------------------------------
(* The service worker.                                                     *)

\* A new socket; an old one that was still closing will not run its onclose.
Connects ==
    /\ opened < MaxSockets
    /\ opened' = opened + 1 /\ heard' = opened'
    /\ UNCHANGED <<live, call, rpc, reply, flow>>

Running == {"authorizing", "fetching", "again"}
Abort(r) == [rpc[r] EXCEPT !.aborted = @ \/ rpc[r].phase \in Running]

\* onclose, disconnect: all requests are aborted.
Loses ==
    /\ heard # 0 /\ heard' = 0
    /\ rpc' = [r \in Request |-> Abort(r)]
    /\ UNCHANGED <<opened, live, call, reply, flow>>

\* Chrome ends the service worker, and its fetches with it.
Restarts ==
    /\ heard # 0 /\ heard' = 0
    /\ rpc' = [r \in Request |-> IF rpc[r].phase \in Running THEN [rpc[r] EXCEPT !.phase = "ended"]
                                 ELSE rpc[r]]
    /\ UNCHANGED <<opened, live, call, reply, flow>>

\* onmessage, for messages of the present socket only.
Receives(r) ==
    /\ rpc[r].phase = "wired" /\ call[r].on = heard
    /\ rpc' = [rpc EXCEPT ![r].phase = "authorizing"]
    /\ UNCHANGED <<sockets, call, reply, flow>>

\* CANCEL_RPC comes after the request it cancels.
Cancels(r) ==
    /\ rpc[r].cancel /\ rpc[r].phase # "wired" /\ call[r].on = heard
    /\ rpc' = [rpc EXCEPT ![r] = [Abort(r) EXCEPT !.cancel = FALSE]]
    /\ UNCHANGED <<sockets, call, reply, flow>>

\* ws.send, to nowhere if the socket has gone.
Replies(r, a) ==
    /\ rpc' = [rpc EXCEPT ![r].phase = "ended"]
    /\ reply' = [reply EXCEPT ![r] = IF call[r].on = heard THEN a ELSE @]

\* withBrowserOwnedFlowAuth has a bearer: swFetch, unless the request was aborted by
\* then, or pageFetch, which does not look at the signal.
Fetches(r) ==
    /\ rpc[r].phase = "authorizing" /\ (r \in Page \/ ~rpc[r].aborted)
    /\ rpc' = [rpc EXCEPT ![r].phase = "fetching"]
    /\ ask' = [ask EXCEPT ![r] = "asked"]
    /\ UNCHANGED <<sockets, call, reply, stray, carried>>

\* No bearer, or aborted: nothing leaves the extension.
AuthFails(r) ==
    /\ rpc[r].phase = "authorizing"
    /\ Replies(r, "error")
    /\ UNCHANGED <<sockets, call, flow>>

\* Which answers a fetch may get, with what Google Flow has made of it.  A proxy can
\* answer, or a connection break, before or after Flow has seen the request.
Possible(r, a) ==
    /\ a = "taken" => ask[r] = "taken"
    /\ a = "refused" => ask[r] = "refused"

\* Mutant: a failed fetch is repeated whoever made it.
AnsweredAgain(r, a) ==
    /\ rpc[r].phase \in {"fetching", "again"} /\ Possible(r, a)
    /\ IF a = "error" /\ rpc[r].phase = "fetching"
       THEN /\ rpc' = [rpc EXCEPT ![r].phase = "again"]
            /\ stray' = [stray EXCEPT ![r] = ask[r] = "asked"]
            /\ ask' = [ask EXCEPT ![r] = "asked"]
            /\ UNCHANGED reply
       ELSE Replies(r, a) /\ UNCHANGED <<ask, stray>>
    /\ UNCHANGED <<sockets, call, carried>>

\* The fetch has ended.  inject answers a page fetch that failed, in whatever way,
\* with a fetch of the service worker, which no signal can abort.
Answered(r, a) ==
    /\ rpc[r].phase \in {"fetching", "again"} /\ Possible(r, a)
    /\ IF a = "error" /\ r \in Page /\ rpc[r].phase = "fetching"
       THEN /\ rpc' = [rpc EXCEPT ![r].phase = "again"]
            /\ stray' = [stray EXCEPT ![r] = ask[r] = "asked"]
            /\ ask' = [ask EXCEPT ![r] = "asked"]
            /\ UNCHANGED reply
       ELSE Replies(r, a) /\ UNCHANGED <<ask, stray>>
    /\ UNCHANGED <<sockets, call, carried>>

-----------------------------------------------------------------------------
(* Google Flow, which need not notice that a fetch was aborted.            *)

Takes(r) ==
    /\ ask[r] = "asked"
    /\ ask' = [ask EXCEPT ![r] = "taken"]
    /\ carried' = [carried EXCEPT ![r] = @ + 1]
    /\ UNCHANGED <<sockets, call, rpc, reply, stray>>

Refuses(r) ==
    /\ ask[r] = "asked"
    /\ ask' = [ask EXCEPT ![r] = "refused"]
    /\ UNCHANGED <<sockets, call, rpc, reply, stray, carried>>

TakesStray(r) ==
    /\ stray[r]
    /\ stray' = [stray EXCEPT ![r] = FALSE]
    /\ carried' = [carried EXCEPT ![r] = @ + 1]
    /\ UNCHANGED <<sockets, call, rpc, reply, ask>>

Next ==
    \/ \E r \in Request :
         \/ Start(r) \/ Prepares(r) \/ PrepareFails(r) \/ Sends(r) \/ Hears(r) \/ GivesUp(r)
         \/ Receives(r) \/ Cancels(r) \/ Fetches(r) \/ AuthFails(r)
         \/ \E a \in Answer : Answered(r, a)
         \/ Takes(r) \/ Refuses(r) \/ TakesStray(r)
    \/ Disconnect \/ (\E s \in Socket : Register(s))
    \/ Connects \/ Loses \/ Restarts

Spec == Init /\ [][Next]_vars
-----------------------------------------------------------------------------
(* Properties.                                                             *)

\* The type of every variable.
Types ==
    /\ opened \in Nat /\ heard \in 0..opened /\ live \in 0..opened
    /\ call \in [Request -> [phase: {"idle", "preparing", "waiting"} \cup Outcomes,
                             steps: 0..2, on: Nat]]
    /\ rpc \in [Request -> [phase: {"none", "wired", "ended"} \cup Running,
                            aborted: BOOLEAN, cancel: BOOLEAN]]
    /\ reply \in [Request -> Answer \cup {"none"}]
    /\ ask \in [Request -> {"none", "asked", "taken", "refused"}]
    /\ stray \in [Request -> BOOLEAN]
    /\ carried \in [Request -> 0..2]

\* Of a request that the service worker sends (swFetch) Google Flow carries out one fetch
\* at most, of one that a page sends two at most, since inject repeats it once.
TypeOK == Types /\ \A r \in Generation : carried[r] <= 1

StateOf(phase) == IF phase \in {"preparing", "waiting"} THEN "away" ELSE phase

\* "A paid request can be accepted even when the bridge reports a timeout/error"
\* (job_worker.py): whatever is lost, late, cancelled or answered by someone else, a
\* generation request reported as refused is never carried out, one reported as taken
\* was, and none is carried out twice, so that only "unknown" is in doubt.
Contract ==
    INSTANCE UpstreamCall WITH
        Call <- Generation,
        state <- [r \in Generation |-> StateOf(call[r].phase)],
        carried <- [r \in Generation |-> carried[r]]
KeepsCall == Contract!Spec
=============================================================================
