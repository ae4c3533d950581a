--------------------------- MODULE AccountCredits ---------------------------
(***************************************************************************)
(* The slots and the balance of one Google account: the reservations of    *)
(* app/runtime.py (Runtime), the connection object and the credit refresh  *)
(* task of app/providers/google_flow (FlowBridge), and the worker          *)
(* coroutines of app/workers/job_worker.py that reserve, pay and release.  *)
(*                                                                         *)
(* All of it is one event loop: an action is the code between two awaits.  *)
(* The counters and the refresh task belong to the connection id, which    *)
(* outlives a socket; a coroutine keeps the connection object it selected. *)
(***************************************************************************)
EXTENDS Integers, Sequences, FiniteSets

CONSTANTS
    Images, Videos, Polls,  \* coroutines that dispatch an image or a video, or poll
    Cost,                   \* estimated credits of a video, _job_credit_cost
    ImageSlots, VideoSlots, Slots,
    Amounts,                \* balances a credits request can return
    MaxObjects,             \* bound: sockets the connector opens
    MaxGen,                 \* bound: auth_available messages per socket
    MaxReads,               \* bound: balances read at Google Flow
    MaxPaid                 \* bound: paid attempts

Worker == Images \cup Videos \cup Polls

ASSUME CreditsAssumption ==
    /\ Images \cap Videos = {} /\ Polls \cap (Images \cup Videos) = {}
    /\ Cost \in [Videos -> Nat \ {0}]
    /\ {ImageSlots, VideoSlots, Slots} \subseteq Nat \ {0}
    /\ Amounts \subseteq Nat
    /\ {MaxObjects, MaxGen, MaxReads, MaxPaid} \subseteq Nat

VARIABLES
    live,       \* the object in _connections, 0 when disconnected
    opened,     \* sockets opened so far: the number of the latest object
    conn,       \* every connection object, the ones still held after a reconnect too
    switching,  \* objects whose auth_available handler has yet to restart the refresh
    refresh,    \* the task in _refresh_tasks
    worker,     \* the coroutines
    active,     \* Runtime.active_jobs, active_image_jobs and active_video_jobs
    reserved,   \* Runtime.reserved_credits
    reads,      \* the balances read so far, a balance being known by its number
    drawn,      \* credits of the paid requests sent on the strength of each balance
    paid        \* paid attempts sent and finished

vars == <<live, opened, conn, switching, refresh, worker, active, reserved, reads, drawn, paid>>

Object == 1..MaxObjects
Balance == 1..MaxReads
Unknown == 0                    \* credits is None

Connection == [flow_key: BOOLEAN, email: BOOLEAN, tier: BOOLEAN,
               generation: 0..MaxGen, credits: Balance \cup {Unknown}]

\* "asleep" before an attempt, "asked" once its request is out, "read" once Flow
\* has answered it, "broken" when the socket went first, "answered" once the
\* answer is in the future the task waits for, "acking" while the outcome is
\* acknowledged to the connector.
RefreshPhase == {"none", "asleep", "asked", "read", "broken", "answered", "acking"}
NoRefresh == [phase |-> "none", generation |-> 0, balance |-> Unknown]
Asleep == [NoRefresh EXCEPT !.phase = "asleep"]

Idle == [phase |-> "idle", object |-> 0, basis |-> Unknown]

Init ==
    /\ live = 0 /\ opened = 0
    /\ conn = [o \in Object |-> [flow_key |-> FALSE, email |-> FALSE, tier |-> FALSE,
                                 generation |-> 0, credits |-> Unknown]]
    /\ switching = {}
    /\ refresh = NoRefresh
    /\ worker = [w \in Worker |-> Idle]
    /\ active = [all |-> 0, image |-> 0, video |-> 0]
    /\ reserved = 0
    /\ reads = <<>>
    /\ drawn = [b \in Balance |-> 0]
    /\ paid = [sent |-> 0, finished |-> 0]

-----------------------------------------------------------------------------
(* Runtime: admission to the account's slots and credits.                  *)

\* ExtensionConnection.ready.
Ready(o) == conn[o].flow_key /\ conn[o].email /\ (conn[o].tier \/ conn[o].credits # Unknown)

CostOf(w) == IF w \in Videos THEN Cost[w] ELSE 0

\* Mutant: the balance is compared without what is already reserved.
CanReserveTwice(w) ==
    /\ w \in Images => active.image < ImageSlots
    /\ w \in Videos => /\ active.video < VideoSlots
                       /\ conn[live].credits # Unknown
                       /\ reads[conn[live].credits].amount >= Cost[w]
    /\ w \in Polls => active.all < Slots

\* can_reserve.
CanReserve(w) ==
    /\ w \in Images => active.image < ImageSlots
    /\ w \in Videos => /\ active.video < VideoSlots
                       /\ conn[live].credits # Unknown
                       /\ reads[conn[live].credits].amount - reserved >= Cost[w]
    /\ w \in Polls => active.all < Slots

\* reserve_connection, for the connection a lane has just selected.
Reserve(w) ==
    /\ live # 0 /\ Ready(live)
    /\ worker[w].phase = "idle"
    /\ CanReserve(w)
    /\ worker' = [worker EXCEPT ![w] = [phase |-> "holding", object |-> live,
                                        basis |-> IF w \in Videos THEN conn[live].credits
                                                  ELSE Unknown]]
    /\ active' = [all |-> active.all + 1,
                  image |-> active.image + (IF w \in Images THEN 1 ELSE 0),
                  video |-> active.video + (IF w \in Videos THEN 1 ELSE 0)]
    /\ reserved' = reserved + CostOf(w)
    /\ UNCHANGED <<live, opened, conn, switching, refresh, reads, drawn, paid>>

\* release_connection never counts below zero.
Down(n, by) == IF n > by THEN n - by ELSE 0

Release(w) ==
    /\ worker' = [worker EXCEPT ![w] = Idle]
    /\ active' = [all |-> Down(active.all, 1),
                  image |-> IF w \in Images THEN Down(active.image, 1) ELSE active.image,
                  video |-> IF w \in Videos THEN Down(active.video, 1) ELSE active.video]
    /\ reserved' = Down(reserved, CostOf(w))

\* schedule_account_refresh leaves a task that is not done alone.
Schedule == refresh' = IF refresh.phase = "none" THEN Asleep ELSE refresh

-----------------------------------------------------------------------------
(* Worker coroutines.                                                      *)

\* An image, a poll, or a video that failed before its paid request.
Leave(w) ==
    /\ worker[w].phase = "holding"
    /\ Release(w)
    /\ UNCHANGED <<live, opened, conn, switching, refresh, reads, drawn, paid>>

\* paid_attempted = True, and the request is on its way.
SendPaid(w) ==
    /\ w \in Videos /\ worker[w].phase = "holding"
    /\ paid.sent < MaxPaid
    /\ worker' = [worker EXCEPT ![w].phase = "paying"]
    /\ drawn' = [drawn EXCEPT ![worker[w].basis] = @ + Cost[w]]
    /\ paid' = [paid EXCEPT !.sent = @ + 1]
    /\ UNCHANGED <<live, opened, conn, switching, refresh, active, reserved, reads>>

\* Mutant: a failed paid request is tried again, in the slot it still holds.
FinishPaidRetries(w) ==
    /\ worker[w].phase = "paying"
    /\ conn' = [conn EXCEPT ![worker[w].object].credits = Unknown]
    /\ Schedule
    /\ paid' = [paid EXCEPT !.finished = @ + 1]
    /\ UNCHANGED <<live, opened, switching, worker, active, reserved, reads, drawn>>

\* The finally block: _refresh_paid_account forgets the balance of the object the
\* coroutine holds, schedules a refresh under the id, and the slot is released.
FinishPaid(w) ==
    /\ worker[w].phase = "paying"
    /\ conn' = [conn EXCEPT ![worker[w].object].credits = Unknown]
    /\ Schedule
    /\ Release(w)
    /\ paid' = [paid EXCEPT !.finished = @ + 1]
    /\ UNCHANGED <<live, opened, switching, reads, drawn>>

-----------------------------------------------------------------------------
(* The connector's socket and its messages.                                *)

\* clear: the pending request of the refresh is answered with an error.
BreakRequest ==
    refresh' = IF refresh.phase \in {"asked", "read"} THEN [refresh EXCEPT !.phase = "broken"]
               ELSE refresh

\* Mutant: a new socket starts with all its slots free.
RegisterResets ==
    /\ opened < MaxObjects
    /\ opened' = opened + 1 /\ live' = opened'
    /\ BreakRequest
    /\ active' = [all |-> 0, image |-> 0, video |-> 0]
    /\ reserved' = 0
    /\ UNCHANGED <<conn, switching, worker, reads, drawn, paid>>

\* register, superseding a socket that is still there.
Register ==
    /\ opened < MaxObjects
    /\ opened' = opened + 1 /\ live' = opened'
    /\ BreakRequest
    /\ UNCHANGED <<conn, switching, worker, active, reserved, reads, drawn, paid>>

Disconnect ==
    /\ live # 0
    /\ live' = 0
    /\ BreakRequest
    /\ UNCHANGED <<opened, conn, switching, worker, active, reserved, reads, drawn, paid>>

\* auth_available: another identity may be signed in, so everything known of the
\* previous one goes, and after the acknowledgement the refresh is restarted.
AuthAvailable ==
    /\ live # 0 /\ live \notin switching
    /\ conn[live].generation < MaxGen
    /\ conn' = [conn EXCEPT ![live] = [flow_key |-> TRUE, email |-> FALSE, tier |-> FALSE,
                                       generation |-> @.generation + 1, credits |-> Unknown]]
    /\ switching' = switching \cup {live}
    /\ UNCHANGED <<live, opened, refresh, worker, active, reserved, reads, drawn, paid>>

\* _restart_account_refresh, under the id of a socket that may be gone by now.
RestartRefresh(o) ==
    /\ o \in switching
    /\ switching' = switching \ {o}
    /\ refresh' = Asleep
    /\ UNCHANGED <<live, opened, conn, worker, active, reserved, reads, drawn, paid>>

\* user_info, with an email; one without would forget the email, which only keeps
\* the connection from being selected.
UserInfo ==
    /\ live # 0 /\ live \notin switching
    /\ conn' = [conn EXCEPT ![live].email = TRUE]
    /\ UNCHANGED <<live, opened, switching, refresh, worker, active, reserved, reads, drawn, paid>>

\* flow_api_key, with a key that changed.
ApiKeyChanged ==
    /\ live # 0 /\ live \notin switching /\ conn[live].flow_key
    /\ Schedule
    /\ UNCHANGED <<live, opened, conn, switching, worker, active, reserved, reads, drawn, paid>>

\* _invalidate_auth.
Invalid(c) == [c EXCEPT !.flow_key = FALSE, !.tier = FALSE, !.credits = Unknown]

\* auth_sync_status, or mark_provider_failure after a 401 or 403.
InvalidateAuth ==
    /\ live # 0
    /\ conn' = [conn EXCEPT ![live] = Invalid(@)]
    /\ UNCHANGED <<live, opened, switching, refresh, worker, active, reserved, reads, drawn, paid>>

-----------------------------------------------------------------------------
(* The refresh task: the runner of schedule_account_refresh around         *)
(* refresh_account.                                                        *)

RefreshOnly == UNCHANGED <<live, opened, switching, worker, active, reserved, drawn, paid>>

\* The delay is over: forget the balance and ask for it; or there is no key to use.
RefreshWakes ==
    /\ refresh.phase = "asleep"
    /\ IF live = 0 \/ ~conn[live].flow_key
       THEN refresh' = NoRefresh /\ UNCHANGED conn
       ELSE /\ conn' = [conn EXCEPT ![live].credits = Unknown]
            /\ \E phase \in {"asked", "acking"} :   \* "acking": no API key
                 refresh' = [refresh EXCEPT !.phase = phase,
                                            !.generation = conn[live].generation]
    /\ RefreshOnly /\ UNCHANGED reads

\* Google Flow reads the balance; its answer is under way.
BalanceRead ==
    /\ refresh.phase = "asked"
    /\ Len(reads) < MaxReads
    /\ \E amount \in Amounts :
         reads' = Append(reads, [amount |-> amount, object |-> live,
                                 generation |-> refresh.generation, finished |-> paid.finished])
    /\ refresh' = [refresh EXCEPT !.phase = "read", !.balance = Len(reads')]
    /\ RefreshOnly /\ UNCHANGED conn

\* handle_message: the socket delivers the answer.  The task has yet to run, and a
\* socket that goes now no longer breaks the request.
BalanceDelivered ==
    /\ refresh.phase = "read"
    /\ refresh' = [refresh EXCEPT !.phase = "answered"]
    /\ RefreshOnly /\ UNCHANGED <<conn, reads>>

\* Mutant: any live connection takes the answer.
AnySession == live # 0

SameSession == live # 0 /\ conn[live].generation = refresh.generation

\* The connection is gone or has changed identity: the answer is dropped.
RefreshDropped ==
    /\ refresh.phase \in {"asked", "broken", "answered"}
    /\ ~SameSession
    /\ refresh' = NoRefresh
    /\ RefreshOnly /\ UNCHANGED <<conn, reads>>

RefreshSucceeds ==
    /\ refresh.phase = "answered" /\ SameSession
    /\ conn' = [conn EXCEPT ![live].credits = refresh.balance, ![live].tier = TRUE]
    /\ refresh' = [refresh EXCEPT !.phase = "acking"]
    /\ RefreshOnly /\ UNCHANGED reads

\* An error, a timeout, an answer without a balance, or a 401 or 403.  An answer
\* whose tier is known without a balance is left out: it could only make the
\* account ready for images and polls before its next refresh does.
RefreshFails ==
    /\ refresh.phase \in {"asked", "broken", "answered"} /\ SameSession
    /\ \E c \in {conn[live], [conn[live] EXCEPT !.credits = Unknown, !.tier = FALSE],
                 Invalid(conn[live])} :
         conn' = [conn EXCEPT ![live] = c]
    /\ refresh' = [refresh EXCEPT !.phase = "acking"]
    /\ RefreshOnly /\ UNCHANGED reads

\* Mutant: the runner trusts the answer it got instead of looking again.
RefreshDecidesEarly ==
    /\ refresh.phase = "acking"
    /\ refresh' = IF /\ SameSession /\ conn[live].flow_key
                     /\ conn[live].credits = Unknown /\ refresh.balance = Unknown
                  THEN Asleep ELSE NoRefresh
    /\ RefreshOnly /\ UNCHANGED <<conn, reads>>

\* The runner looks again: done, or another attempt after a delay.
RefreshDecides ==
    /\ refresh.phase = "acking"
    /\ refresh' = IF SameSession /\ conn[live].flow_key /\ conn[live].credits = Unknown
                  THEN Asleep ELSE NoRefresh
    /\ RefreshOnly /\ UNCHANGED <<conn, reads>>

Next ==
    \/ \E w \in Worker : Reserve(w) \/ Leave(w) \/ SendPaid(w) \/ FinishPaid(w)
    \/ Register \/ Disconnect \/ AuthAvailable \/ (\E o \in Object : RestartRefresh(o))
    \/ UserInfo \/ ApiKeyChanged \/ InvalidateAuth
    \/ RefreshWakes \/ BalanceRead \/ BalanceDelivered \/ RefreshDropped \/ RefreshSucceeds \/ RefreshFails
    \/ RefreshDecides

Spec == Init /\ [][Next]_vars
-----------------------------------------------------------------------------
(* Properties.                                                             *)

TypeOK ==
    /\ live \in Object \cup {0} /\ opened \in 0..MaxObjects
    /\ conn \in [Object -> Connection]
    /\ switching \subseteq Object
    /\ refresh \in [phase: RefreshPhase, generation: 0..MaxGen, balance: Balance \cup {Unknown}]
    /\ worker \in [Worker -> [phase: {"idle", "holding", "paying"}, object: Object \cup {0},
                              basis: Balance \cup {Unknown}]]
    /\ active \in [all: Nat, image: Nat, video: Nat]
    /\ reserved \in Nat
    /\ reads \in Seq([amount: Amounts, object: Object, generation: 0..MaxGen, finished: Nat])
    /\ drawn \in [Balance -> Nat]
    /\ paid \in [sent: 0..MaxPaid, finished: 0..MaxPaid]

Holding(S) == {w \in S : worker[w].phase # "idle"}
Promised(b) == {w \in Videos : worker[w].phase = "holding" /\ worker[w].basis = b}

\* What a set of coroutines costs: its credits, counted one by one.
CreditsOf(S) == Cardinality(UNION {{w} \X (1..CostOf(w)) : w \in S})

\* The counters kept by id are exactly the coroutines that hold a slot, across
\* reconnects, identity switches and every way a coroutine ends: no slot or
\* credit leaks, and none is given back twice.
CountersExact ==
    /\ active = [all |-> Cardinality(Holding(Worker)),
                 image |-> Cardinality(Holding(Images)),
                 video |-> Cardinality(Holding(Videos))]
    /\ reserved = CreditsOf(Holding(Worker))

\* "Video jobs reserve their estimated credit cost before dispatch so concurrent
\* requests cannot reuse the same visible balance" (README.md): what was sent on
\* the strength of a balance, and what still may be, never exceeds it.
BalanceNotReused ==
    \A b \in 1..Len(reads) : drawn[b] + CreditsOf(Promised(b)) <= reads[b].amount

\* A balance asked for on a socket is never one it had before its last
\* auth_available, however the answer and the message cross.
BalanceOfThisIdentity ==
    \A o \in Object : conn[o].credits # Unknown /\ reads[conn[o].credits].object = o
                       => reads[conn[o].credits].generation = conn[o].generation

\* An account blocked for want of a balance has a refresh to unblock it.
RefreshPending ==
    live # 0 /\ live \notin switching /\ conn[live].flow_key /\ conn[live].credits = Unknown
      => refresh.phase # "none"

\* "Invalidate the captured balance and refresh it before another queued paid job
\* can use it" (job_worker.py): a balance that routes paid work was read after
\* the last paid attempt ended.
RefreshedAfterPaid ==
    live # 0 /\ conn[live].credits # Unknown
      => reads[conn[live].credits].finished = paid.finished

-----------------------------------------------------------------------------
(* The ledger of the account.  A balance is offered while the live          *)
(* connection shows it, and lent to the videos that hold a slot by it.      *)

Fetched(b) == refresh.phase \in {"read", "answered"} /\ refresh.balance = b
Shown(b) == live # 0 /\ conn[live].credits = b

StateOf(b) ==
    IF b > Len(reads) THEN "unread"
    ELSE IF Shown(b) THEN "offered"
    ELSE IF Fetched(b) THEN "fetched" ELSE "gone"

AmountOf(b) == IF b > Len(reads) THEN 0 ELSE reads[b].amount
LenderOf(v) == IF worker[v].phase = "holding" THEN worker[v].basis ELSE 0

Ledger == INSTANCE AccountLedger WITH
    state  <- [b \in Balance |-> StateOf(b)],
    amount <- [b \in Balance |-> AmountOf(b)],
    spent  <- drawn,
    lender <- [v \in Videos |-> LenderOf(v)]

\* "Video jobs reserve their estimated credit cost before dispatch" and a paid
\* attempt invalidates the balance (README.md, job_worker.py): whatever connections
\* show, refreshes fetch and counters admit, a balance that was forgotten is never
\* offered again, and no more is lent and spent than it has left.
KeepsLedger == Ledger!Spec
=============================================================================
