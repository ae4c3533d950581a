--------------------------- MODULE BrowserSession ---------------------------
(***************************************************************************)
(* The Chrome extension's side of a connector: its one WebSocket to the    *)
(* backend, the cached session of the Google account that is signed in,    *)
(* and what the backend is told of it (extension/background/background.js, *)
(* with the overrides of extension/providers/flow/browser-transport.js).   *)
(*                                                                         *)
(* A service worker is one event loop: an action is the code between two   *)
(* awaits.  connectionEpoch, authGeneration and authFetchSequence are only *)
(* ever compared with a value read earlier, so each is kept as the set of  *)
(* those who have read its present value.  Frames on a socket arrive in    *)
(* order, so the backend knows what it was told last; its lag is modelled  *)
(* in MediaRouting.                                                        *)
(***************************************************************************)
EXTENDS Naturals

CONSTANTS
    Attempt,       \* bound: connectOnce calls under way at once
    Rpc,           \* requests of the backend that need a bearer
    Frame,         \* sessions that pages of labs.google send
    MaxAccounts,   \* bound: accounts signed in, one after the other
    MaxLosses,     \* bound: closes, restarts and changes of the server
    MaxFailures,   \* bound: calls that fail and requests that are refused
    None

ASSUME BrowserAssumption ==
    /\ MaxAccounts \in Nat \ {0} /\ {MaxLosses, MaxFailures} \subseteq Nat
    /\ None \notin Attempt
    /\ Rpc \cap Frame = {} /\ \A x \in Rpc \cup Frame : x \notin Nat

Socket == 1..MaxLosses + 1      \* every socket but the last is lost
Account == 1..MaxAccounts
Actor == Socket \cup Rpc \cup Frame

VARIABLES
    socket,     \* the global of that name, 0 for null
    link,       \* readyState of every socket
    attempt,    \* the connectOnce calls
    inFlight,   \* connectInFlight
    timely,     \* attempts whose epoch is connectionEpoch
    timer,      \* reconnectTimer is set
    signed,     \* the account signed in
    auth,       \* who fetches the session, and the answer (0: none yet): the
                \* syncAuth of a socket, a request, a page
    newest,     \* whose fetch took the present authFetchSequence, 0 for nobody
    expected,   \* who has read the present authGeneration
    bearer,     \* the account of cachedBearer, 0 for null
    fresh,      \* cachedBearer is less than two minutes old
    due,        \* lastAuthSyncAt is five minutes old
    told,       \* the backend's connection: its socket, session and identity
    captured,   \* history: the account of the last captured session
    faults      \* losses and failures so far

connection == <<socket, link, attempt, inFlight, timely, timer>>
sessions == <<auth, newest, expected, bearer, fresh>>
vars == <<connection, signed, sessions, due, told, captured, faults>>

Idle == [phase |-> "idle", session |-> 0]
Fetching == [phase |-> "fetching", session |-> 0]
Unknown == [on |-> 0, key |-> FALSE, account |-> 0]

Init ==
    /\ socket = 0 /\ link = [s \in Socket |-> "none"]
    /\ attempt = [a \in Attempt |-> "idle"]
    /\ inFlight = None /\ timely = {} /\ timer = FALSE
    /\ signed = 1
    /\ auth = [x \in Actor |-> Idle]
    /\ newest = 0 /\ expected = {}
    /\ bearer = 0 /\ fresh = FALSE /\ due = TRUE
    /\ told = Unknown /\ captured = 0 /\ faults = [losses |-> 0, failures |-> 0]

Loses == faults.losses < MaxLosses /\ faults' = [faults EXCEPT !.losses = @ + 1]
Fails == faults.failures < MaxFailures /\ faults' = [faults EXCEPT !.failures = @ + 1]

Live(s) == link[s] \in {"connecting", "open"}
Connected(s) == s = socket /\ link[s] = "open"

-----------------------------------------------------------------------------
(* The socket.                                                             *)

\* Mutant: connect does not wait for the call that is under way.
ConnectsAgain ==
    IF socket # 0 /\ Live(socket)
    THEN UNCHANGED <<attempt, inFlight, timely>>
    ELSE \E a \in Attempt :
           /\ attempt[a] = "idle"
           /\ attempt' = [attempt EXCEPT ![a] = "config"]
           /\ inFlight' = a /\ timely' = timely \cup {a}

\* connect, and connectOnce up to its first await.
Connects ==
    IF inFlight # None \/ (socket # 0 /\ Live(socket))
    THEN UNCHANGED <<attempt, inFlight, timely>>
    ELSE \E a \in Attempt :
           /\ attempt[a] = "idle"
           /\ attempt' = [attempt EXCEPT ![a] = "config"]
           /\ inFlight' = a /\ timely' = timely \cup {a}

AttemptEnds(a) ==
    /\ attempt' = [attempt EXCEPT ![a] = "idle"]
    /\ inFlight' = IF inFlight = a THEN None ELSE inFlight
    /\ timely' = timely \ {a}

\* getConnectionConfig has returned.
Configured(a) ==
    /\ attempt[a] = "config"
    /\ IF a \in timely
       THEN attempt' = [attempt EXCEPT ![a] = "metadata"] /\ UNCHANGED <<inFlight, timely>>
       ELSE AttemptEnds(a)
    /\ UNCHANGED <<socket, link, timer, signed, sessions, due, told, captured, faults>>

NewWebSocket ==
    \E s \in Socket :
        /\ link[s] = "none" /\ \A t \in 1..s - 1 : link[t] # "none"
        /\ socket' = s /\ link' = [link EXCEPT ![s] = "connecting"]

\* Mutant: the epoch is not compared again before the socket is created.
CreatesAnyway(a) ==
    /\ attempt[a] = "metadata"
    /\ AttemptEnds(a)
    /\ NewWebSocket
    /\ UNCHANGED <<timer, signed, sessions, due, told, captured, faults>>

\* getInstallationId and getProfileMeta have returned: new WebSocket.
Creates(a) ==
    /\ attempt[a] = "metadata"
    /\ AttemptEnds(a)
    /\ IF a \in timely
       THEN NewWebSocket
       ELSE UNCHANGED <<socket, link>>
    /\ UNCHANGED <<timer, signed, sessions, due, told, captured, faults>>

\* connectOnce raises; one whose epoch is over leaves the timer alone.
AttemptFails(a) ==
    /\ attempt[a] # "idle" /\ Fails
    /\ AttemptEnds(a)
    /\ timer' = (timer \/ a \in timely)
    /\ UNCHANGED <<socket, link, signed, sessions, due, told, captured>>

\* syncAuth up to its first await; a second call joins the one under way.
Syncs(s) ==
    IF auth[s].phase # "idle" THEN UNCHANGED <<auth, newest, expected>>
    ELSE /\ auth' = [auth EXCEPT ![s] = Fetching]
         /\ newest' = s /\ expected' = expected \cup {s}

\* onopen: the hello makes the backend forget what it knew, and syncAuth runs.
Opens(s) ==
    /\ link[s] = "connecting"
    /\ link' = [link EXCEPT ![s] = "open"]
    /\ IF s = socket
       THEN told' = [Unknown EXCEPT !.on = s] /\ Syncs(s)
       ELSE UNCHANGED <<told, auth, newest, expected>>
    /\ UNCHANGED <<socket, attempt, inFlight, timely, timer, signed, bearer, fresh, due,
                   captured, faults>>

\* The backend, or the way there, is going to close the socket.
StartsClosing(s) ==
    /\ link[s] = "open" /\ Loses
    /\ link' = [link EXCEPT ![s] = "closing"]
    /\ UNCHANGED <<socket, attempt, inFlight, timely, timer, signed, sessions, due, told,
                   captured>>

\* onclose, which leaves everything alone if the socket has been replaced.
OnClose(s) ==
    /\ link' = [link EXCEPT ![s] = "closed"]
    /\ socket' = IF s = socket THEN 0 ELSE socket
    /\ timer' = (timer \/ s = socket)
    /\ told' = IF told.on = s THEN Unknown ELSE told
    /\ UNCHANGED <<attempt, inFlight, timely, signed, sessions, due, captured>>

Closed(s) == link[s] = "closing" /\ OnClose(s) /\ UNCHANGED faults
Breaks(s) == Live(s) /\ Loses /\ OnClose(s)

TimerFires ==
    /\ timer /\ timer' = FALSE
    /\ Connects
    /\ UNCHANGED <<socket, link, signed, sessions, due, told, captured, faults>>

\* Mutant: keepAlive keeps the socket only, and leaves the session to requests.
KeepAlivePings ==
    /\ IF socket # 0 /\ link[socket] = "open"
       THEN UNCHANGED <<attempt, inFlight, timely>>
       ELSE Connects
    /\ UNCHANGED <<socket, link, timer, signed, sessions, due, told, captured, faults>>

\* keepAlive, at an alarm or a message of the offscreen page.
KeepAlive ==
    /\ IF socket # 0 /\ link[socket] = "open"
       THEN /\ IF due THEN Syncs(socket) ELSE UNCHANGED <<auth, newest, expected>>
            /\ UNCHANGED <<attempt, inFlight, timely>>
       ELSE Connects /\ UNCHANGED <<auth, newest, expected>>
    /\ UNCHANGED <<socket, link, timer, signed, bearer, fresh, due, told, captured, faults>>

\* Mutant: disconnect drops cachedBearer and leaves cachedBearerAt.
SetServerKeepsTime ==
    /\ Loses
    /\ \E a \in Attempt :
         /\ attempt[a] = "idle"
         /\ attempt' = [attempt EXCEPT ![a] = "config"]
         /\ inFlight' = a /\ timely' = {a}
    /\ timer' = FALSE /\ socket' = 0
    /\ link' = IF socket # 0 /\ Live(socket) THEN [link EXCEPT ![socket] = "closing"] ELSE link
    /\ bearer' = 0 /\ due' = TRUE
    /\ UNCHANGED <<signed, auth, newest, expected, fresh, told, captured>>

\* setConnectionConfig: disconnect, then connect.
SetServer ==
    /\ Loses
    /\ \E a \in Attempt :
         /\ attempt[a] = "idle"
         /\ attempt' = [attempt EXCEPT ![a] = "config"]
         /\ inFlight' = a /\ timely' = {a}
    /\ timer' = FALSE /\ socket' = 0
    /\ link' = IF socket # 0 /\ Live(socket) THEN [link EXCEPT ![socket] = "closing"] ELSE link
    /\ bearer' = 0 /\ fresh' = FALSE /\ due' = TRUE
    /\ UNCHANGED <<signed, auth, newest, expected, told, captured>>

\* Chrome ends the service worker: all globals are gone, pages and alarms remain.
Restart ==
    /\ Loses
    /\ socket' = 0 /\ told' = Unknown
    /\ link' = [s \in Socket |-> IF link[s] = "none" THEN "none" ELSE "closed"]
    /\ attempt' = [a \in Attempt |-> "idle"]
    /\ inFlight' = None /\ timely' = {} /\ timer' = FALSE
    /\ auth' = [x \in Actor |->
                  IF x \in Frame THEN auth[x]
                  ELSE IF x \in Rpc /\ auth[x].phase = "fetching" THEN [Idle EXCEPT !.phase = "rejected"]
                  ELSE IF x \in Rpc THEN auth[x] ELSE Idle]
    /\ newest' = 0 /\ expected' = {}
    /\ bearer' = 0 /\ fresh' = FALSE /\ due' = TRUE
    /\ UNCHANGED <<signed, captured>>

-----------------------------------------------------------------------------
(* The session.                                                            *)

SwitchAccount ==
    /\ signed < MaxAccounts
    /\ signed' = signed + 1
    /\ UNCHANGED <<connection, sessions, due, told, captured, faults>>

\* labs.google answers a fetch with the session of who is signed in by then.
Answers(x) ==
    /\ auth[x] = Fetching
    /\ auth' = [auth EXCEPT ![x].session = signed]
    /\ UNCHANGED <<connection, signed, newest, expected, bearer, fresh, due, told, captured, faults>>

\* Mutant: the order in which the fetches were started is not looked at.
Current(x) == TRUE

\* The comparisons of fetchLabsSession and syncAuth: no fetch has been started
\* and no session captured since.
Undisturbed(x) == newest = x /\ x \in expected

Becomes(x, phase) == auth' = [auth EXCEPT ![x].phase = phase]
Stops(x) == auth' = [auth EXCEPT ![x] = Idle]

\* The session of a syncAuth is there: cache it and announce it, unless outdated.
SyncFetched(s) ==
    /\ auth[s].phase = "fetching" /\ auth[s].session # 0
    /\ IF Undisturbed(s) THEN bearer' = auth[s].session /\ fresh' = TRUE
                         ELSE UNCHANGED <<bearer, fresh>>
    /\ IF Undisturbed(s) /\ Connected(s)
       THEN /\ Becomes(s, "discovering")
            /\ told' = [told EXCEPT !.key = TRUE, !.account = 0]
            /\ due' = FALSE
       ELSE Stops(s) /\ UNCHANGED <<told, due>>
    /\ UNCHANGED <<connection, signed, newest, expected, captured, faults>>

\* Mutant: user_info is sent without a second look.
ReportsAnyway(s) ==
    /\ auth[s].phase = "discovering"
    /\ Stops(s)
    /\ told' = IF Connected(s) THEN [told EXCEPT !.account = auth[s].session] ELSE told
    /\ UNCHANGED <<connection, signed, newest, expected, bearer, fresh, due, captured, faults>>

\* The API key has been looked for in the tabs: send user_info.  Whoever is signed
\* in has an email; without one the connector would never be ready for a job.
SyncReports(s) ==
    /\ auth[s].phase = "discovering"
    /\ Stops(s)
    /\ told' = IF Undisturbed(s) /\ Connected(s)
               THEN [told EXCEPT !.account = auth[s].session] ELSE told
    /\ UNCHANGED <<connection, signed, newest, expected, bearer, fresh, due, captured, faults>>

\* syncAuth fails: nobody is signed in, another profile is, no network.
SyncFails(s) ==
    /\ auth[s].phase # "idle" /\ Fails
    /\ Stops(s)
    /\ IF Undisturbed(s) /\ Connected(s)
       THEN bearer' = 0 /\ fresh' = FALSE /\ told' = [told EXCEPT !.key = FALSE]
       ELSE UNCHANGED <<bearer, fresh, told>>
    /\ UNCHANGED <<connection, signed, newest, expected, due, captured>>

\* please_resend_userinfo, or REFRESH_SESSION from a page of flow.google.
Refresh ==
    /\ socket # 0 /\ link[socket] = "open"
    /\ Syncs(socket)
    /\ UNCHANGED <<connection, signed, bearer, fresh, due, told, captured, faults>>

\* A page of labs.google fetches the session, every four minutes.
PageFetches(f) ==
    /\ auth[f].phase = "idle"
    /\ auth' = [auth EXCEPT ![f] = Fetching]
    /\ UNCHANGED <<connection, signed, newest, expected, bearer, fresh, due, told, captured, faults>>

\* auth_available, and user_info if the page knows the email.
CaptureTold(f) ==
    IF socket # 0 /\ link[socket] = "open"
    THEN /\ due' = FALSE
         /\ \E account \in {0, auth[f].session} :
              told' = [told EXCEPT !.key = TRUE, !.account = account]
    ELSE UNCHANGED <<told, due>>

\* Mutant: a captured session leaves the fetches that are under way valid.
CapturesQuietly(f) ==
    /\ auth[f].phase = "fetching" /\ auth[f].session # 0
    /\ Becomes(f, "done")
    /\ bearer' = auth[f].session /\ fresh' = TRUE /\ captured' = auth[f].session
    /\ CaptureTold(f)
    /\ UNCHANGED <<connection, signed, newest, expected, faults>>

\* publishCapturedSession: the page's message has arrived.  It outdates every
\* fetch that is under way, whichever of the two Google answered later.
Captured(f) ==
    /\ auth[f].phase = "fetching" /\ auth[f].session # 0
    /\ Becomes(f, "done")
    /\ newest' = 0 /\ expected' = {}
    /\ bearer' = auth[f].session /\ fresh' = TRUE /\ captured' = auth[f].session
    /\ CaptureTold(f)
    /\ UNCHANGED <<connection, signed, faults>>

-----------------------------------------------------------------------------
(* Requests of the backend, and time.                                      *)

\* withBrowserOwnedFlowAuth and getBearer: the cached bearer, or a fetch.
Request(r) ==
    /\ socket # 0 /\ link[socket] = "open" /\ auth[r].phase = "idle"
    /\ IF bearer # 0 /\ fresh
       THEN /\ auth' = [auth EXCEPT ![r] = [phase |-> "authorized", session |-> bearer]]
            /\ UNCHANGED <<newest, expected>>
       ELSE /\ auth' = [auth EXCEPT ![r] = Fetching]
            /\ newest' = r /\ expected' = expected \cup {r}
    /\ UNCHANGED <<connection, signed, bearer, fresh, due, told, captured, faults>>

\* The fetch of getBearer has ended; an outdated one is "auth_changed".
Authorized(r) ==
    /\ auth[r].phase = "fetching" /\ auth[r].session # 0
    /\ IF Undisturbed(r)
       THEN Becomes(r, "authorized") /\ bearer' = auth[r].session /\ fresh' = TRUE
       ELSE Becomes(r, "rejected") /\ UNCHANGED <<bearer, fresh>>
    /\ UNCHANGED <<connection, signed, newest, expected, due, told, captured, faults>>

RequestFails(r) ==
    /\ auth[r].phase = "fetching" /\ Fails
    /\ Becomes(r, "rejected")
    /\ UNCHANGED <<connection, signed, newest, expected, bearer, fresh, due, told, captured>>

\* mark_provider_failure, refresh_account: a 401 or 403 of any request takes the
\* session away from whoever holds the connection id.
Unauthorized ==
    /\ told.key /\ Fails
    /\ told' = [told EXCEPT !.key = FALSE]
    /\ UNCHANGED <<connection, signed, sessions, due, captured>>

\* Two minutes, which a search of tabs that are still loading may outlast.
Expires ==
    /\ fresh /\ fresh' = FALSE
    /\ UNCHANGED <<connection, signed, auth, newest, expected, bearer, due, told, captured, faults>>

\* Five minutes.
BecomesDue ==
    /\ due' = TRUE
    /\ UNCHANGED <<connection, signed, sessions, told, captured, faults>>

Connecting(a) == Configured(a) \/ Creates(a)
Syncing(s) == SyncFetched(s) \/ SyncReports(s)

Next ==
    \/ \E a \in Attempt : Connecting(a) \/ AttemptFails(a)
    \/ \E s \in Socket :
         Opens(s) \/ StartsClosing(s) \/ Closed(s) \/ Breaks(s) \/ Syncing(s) \/ SyncFails(s)
    \/ \E x \in Actor : Answers(x)
    \/ \E f \in Frame : PageFetches(f) \/ Captured(f)
    \/ \E r \in Rpc : Request(r) \/ Authorized(r) \/ RequestFails(r)
    \/ TimerFires \/ KeepAlive \/ SetServer \/ Restart
    \/ SwitchAccount \/ Refresh \/ Unauthorized \/ Expires \/ BecomesDue

Spec == Init /\ [][Next]_vars

\* Alarms and the offscreen page call keepAlive for ever, time passes, awaits end.
\* Nothing is assumed of users, pages or requests.
Fairness ==
    /\ WF_vars(KeepAlive) /\ WF_vars(BecomesDue)
    /\ \A a \in Attempt : WF_vars(Connecting(a))
    /\ \A s \in Socket :
         /\ WF_vars(Opens(s)) /\ WF_vars(Closed(s))
         /\ WF_vars(Answers(s)) /\ WF_vars(Syncing(s))

FairSpec == Spec /\ Fairness
-----------------------------------------------------------------------------
(* Properties.                                                             *)

ConnectionOK ==
    /\ socket \in Socket \cup {0}
    /\ link \in [Socket -> {"none", "connecting", "open", "closing", "closed"}]
    /\ attempt \in [Attempt -> {"idle", "config", "metadata"}]
    /\ inFlight \in Attempt \cup {None} /\ timely \subseteq Attempt /\ timer \in BOOLEAN

Session == [phase: {"idle", "fetching", "discovering", "authorized", "rejected", "done"},
            session: Account \cup {0}]

SessionOK ==
    /\ signed \in Account
    /\ auth \in [Actor -> Session]
    /\ newest \in Actor \cup {0} /\ expected \subseteq Actor
    /\ bearer \in Account \cup {0} /\ fresh \in BOOLEAN /\ due \in BOOLEAN
    /\ fresh => bearer # 0

Told == [on: Socket \cup {0}, key: BOOLEAN, account: Account \cup {0}]
Faults == [losses: 0..MaxLosses, failures: 0..MaxFailures]

BackendOK == told \in Told /\ captured \in Account \cup {0} /\ faults \in Faults

TypeOK == ConnectionOK /\ SessionOK /\ BackendOK

\* "concurrent connect calls create only one websocket" and "changing the endpoint
\* invalidates a connection waiting for profile metadata" (tests/background_logic):
\* whatever timers, keepalives, endpoint changes and closes coincide, a socket that
\* is open or on its way there is the one the extension listens to.
OneSocket == \A s \in Socket : Live(s) => s = socket

\* "out-of-order session fetches keep the newest bearer cache": only a session that
\* a page has captured may bring back an account that was signed in earlier; and the
\* account the backend is told is the one whose bearer is cached by then.
NewestKept ==
    [][/\ bearer' \notin {0, bearer} /\ bearer' < bearer => captured' = bearer' /\ newest' = 0
       /\ told'.account \notin {0, told.account} => told'.account = bearer']_vars

\* "account switch invalidates a delayed session and authorizes later RPCs with token
\* B": no request goes out with a session older than the one captured last.
CapturedWins ==
    [][\A r \in Rpc :
         auth'[r].phase = "authorized" /\ auth[r].phase # "authorized"
           => auth'[r].session >= captured]_vars

\* Whatever was lost, refused, delayed or restarted, the backend ends up with a
\* session and, but for the moments of a new synchronisation, the right account.
IdentityCatchesUp ==
    /\ <>[](told.account \in {0, signed})
    /\ []<>(told.key /\ told.account = signed)
=============================================================================
