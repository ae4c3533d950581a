------------------------ MODULE BrowserSessionProofs ------------------------
(***************************************************************************)
(* Theorems about BrowserSession, for any number of connects, sockets,     *)
(* accounts, requests, pages and failures.                                 *)
(***************************************************************************)
EXTENDS BrowserSession, TLAPS

-----------------------------------------------------------------------------
(* The inductive invariant.                                                *)

\* One attempt at most has the present epoch, and then there is no socket.
ConnectInv ==
    /\ \A a \in timely : inFlight = a /\ (socket # 0 => ~Live(socket))
    /\ socket # 0 => link[socket] # "none"

\* What is cached, captured or fetched is the session of an account signed in by then.
PastInv ==
    /\ bearer <= signed /\ captured <= signed
    /\ \A x \in Actor : auth[x].session <= signed

\* The newest fetch is not older than what is cached or captured.
SessionInv ==
    /\ newest \notin Frame
    /\ bearer # 0 => captured <= bearer
    /\ newest # 0 /\ auth[newest].session # 0 /\ auth[newest].phase = "fetching"
         => bearer <= auth[newest].session /\ captured <= auth[newest].session

\* A socket that is looking for the API key announces the session that is cached.
SyncInv ==
    /\ \A s \in Socket : link[s] = "none" => auth[s].phase = "idle"
    /\ socket # 0 /\ newest = socket /\ auth[socket].phase = "discovering"
         => auth[socket].session = bearer

IInv == TypeOK /\ OneSocket /\ ConnectInv /\ PastInv /\ SessionInv /\ SyncInv

-----------------------------------------------------------------------------
(* Who is who.                                                             *)

LEMMA Actors ==
    /\ Socket \subseteq Actor /\ Rpc \subseteq Actor /\ Frame \subseteq Actor
    /\ Socket \subseteq Nat \ {0} /\ Account \subseteq Nat \ {0} /\ 1 \in Account /\ 0 \notin Actor
    /\ Socket \cap (Rpc \cup Frame) = {} /\ Rpc \cap Frame = {}
BY BrowserAssumption DEF Socket, Account, Actor

-----------------------------------------------------------------------------
(* Types.                                                                  *)

\* What a loss or a failure does to the counters.
LEMMA FaultsType ==
    ASSUME faults \in Faults, Loses \/ Fails
    PROVE  faults' \in Faults
BY BrowserAssumption DEF Faults, Loses, Fails

\* connect and an attempt that ends keep the connection in its type.
LEMMA ConnectsType ==
    ASSUME ConnectionOK, Connects \/ (\E a \in Attempt : AttemptEnds(a)),
           socket' \in Socket \cup {0}, timer' \in BOOLEAN,
           link' \in [Socket -> {"none", "connecting", "open", "closing", "closed"}]
    PROVE  ConnectionOK'
BY DEF ConnectionOK, Connects, AttemptEnds

\* Every action keeps the connection in its type.
LEMMA ConnectionStep ==
    ASSUME TypeOK, [Next]_vars
    PROVE  ConnectionOK'
<1>1. ASSUME NEW a \in Attempt, Configured(a)
      PROVE  ConnectionOK'
  <2>1. CASE a \in timely
    BY <1>1, <2>1 DEF TypeOK, ConnectionOK, Configured
  <2>2. CASE a \notin timely
    BY <1>1, <2>2, ConnectsType DEF TypeOK, ConnectionOK, Configured
  <2> QED
    BY <2>1, <2>2
<1>2. ASSUME NEW a \in Attempt, Creates(a)
      PROVE  ConnectionOK'
  BY <1>2, ConnectsType DEF TypeOK, ConnectionOK, Creates, NewWebSocket
<1>3. ASSUME NEW a \in Attempt, AttemptFails(a)
      PROVE  ConnectionOK'
  BY <1>3, ConnectsType DEF TypeOK, ConnectionOK, AttemptFails
<1>4. ASSUME NEW s \in Socket, Opens(s)
      PROVE  ConnectionOK'
  BY <1>4 DEF TypeOK, ConnectionOK, Opens
<1>5. ASSUME NEW s \in Socket, StartsClosing(s)
      PROVE  ConnectionOK'
  BY <1>5 DEF TypeOK, ConnectionOK, StartsClosing
<1>6. ASSUME NEW s \in Socket, Closed(s) \/ Breaks(s)
      PROVE  ConnectionOK'
  BY <1>6 DEF TypeOK, ConnectionOK, Closed, Breaks, OnClose
<1>7. CASE TimerFires
  BY <1>7, ConnectsType DEF TypeOK, ConnectionOK, TimerFires
<1>8. CASE KeepAlive
  BY <1>8, ConnectsType DEF TypeOK, ConnectionOK, KeepAlive
<1>9. CASE SetServer
  BY <1>9 DEF TypeOK, ConnectionOK, SetServer
<1>10. CASE Restart
  BY <1>10 DEF TypeOK, ConnectionOK, Restart
<1>11. CASE \/ \E s \in Socket : SyncFetched(s) \/ SyncReports(s) \/ SyncFails(s)
            \/ \E x \in Actor : Answers(x)
            \/ \E f \in Frame : PageFetches(f) \/ Captured(f)
            \/ \E r \in Rpc : Request(r) \/ Authorized(r) \/ RequestFails(r)
            \/ SwitchAccount \/ Refresh \/ Unauthorized \/ Expires \/ BecomesDue
  BY <1>11
     DEF TypeOK, ConnectionOK, connection, SyncFetched, SyncReports, SyncFails, Answers,
         PageFetches, Captured, Request, Authorized, RequestFails, SwitchAccount, Refresh,
         Unauthorized, Expires, BecomesDue
<1>12. CASE UNCHANGED vars
  BY <1>12 DEF vars, TypeOK, ConnectionOK, connection
<1> QED
  BY <1>1, <1>2, <1>3, <1>4, <1>5, <1>6, <1>7, <1>8, <1>9, <1>10, <1>11, <1>12
     DEF Next, Connecting, Syncing

\* A fetch that starts, is answered or moves on is still a fetch.
LEMMA AuthType ==
    ASSUME auth \in [Actor -> Session], NEW x \in Actor
    PROVE  /\ Idle \in Session /\ Fetching \in Session
           /\ [auth EXCEPT ![x] = Idle] \in [Actor -> Session]
           /\ [auth EXCEPT ![x] = Fetching] \in [Actor -> Session]
           /\ \A n \in Account \cup {0} :
                /\ [auth EXCEPT ![x].session = n] \in [Actor -> Session]
                /\ [auth EXCEPT ![x] = [phase |-> "authorized", session |-> n]]
                     \in [Actor -> Session]
           /\ \A p \in {"idle", "fetching", "discovering", "authorized", "rejected", "done"} :
                [auth EXCEPT ![x].phase = p] \in [Actor -> Session]
<1>1. Idle \in Session /\ Fetching \in Session
  BY DEF Idle, Fetching, Session
<1>2. auth[x] \in Session
  OBVIOUS
<1>3. \A n \in Account \cup {0} : [auth[x] EXCEPT !.session = n] \in Session
  BY <1>2 DEF Session
<1>4. \A n \in Account \cup {0} : [phase |-> "authorized", session |-> n] \in Session
  BY DEF Session
<1>5. \A p \in {"idle", "fetching", "discovering", "authorized", "rejected", "done"} :
        [auth[x] EXCEPT !.phase = p] \in Session
  BY <1>2 DEF Session
<1> QED
  BY <1>1, <1>3, <1>4, <1>5

\* syncAuth starts one fetch, or none.
LEMMA SyncsType ==
    ASSUME TypeOK, NEW s \in Socket, Syncs(s)
    PROVE  auth' \in [Actor -> Session] /\ newest' \in Actor \cup {0} /\ expected' \subseteq Actor
<1>1. CASE auth[s].phase = "idle"
  <2>1. s \in Actor /\ auth \in [Actor -> Session] /\ expected \subseteq Actor
    BY Actors DEF TypeOK, SessionOK
  <2>2. [auth EXCEPT ![s] = Fetching] \in [Actor -> Session]
    BY <2>1, AuthType
  <2> QED
    BY <1>1, <2>1, <2>2 DEF Syncs
<1>2. CASE auth[s].phase # "idle"
  BY <1>2 DEF TypeOK, SessionOK, Syncs
<1> QED
  BY <1>1, <1>2

\* Every action keeps the session in its type.
LEMMA SessionTypeStep ==
    ASSUME TypeOK, [Next]_vars
    PROVE  SessionOK'
<1>1. ASSUME NEW s \in Socket, Opens(s)
      PROVE  SessionOK'
  BY <1>1, SyncsType DEF TypeOK, SessionOK, Opens
<1>2. CASE KeepAlive
  <2>1. CASE socket # 0 /\ link[socket] = "open" /\ due
    BY <1>2, <2>1, SyncsType DEF TypeOK, ConnectionOK, SessionOK, KeepAlive
  <2>2. CASE ~(socket # 0 /\ link[socket] = "open" /\ due)
    BY <1>2, <2>2 DEF TypeOK, SessionOK, KeepAlive
  <2> QED
    BY <2>1, <2>2
<1>3. CASE Refresh
  BY <1>3, SyncsType DEF TypeOK, ConnectionOK, SessionOK, Refresh
<1>4. CASE SetServer
  BY <1>4 DEF TypeOK, SessionOK, SetServer
<1>5. CASE Restart
  <2>1. \A x \in Rpc : auth[x] \in Session /\ [Idle EXCEPT !.phase = "rejected"] \in Session
    BY Actors DEF TypeOK, SessionOK, Session, Idle
  <2>2. \A x \in Actor : auth'[x] \in Session
    BY <1>5, <2>1, AuthType DEF TypeOK, SessionOK, Restart
  <2> QED
    BY <1>5, <2>2 DEF TypeOK, SessionOK, Restart
<1>6. CASE SwitchAccount
  <2>1. signed' \in Account
    BY <1>6, BrowserAssumption DEF TypeOK, SessionOK, SwitchAccount, Account
  <2> QED
    BY <1>6, <2>1 DEF TypeOK, SessionOK, SwitchAccount, sessions
<1>7. ASSUME NEW x \in Actor, Answers(x)
      PROVE  SessionOK'
  BY <1>7, AuthType DEF TypeOK, SessionOK, Answers
<1>8. ASSUME NEW s \in Socket, SyncFetched(s)
      PROVE  SessionOK'
  <2>1. auth[s].session \in Account
    BY <1>8, Actors DEF TypeOK, SessionOK, Session, SyncFetched
  <2>2. /\ [auth EXCEPT ![s] = Idle] \in [Actor -> Session]
        /\ [auth EXCEPT ![s].phase = "discovering"] \in [Actor -> Session]
    BY Actors, AuthType DEF TypeOK, SessionOK
  <2>3. auth' \in [Actor -> Session]
    BY <1>8, <2>2 DEF SyncFetched, Becomes, Stops
  <2> QED
    BY <1>8, <2>1, <2>3, Actors DEF TypeOK, SessionOK, SyncFetched
<1>9. ASSUME NEW s \in Socket, SyncReports(s)
      PROVE  SessionOK'
  BY <1>9, Actors, AuthType DEF TypeOK, SessionOK, SyncReports, Stops
<1>10. ASSUME NEW s \in Socket, SyncFails(s)
      PROVE  SessionOK'
  <2>1. auth' \in [Actor -> Session]
    BY <1>10, Actors, AuthType DEF TypeOK, SessionOK, SyncFails, Stops
  <2> QED
    BY <1>10, <2>1 DEF TypeOK, SessionOK, SyncFails
<1>11. ASSUME NEW f \in Frame, PageFetches(f)
      PROVE  SessionOK'
  BY <1>11, Actors, AuthType DEF TypeOK, SessionOK, PageFetches
<1>12. ASSUME NEW f \in Frame, Captured(f)
      PROVE  SessionOK'
  <2>1. auth[f].session \in Account
    BY <1>12, Actors DEF TypeOK, SessionOK, Session, Captured
  <2>2. auth' \in [Actor -> Session]
    BY <1>12, Actors, AuthType DEF TypeOK, SessionOK, Captured, Becomes
  <2> QED
    BY <1>12, <2>1, <2>2, Actors DEF TypeOK, SessionOK, Captured, CaptureTold
<1>13. ASSUME NEW r \in Rpc, Request(r)
      PROVE  SessionOK'
  <2>1. /\ [auth EXCEPT ![r] = Fetching] \in [Actor -> Session]
        /\ [auth EXCEPT ![r] = [phase |-> "authorized", session |-> bearer]] \in [Actor -> Session]
    BY Actors, AuthType DEF TypeOK, SessionOK
  <2>2. auth' \in [Actor -> Session]
    BY <1>13, <2>1 DEF Request
  <2> QED
    BY <1>13, <2>2, Actors DEF TypeOK, SessionOK, Request
<1>14. ASSUME NEW r \in Rpc, Authorized(r)
      PROVE  SessionOK'
  <2>1. auth[r].session \in Account
    BY <1>14, Actors DEF TypeOK, SessionOK, Session, Authorized
  <2>2. /\ [auth EXCEPT ![r].phase = "authorized"] \in [Actor -> Session]
        /\ [auth EXCEPT ![r].phase = "rejected"] \in [Actor -> Session]
    BY Actors, AuthType DEF TypeOK, SessionOK
  <2>3. auth' \in [Actor -> Session]
    BY <1>14, <2>2 DEF Authorized, Becomes
  <2> QED
    BY <1>14, <2>1, <2>3, Actors DEF TypeOK, SessionOK, Authorized
<1>15. ASSUME NEW r \in Rpc, RequestFails(r)
      PROVE  SessionOK'
  BY <1>15, Actors, AuthType DEF TypeOK, SessionOK, RequestFails, Becomes
<1>16. CASE Expires
  BY <1>16 DEF TypeOK, SessionOK, Expires
<1>17. CASE BecomesDue
  BY <1>17 DEF TypeOK, SessionOK, BecomesDue, sessions
<1>18. CASE \/ \E a \in Attempt : Configured(a) \/ Creates(a) \/ AttemptFails(a)
            \/ \E s \in Socket : StartsClosing(s) \/ Closed(s) \/ Breaks(s)
            \/ TimerFires \/ Unauthorized
  BY <1>18
     DEF TypeOK, SessionOK, sessions, OnClose, Configured, Creates, AttemptFails,
         StartsClosing, Closed, Breaks, TimerFires, Unauthorized
<1>19. CASE UNCHANGED vars
  BY <1>19 DEF vars, TypeOK, SessionOK, sessions, OnClose
<1> QED
  BY <1>1, <1>2, <1>3, <1>4, <1>5, <1>6, <1>7, <1>8, <1>9, <1>10, <1>11, <1>12, <1>13,
     <1>14, <1>15, <1>16, <1>17, <1>18, <1>19
     DEF Next, Connecting, Syncing

\* Every action keeps what the backend was told, and the history, in their types.
LEMMA BackendStep ==
    ASSUME TypeOK, [Next]_vars
    PROVE  BackendOK'
<1>1. ASSUME NEW a \in Attempt, AttemptFails(a)
      PROVE  BackendOK'
  BY <1>1, FaultsType DEF TypeOK, BackendOK, AttemptFails
<1>2. ASSUME NEW s \in Socket, StartsClosing(s)
      PROVE  BackendOK'
  BY <1>2, FaultsType DEF TypeOK, BackendOK, StartsClosing
<1>3. ASSUME NEW s \in Socket, Closed(s) \/ Breaks(s)
      PROVE  BackendOK'
  <2>1. told \in Told /\ Unknown \in Told /\ told' \in {told, Unknown}
    BY <1>3 DEF TypeOK, BackendOK, Closed, Breaks, OnClose, Unknown, Told
  <2>2. faults' \in Faults /\ captured' = captured
    BY <1>3, FaultsType DEF TypeOK, BackendOK, Closed, Breaks, OnClose
  <2> QED
    BY <2>1, <2>2 DEF TypeOK, BackendOK
<1>4. ASSUME NEW s \in Socket, Opens(s)
      PROVE  BackendOK'
  BY <1>4 DEF TypeOK, BackendOK, Opens, Unknown, Told
<1>5. ASSUME NEW s \in Socket, SyncFetched(s)
      PROVE  BackendOK'
  BY <1>5 DEF TypeOK, BackendOK, SyncFetched, Told
<1>6. ASSUME NEW s \in Socket, SyncReports(s)
      PROVE  BackendOK'
  <2>1. auth[s].session \in Account \cup {0}
    BY Actors DEF TypeOK, SessionOK, Session
  <2> QED
    BY <1>6, <2>1 DEF TypeOK, BackendOK, SyncReports, Told
<1>7. ASSUME NEW s \in Socket, SyncFails(s)
      PROVE  BackendOK'
  BY <1>7, FaultsType DEF TypeOK, BackendOK, SyncFails, Told
<1>8. ASSUME NEW f \in Frame, Captured(f)
      PROVE  BackendOK'
  <2>1. auth[f].session \in Account
    BY <1>8, Actors DEF TypeOK, SessionOK, Session, Captured
  <2>2. told' \in Told
    BY <1>8, <2>1 DEF TypeOK, BackendOK, Captured, CaptureTold, Told
  <2> QED
    BY <1>8, <2>1, <2>2 DEF TypeOK, BackendOK, Captured
<1>9. ASSUME NEW r \in Rpc, RequestFails(r)
      PROVE  BackendOK'
  BY <1>9, FaultsType DEF TypeOK, BackendOK, RequestFails
<1>10. CASE SetServer
  BY <1>10, FaultsType DEF TypeOK, BackendOK, SetServer
<1>11. CASE Restart
  BY <1>11, FaultsType DEF TypeOK, BackendOK, Restart, Unknown, Told
<1>12. CASE Unauthorized
  BY <1>12, FaultsType DEF TypeOK, BackendOK, Unauthorized, Told
<1>13. CASE \/ \E a \in Attempt : Configured(a) \/ Creates(a)
            \/ \E x \in Actor : Answers(x)
            \/ \E f \in Frame : PageFetches(f)
            \/ \E r \in Rpc : Request(r) \/ Authorized(r)
            \/ TimerFires \/ KeepAlive \/ SwitchAccount \/ Refresh \/ Expires \/ BecomesDue
  BY <1>13
     DEF TypeOK, BackendOK, Configured, Creates, Answers, PageFetches, Request, Authorized,
         TimerFires, KeepAlive, SwitchAccount, Refresh, Expires, BecomesDue
<1>14. CASE UNCHANGED vars
  BY <1>14 DEF vars, TypeOK, BackendOK
<1> QED
  BY <1>1, <1>2, <1>3, <1>4, <1>5, <1>6, <1>7, <1>8, <1>9, <1>10, <1>11, <1>12, <1>13, <1>14
     DEF Next, Connecting, Syncing

-----------------------------------------------------------------------------
(* One socket.                                                             *)

\* No action makes a second socket or a second attempt of the present epoch.
LEMMA SocketStep ==
    ASSUME IInv, [Next]_vars
    PROVE  OneSocket' /\ ConnectInv'
<1>1. ASSUME NEW a \in Attempt, Configured(a)
      PROVE  OneSocket' /\ ConnectInv'
  BY <1>1
     DEF IInv, TypeOK, ConnectionOK, OneSocket, ConnectInv, Live, Configured, AttemptEnds
<1>2. ASSUME NEW a \in Attempt, Creates(a)
      PROVE  OneSocket' /\ ConnectInv'
  <2>1. CASE a \in timely
    <3>1. timely = {a} /\ timely' = timely \ {a}
      BY <1>2, <2>1 DEF IInv, ConnectInv, Creates, AttemptEnds
    <3>2. \A t \in Socket : ~Live(t)
      BY <2>1, Actors DEF IInv, ConnectInv, OneSocket
    <3>3. PICK s \in Socket : socket' = s /\ link' = [link EXCEPT ![s] = "connecting"]
      BY <1>2, <2>1 DEF Creates, NewWebSocket
    <3> QED
      BY <3>1, <3>2, <3>3 DEF IInv, TypeOK, ConnectionOK, OneSocket, ConnectInv, Live
  <2>2. CASE a \notin timely
    BY <1>2, <2>2
       DEF IInv, TypeOK, ConnectionOK, OneSocket, ConnectInv, Live, Creates, AttemptEnds
  <2> QED
    BY <2>1, <2>2
<1>3. ASSUME NEW a \in Attempt, AttemptFails(a)
      PROVE  OneSocket' /\ ConnectInv'
  BY <1>3
     DEF IInv, TypeOK, ConnectionOK, OneSocket, ConnectInv, Live, AttemptFails,
         AttemptEnds
<1>4. ASSUME NEW s \in Socket, Opens(s)
      PROVE  OneSocket' /\ ConnectInv'
  BY <1>4 DEF IInv, TypeOK, ConnectionOK, OneSocket, ConnectInv, Live, Opens
<1>5. ASSUME NEW s \in Socket, StartsClosing(s)
      PROVE  OneSocket' /\ ConnectInv'
  BY <1>5 DEF IInv, TypeOK, ConnectionOK, OneSocket, ConnectInv, Live, StartsClosing
<1>6. ASSUME NEW s \in Socket, Closed(s) \/ Breaks(s)
      PROVE  OneSocket' /\ ConnectInv'
  BY <1>6, Actors
     DEF IInv, TypeOK, ConnectionOK, OneSocket, ConnectInv, Live, Closed, Breaks, OnClose
<1>7. CASE TimerFires
  BY <1>7, BrowserAssumption
     DEF IInv, TypeOK, ConnectionOK, OneSocket, ConnectInv, Live, TimerFires, Connects
<1>8. CASE KeepAlive
  BY <1>8, BrowserAssumption
     DEF IInv, TypeOK, ConnectionOK, OneSocket, ConnectInv, Live, KeepAlive, Connects
<1>9. CASE SetServer
  BY <1>9 DEF IInv, TypeOK, ConnectionOK, OneSocket, ConnectInv, Live, SetServer
<1>10. CASE Restart
  BY <1>10 DEF IInv, TypeOK, ConnectionOK, OneSocket, ConnectInv, Live, Restart
<1>11. CASE \/ \E s \in Socket : SyncFetched(s) \/ SyncReports(s) \/ SyncFails(s)
            \/ \E x \in Actor : Answers(x)
            \/ \E f \in Frame : PageFetches(f) \/ Captured(f)
            \/ \E r \in Rpc : Request(r) \/ Authorized(r) \/ RequestFails(r)
            \/ SwitchAccount \/ Refresh \/ Unauthorized \/ Expires \/ BecomesDue
  BY <1>11
     DEF IInv, OneSocket, ConnectInv, Live, connection, SyncFetched, SyncReports,
         SyncFails, Answers, PageFetches, Captured, Request, Authorized, RequestFails,
         SwitchAccount, Refresh, Unauthorized, Expires, BecomesDue
<1>12. CASE UNCHANGED vars
  BY <1>12 DEF vars, IInv, OneSocket, ConnectInv, Live, connection
<1> QED
  BY <1>1, <1>2, <1>3, <1>4, <1>5, <1>6, <1>7, <1>8, <1>9, <1>10, <1>11, <1>12
     DEF Next, Connecting, Syncing

-----------------------------------------------------------------------------
(* Sessions.                                                               *)

\* syncAuth asks anew, or changes nothing; what it asks for is not there yet.
LEMMA SyncsFresh ==
    ASSUME TypeOK, NEW s \in Socket, Syncs(s)
    PROVE  /\ \A x \in Actor : auth'[x] = auth[x] \/ auth'[x] = Fetching
           /\ \/ auth' = auth /\ newest' = newest
              \/ newest' = s /\ auth'[s] = Fetching /\ \A x \in Actor \ {s} : auth'[x] = auth[x]
<1>1. s \in Actor /\ auth \in [Actor -> Session]
  BY Actors DEF TypeOK, SessionOK
<1> QED
  BY <1>1 DEF Syncs

\* A session is an account, or not there yet.
LEMMA SessionRange ==
    ASSUME TypeOK
    PROVE  /\ \A x \in Actor : auth[x].session \in Nat
           /\ {bearer, captured, signed} \subseteq Nat /\ signed # 0
<1>1. Account \cup {0} \subseteq Nat /\ 0 \notin Account
  BY Actors
<1> QED
  BY <1>1 DEF TypeOK, SessionOK, BackendOK, Session

\* No action caches, captures or answers what Google has not said.
LEMMA PastStep ==
    ASSUME IInv, [Next]_vars
    PROVE  PastInv'
<1>1. ASSUME NEW s \in Socket, Opens(s)
      PROVE  PastInv'
  <2>1. \A x \in Actor : auth'[x] = auth[x] \/ auth'[x] = Fetching
    BY <1>1, SyncsFresh DEF IInv, Opens
  <2> QED
    BY <1>1, <2>1, SessionRange DEF IInv, PastInv, Opens, Fetching
<1>2. CASE KeepAlive
  <2>1. \A x \in Actor : auth'[x] = auth[x] \/ auth'[x] = Fetching
    BY <1>2, SyncsFresh DEF IInv, TypeOK, ConnectionOK, KeepAlive
  <2> QED
    BY <1>2, <2>1, SessionRange DEF IInv, PastInv, KeepAlive, Fetching
<1>3. CASE Refresh
  <2>1. \A x \in Actor : auth'[x] = auth[x] \/ auth'[x] = Fetching
    BY <1>3, SyncsFresh DEF IInv, TypeOK, ConnectionOK, Refresh
  <2> QED
    BY <1>3, <2>1, SessionRange DEF IInv, PastInv, Refresh, Fetching
<1>4. ASSUME NEW s \in Socket, SyncFetched(s)
      PROVE  PastInv'
  <2>1. /\ s \in Actor
        /\ \A x \in Actor : auth'[x] = auth[x] \/ auth'[x].session \in {0, auth[x].session}
    BY <1>4, Actors DEF IInv, TypeOK, SessionOK, Session, SyncFetched, Becomes, Stops, Idle
  <2> QED
    BY <1>4, <2>1, SessionRange DEF IInv, PastInv, SyncFetched, connection
<1>5. ASSUME NEW s \in Socket, SyncReports(s)
      PROVE  PastInv'
  <2>1. \A x \in Actor : auth'[x] = auth[x] \/ auth'[x].session = 0
    BY <1>5, Actors DEF IInv, TypeOK, SessionOK, SyncReports, Stops, Idle
  <2> QED
    BY <1>5, <2>1, SessionRange DEF IInv, PastInv, SyncReports
<1>6. ASSUME NEW s \in Socket, SyncFails(s)
      PROVE  PastInv'
  <2>1. \A x \in Actor : auth'[x] = auth[x] \/ auth'[x].session = 0
    BY <1>6, Actors DEF IInv, TypeOK, SessionOK, SyncFails, Stops, Idle
  <2> QED
    BY <1>6, <2>1, SessionRange DEF IInv, PastInv, SyncFails
<1>7. ASSUME NEW x \in Actor, Answers(x)
      PROVE  PastInv'
  <2>1. \A y \in Actor : auth'[y] = auth[y] \/ auth'[y].session = signed
    BY <1>7 DEF IInv, TypeOK, SessionOK, Session, Answers
  <2> QED
    BY <1>7, <2>1, SessionRange DEF IInv, PastInv, Answers
<1>8. ASSUME NEW f \in Frame, PageFetches(f)
      PROVE  PastInv'
  <2>1. \A x \in Actor : auth'[x] = auth[x] \/ auth'[x].session = 0
    BY <1>8, Actors DEF IInv, TypeOK, SessionOK, PageFetches, Fetching
  <2> QED
    BY <1>8, <2>1, SessionRange DEF IInv, PastInv, PageFetches
<1>9. ASSUME NEW f \in Frame, Captured(f)
      PROVE  PastInv'
  <2>1. f \in Actor /\ \A x \in Actor : auth'[x].session = auth[x].session
    BY <1>9, Actors DEF IInv, TypeOK, SessionOK, Session, Captured, Becomes
  <2> QED
    BY <1>9, <2>1, SessionRange DEF IInv, PastInv, Captured
<1>10. ASSUME NEW r \in Rpc, Request(r)
      PROVE  PastInv'
  <2>1. \A x \in Actor : auth'[x] = auth[x] \/ auth'[x].session \in {0, bearer}
    BY <1>10, Actors DEF IInv, TypeOK, SessionOK, Request, Fetching
  <2> QED
    BY <1>10, <2>1, SessionRange DEF IInv, PastInv, Request
<1>11. ASSUME NEW r \in Rpc, Authorized(r)
      PROVE  PastInv'
  <2>1. r \in Actor /\ \A x \in Actor : auth'[x].session = auth[x].session
    BY <1>11, Actors DEF IInv, TypeOK, SessionOK, Session, Authorized, Becomes
  <2> QED
    BY <1>11, <2>1, SessionRange DEF IInv, PastInv, Authorized
<1>12. ASSUME NEW r \in Rpc, RequestFails(r)
      PROVE  PastInv'
  <2>1. \A x \in Actor : auth'[x].session = auth[x].session
    BY <1>12, Actors DEF IInv, TypeOK, SessionOK, Session, RequestFails, Becomes
  <2> QED
    BY <1>12, <2>1 DEF IInv, PastInv, RequestFails
<1>13. CASE SetServer
  BY <1>13, SessionRange DEF IInv, PastInv, SetServer
<1>14. CASE Restart
  <2>1. Idle.session = 0 /\ [Idle EXCEPT !.phase = "rejected"].session = 0
    BY DEF Idle
  <2>2. \A x \in Actor : auth'[x] \in {auth[x], [Idle EXCEPT !.phase = "rejected"], Idle}
    BY <1>14 DEF Restart
  <2> QED
    BY <1>14, <2>1, <2>2, SessionRange DEF IInv, PastInv, Restart
<1>15. CASE SwitchAccount
  BY <1>15, SessionRange DEF IInv, PastInv, SwitchAccount, sessions
<1>16. CASE \/ \E a \in Attempt : Configured(a) \/ Creates(a) \/ AttemptFails(a)
            \/ \E s \in Socket : StartsClosing(s) \/ Closed(s) \/ Breaks(s)
            \/ TimerFires \/ Unauthorized \/ Expires \/ BecomesDue
  BY <1>16
     DEF IInv, PastInv, sessions, OnClose, Configured, Creates, AttemptFails,
         StartsClosing, Closed, Breaks, TimerFires, Unauthorized, Expires, BecomesDue
<1>17. CASE UNCHANGED vars
  BY <1>17 DEF vars, IInv, PastInv, sessions, OnClose
<1> QED
  BY <1>1, <1>2, <1>3, <1>4, <1>5, <1>6, <1>7, <1>8, <1>9, <1>10, <1>11, <1>12, <1>13,
     <1>14, <1>15, <1>16, <1>17
     DEF Next, Connecting, Syncing

\* No action makes the newest fetch older than what is cached or captured.
LEMMA SessionStep ==
    ASSUME IInv, [Next]_vars
    PROVE  SessionInv'
<1>1. ASSUME NEW s \in Socket, Opens(s)
      PROVE  SessionInv'
  <2>1. \/ auth' = auth /\ newest' = newest
        \/ newest' = s /\ auth'[s].session = 0
    BY <1>1, SyncsFresh DEF IInv, Opens, Fetching
  <2> QED
    BY <1>1, <2>1, Actors DEF IInv, SessionInv, Opens
<1>2. CASE KeepAlive
  <2>1. \/ auth' = auth /\ newest' = newest
        \/ \E s \in Socket : newest' = s /\ auth'[s].session = 0
    BY <1>2, SyncsFresh DEF IInv, TypeOK, ConnectionOK, KeepAlive, Fetching
  <2> QED
    BY <1>2, <2>1, Actors DEF IInv, SessionInv, KeepAlive
<1>3. CASE Refresh
  <2>1. \/ auth' = auth /\ newest' = newest
        \/ \E s \in Socket : newest' = s /\ auth'[s].session = 0
    BY <1>3, SyncsFresh DEF IInv, TypeOK, ConnectionOK, Refresh, Fetching
  <2> QED
    BY <1>3, <2>1, Actors DEF IInv, SessionInv, Refresh
<1>4. ASSUME NEW s \in Socket, SyncFetched(s)
      PROVE  SessionInv'
  <2>1. s \in Actor /\ auth'[s].phase # "fetching" /\ \A y \in Actor \ {s} : auth'[y] = auth[y]
    BY <1>4, Actors DEF IInv, TypeOK, SessionOK, Session, SyncFetched, Becomes, Stops, Idle
  <2> QED
    BY <1>4, <2>1, Actors, SessionRange
       DEF IInv, TypeOK, SessionOK, SessionInv, SyncFetched, Undisturbed
<1>5. ASSUME NEW s \in Socket, SyncReports(s)
      PROVE  SessionInv'
  <2>1. s \in Actor /\ auth'[s].phase # "fetching" /\ \A y \in Actor \ {s} : auth'[y] = auth[y]
    BY <1>5, Actors DEF IInv, TypeOK, SessionOK, Session, SyncReports, Stops, Idle
  <2> QED
    BY <1>5, <2>1, Actors, SessionRange
       DEF IInv, TypeOK, SessionOK, SessionInv, SyncReports, Undisturbed
<1>6. ASSUME NEW s \in Socket, SyncFails(s)
      PROVE  SessionInv'
  <2>1. s \in Actor /\ auth'[s].phase # "fetching" /\ \A y \in Actor \ {s} : auth'[y] = auth[y]
    BY <1>6, Actors DEF IInv, TypeOK, SessionOK, Session, SyncFails, Stops, Idle
  <2> QED
    BY <1>6, <2>1, Actors, SessionRange
       DEF IInv, TypeOK, SessionOK, SessionInv, SyncFails, Undisturbed
<1>7. ASSUME NEW x \in Actor, Answers(x)
      PROVE  SessionInv'
  <2>1. auth'[x].session = signed /\ \A y \in Actor \ {x} : auth'[y] = auth[y]
    BY <1>7 DEF IInv, TypeOK, SessionOK, Session, Answers
  <2> QED
    BY <1>7, <2>1, Actors, SessionRange
       DEF IInv, TypeOK, SessionOK, SessionInv, PastInv, Answers
<1>8. ASSUME NEW f \in Frame, PageFetches(f)
      PROVE  SessionInv'
  <2>1. f \in Actor /\ \A y \in Actor \ {f} : auth'[y] = auth[y]
    BY <1>8, Actors DEF IInv, TypeOK, SessionOK, Session, PageFetches, Fetching
  <2> QED
    BY <1>8, <2>1, Actors, SessionRange
       DEF IInv, TypeOK, SessionOK, SessionInv, PageFetches, Undisturbed
<1>9. ASSUME NEW f \in Frame, Captured(f)
      PROVE  SessionInv'
  BY <1>9, Actors, SessionRange DEF IInv, TypeOK, SessionOK, Session, SessionInv, Captured
<1>10. ASSUME NEW r \in Rpc, Request(r)
      PROVE  SessionInv'
  <2>1. /\ r \in Actor /\ (auth'[r].phase # "fetching" \/ auth'[r].session = 0)
        /\ \A y \in Actor \ {r} : auth'[y] = auth[y]
    BY <1>10, Actors DEF IInv, TypeOK, SessionOK, Session, Request, Fetching
  <2> QED
    BY <1>10, <2>1, Actors, SessionRange
       DEF IInv, TypeOK, SessionOK, SessionInv, Request, Undisturbed
<1>11. ASSUME NEW r \in Rpc, Authorized(r)
      PROVE  SessionInv'
  <2>1. r \in Actor /\ auth'[r].phase # "fetching" /\ \A y \in Actor \ {r} : auth'[y] = auth[y]
    BY <1>11, Actors DEF IInv, TypeOK, SessionOK, Session, Authorized, Becomes
  <2> QED
    BY <1>11, <2>1, Actors, SessionRange
       DEF IInv, TypeOK, SessionOK, SessionInv, Authorized, Undisturbed
<1>12. ASSUME NEW r \in Rpc, RequestFails(r)
      PROVE  SessionInv'
  <2>1. r \in Actor /\ auth'[r].phase # "fetching" /\ \A y \in Actor \ {r} : auth'[y] = auth[y]
    BY <1>12, Actors DEF IInv, TypeOK, SessionOK, Session, RequestFails, Becomes
  <2> QED
    BY <1>12, <2>1, Actors, SessionRange
       DEF IInv, TypeOK, SessionOK, SessionInv, RequestFails, Undisturbed
<1>13. CASE SetServer
  BY <1>13, SessionRange DEF IInv, TypeOK, SessionOK, SessionInv, SetServer
<1>14. CASE Restart
  BY <1>14, Actors DEF IInv, SessionInv, Restart
<1>15. CASE \/ \E a \in Attempt : Configured(a) \/ Creates(a) \/ AttemptFails(a)
            \/ \E s \in Socket : StartsClosing(s) \/ Closed(s) \/ Breaks(s)
            \/ TimerFires \/ SwitchAccount \/ Unauthorized \/ Expires \/ BecomesDue
  BY <1>15
     DEF IInv, SessionInv, sessions, OnClose, Configured, Creates, AttemptFails,
         StartsClosing, Closed, Breaks, TimerFires, SwitchAccount, Unauthorized, Expires,
         BecomesDue
<1>16. CASE UNCHANGED vars
  BY <1>16 DEF vars, IInv, SessionInv, sessions, OnClose
<1> QED
  BY <1>1, <1>2, <1>3, <1>4, <1>5, <1>6, <1>7, <1>8, <1>9, <1>10, <1>11, <1>12, <1>13,
     <1>14, <1>15, <1>16
     DEF Next, Connecting, Syncing

\* No action lets a socket announce anything but the cached session.
LEMMA SyncStep ==
    ASSUME IInv, [Next]_vars
    PROVE  SyncInv'
<1>1. ASSUME NEW a \in Attempt, Creates(a)
      PROVE  SyncInv'
  <2>1. socket' = socket \/ \E s \in Socket : socket' = s /\ link[s] = "none"
    BY <1>1 DEF Creates, NewWebSocket
  <2>2. \A s \in Socket : link'[s] = "none" => link[s] = "none"
    BY <1>1 DEF IInv, TypeOK, ConnectionOK, Creates, NewWebSocket
  <2> QED
    BY <1>1, <2>1, <2>2 DEF IInv, SyncInv, Creates, sessions
<1>2. ASSUME NEW s \in Socket, Opens(s)
      PROVE  SyncInv'
  <2>1. \/ auth' = auth /\ newest' = newest
        \/ /\ newest' = s /\ auth'[s].phase = "fetching"
           /\ \A y \in Actor \ {s} : auth'[y] = auth[y]
    BY <1>2, SyncsFresh DEF IInv, Opens, Fetching
  <2> QED
    BY <1>2, <2>1, Actors DEF IInv, TypeOK, ConnectionOK, SyncInv, Opens
<1>3. CASE KeepAlive
  <2>1. \/ auth' = auth /\ newest' = newest
        \/ /\ newest' = socket /\ link[socket] = "open" /\ auth'[socket].phase = "fetching"
           /\ \A y \in Actor \ {socket} : auth'[y] = auth[y]
    BY <1>3, SyncsFresh DEF IInv, TypeOK, ConnectionOK, KeepAlive, Fetching
  <2> QED
    BY <1>3, <2>1, Actors DEF IInv, SyncInv, KeepAlive, connection
<1>4. CASE Refresh
  <2>1. \/ auth' = auth /\ newest' = newest
        \/ /\ newest' = socket /\ link[socket] = "open" /\ auth'[socket].phase = "fetching"
           /\ \A y \in Actor \ {socket} : auth'[y] = auth[y]
    BY <1>4, SyncsFresh DEF IInv, TypeOK, ConnectionOK, Refresh, Fetching
  <2> QED
    BY <1>4, <2>1, Actors DEF IInv, SyncInv, Refresh, connection
<1>5. ASSUME NEW s \in Socket, StartsClosing(s)
      PROVE  SyncInv'
  BY <1>5 DEF IInv, TypeOK, ConnectionOK, SyncInv, StartsClosing, sessions
<1>6. ASSUME NEW s \in Socket, Closed(s) \/ Breaks(s)
      PROVE  SyncInv'
  BY <1>6 DEF IInv, TypeOK, ConnectionOK, SyncInv, Closed, Breaks, OnClose, sessions
<1>7. ASSUME NEW s \in Socket, SyncFetched(s)
      PROVE  SyncInv'
  <2>1. s \in Actor /\ \A y \in Actor \ {s} : auth'[y] = auth[y]
    BY <1>7, Actors DEF IInv, TypeOK, SessionOK, SyncFetched, Becomes, Stops, Idle
  <2>2. \/ auth'[s].phase = "idle"
        \/ auth'[s].session = bearer' /\ auth[s].phase # "idle"
    BY <1>7, <2>1 DEF IInv, TypeOK, SessionOK, Session, SyncFetched, Becomes, Stops, Idle
  <2> QED
    BY <1>7, <2>1, <2>2, Actors
       DEF IInv, TypeOK, ConnectionOK, SyncInv, SyncFetched, Undisturbed, connection
<1>8. ASSUME NEW s \in Socket, SyncReports(s)
      PROVE  SyncInv'
  <2>1. s \in Actor /\ \A y \in Actor \ {s} : auth'[y] = auth[y]
    BY <1>8, Actors DEF IInv, TypeOK, SessionOK, SyncReports, Stops, Idle
  <2>2. auth'[s].phase = "idle"
    BY <1>8, <2>1 DEF IInv, TypeOK, SessionOK, Session, SyncReports, Stops, Idle
  <2> QED
    BY <1>8, <2>1, <2>2, Actors
       DEF IInv, TypeOK, ConnectionOK, SyncInv, SyncReports, Undisturbed, connection
<1>9. ASSUME NEW s \in Socket, SyncFails(s)
      PROVE  SyncInv'
  <2>1. s \in Actor /\ \A y \in Actor \ {s} : auth'[y] = auth[y]
    BY <1>9, Actors DEF IInv, TypeOK, SessionOK, SyncFails, Stops, Idle
  <2>2. auth'[s].phase = "idle"
    BY <1>9, <2>1 DEF IInv, TypeOK, SessionOK, Session, SyncFails, Stops, Idle
  <2> QED
    BY <1>9, <2>1, <2>2, Actors
       DEF IInv, TypeOK, ConnectionOK, SyncInv, SyncFails, Undisturbed, connection
<1>10. ASSUME NEW x \in Actor, Answers(x)
      PROVE  SyncInv'
  <2>1. x \in Actor /\ auth[x].phase = "fetching" /\ auth'[x].phase = "fetching"
        /\ \A y \in Actor \ {x} : auth'[y] = auth[y]
    BY <1>10 DEF IInv, TypeOK, SessionOK, Session, Answers, Fetching
  <2> QED
    BY <1>10, <2>1, Actors DEF IInv, TypeOK, ConnectionOK, SyncInv, Answers, connection
<1>11. ASSUME NEW f \in Frame, PageFetches(f)
      PROVE  SyncInv'
  <2>1. f \notin Socket /\ \A y \in Actor \ {f} : auth'[y] = auth[y]
    BY <1>11, Actors DEF IInv, TypeOK, SessionOK, PageFetches, Fetching
  <2> QED
    BY <1>11, <2>1, Actors
       DEF IInv, TypeOK, ConnectionOK, SyncInv, PageFetches, Undisturbed, connection
<1>12. ASSUME NEW f \in Frame, Captured(f)
      PROVE  SyncInv'
  <2>1. f \notin Socket /\ \A y \in Actor \ {f} : auth'[y] = auth[y]
    BY <1>12, Actors DEF IInv, TypeOK, SessionOK, Captured, Becomes
  <2> QED
    BY <1>12, <2>1, Actors
       DEF IInv, TypeOK, ConnectionOK, SyncInv, Captured, Undisturbed, connection
<1>13. ASSUME NEW r \in Rpc, Request(r)
      PROVE  SyncInv'
  <2>1. r \notin Socket /\ \A y \in Actor \ {r} : auth'[y] = auth[y]
    BY <1>13, Actors DEF IInv, TypeOK, SessionOK, Request, Fetching
  <2> QED
    BY <1>13, <2>1, Actors
       DEF IInv, TypeOK, ConnectionOK, SyncInv, Request, Undisturbed, connection
<1>14. ASSUME NEW r \in Rpc, Authorized(r)
      PROVE  SyncInv'
  <2>1. r \notin Socket /\ \A y \in Actor \ {r} : auth'[y] = auth[y]
    BY <1>14, Actors DEF IInv, TypeOK, SessionOK, Authorized, Becomes
  <2> QED
    BY <1>14, <2>1, Actors
       DEF IInv, TypeOK, ConnectionOK, SyncInv, Authorized, Undisturbed, connection
<1>15. ASSUME NEW r \in Rpc, RequestFails(r)
      PROVE  SyncInv'
  <2>1. r \notin Socket /\ \A y \in Actor \ {r} : auth'[y] = auth[y]
    BY <1>15, Actors DEF IInv, TypeOK, SessionOK, RequestFails, Becomes
  <2> QED
    BY <1>15, <2>1, Actors
       DEF IInv, TypeOK, ConnectionOK, SyncInv, RequestFails, Undisturbed, connection
<1>16. CASE SetServer
  <2>1. \A s \in Socket : link'[s] = "none" => link[s] = "none"
    BY <1>16 DEF IInv, TypeOK, ConnectionOK, SetServer
  <2> QED
    BY <1>16, <2>1 DEF IInv, SyncInv, SetServer
<1>17. CASE Restart
  <2>1. \A s \in Socket : auth'[s] = Idle
    BY <1>17, Actors DEF Restart
  <2> QED
    BY <1>17, <2>1 DEF SyncInv, Restart, Idle
<1>18. CASE \/ \E a \in Attempt : Configured(a) \/ AttemptFails(a)
            \/ TimerFires \/ SwitchAccount \/ Unauthorized \/ Expires \/ BecomesDue
  BY <1>18
     DEF IInv, SyncInv, connection, sessions, Configured, AttemptFails, TimerFires,
         SwitchAccount, Unauthorized, Expires, BecomesDue
<1>19. CASE UNCHANGED vars
  BY <1>19 DEF vars, IInv, SyncInv, connection, sessions
<1> QED
  BY <1>1, <1>2, <1>3, <1>4, <1>5, <1>6, <1>7, <1>8, <1>9, <1>10, <1>11, <1>12, <1>13,
     <1>14, <1>15, <1>16, <1>17, <1>18, <1>19
     DEF Next, Connecting, Syncing

-----------------------------------------------------------------------------
(* Steps.                                                                  *)

\* The action of CapturedWins.
AuthorizesNewer ==
    \A r \in Rpc :
      auth'[r].phase = "authorized" /\ auth[r].phase # "authorized"
        => auth'[r].session >= captured

\* The action of NewestKept.
KeepsNewer ==
    /\ bearer' \notin {0, bearer} /\ bearer' < bearer => captured' = bearer' /\ newest' = 0
    /\ told'.account \notin {0, told.account} => told'.account = bearer'

\* No action authorizes a request with less than the captured session.
LEMMA AuthorizesStep ==
    ASSUME IInv, [Next]_vars
    PROVE  AuthorizesNewer
<1>1. ASSUME NEW s \in Socket, Opens(s)
      PROVE  AuthorizesNewer
  <2>1. \A x \in Actor : auth'[x] = auth[x] \/ auth'[x] = Fetching
    BY <1>1, SyncsFresh DEF IInv, TypeOK, ConnectionOK, Opens
  <2>2. Fetching.phase = "fetching"
    BY DEF Fetching
  <2> QED
    BY <2>1, <2>2, Actors DEF AuthorizesNewer
<1>2. CASE KeepAlive
  <2>1. \A x \in Actor : auth'[x] = auth[x] \/ auth'[x] = Fetching
    BY <1>2, SyncsFresh DEF IInv, TypeOK, ConnectionOK, KeepAlive
  <2>2. Fetching.phase = "fetching"
    BY DEF Fetching
  <2> QED
    BY <2>1, <2>2, Actors DEF AuthorizesNewer
<1>3. CASE Refresh
  <2>1. \A x \in Actor : auth'[x] = auth[x] \/ auth'[x] = Fetching
    BY <1>3, SyncsFresh DEF IInv, TypeOK, ConnectionOK, Refresh
  <2>2. Fetching.phase = "fetching"
    BY DEF Fetching
  <2> QED
    BY <2>1, <2>2, Actors DEF AuthorizesNewer
<1>4. ASSUME NEW s \in Socket, SyncFetched(s)
      PROVE  AuthorizesNewer
  <2>1. \A x \in Actor : auth'[x] = auth[x] \/ auth'[x].phase # "authorized"
    BY <1>4, Actors
       DEF IInv, TypeOK, SessionOK, Session, SyncFetched, Becomes, Stops, Idle, Fetching
  <2> QED
    BY <2>1, Actors DEF AuthorizesNewer
<1>5. ASSUME NEW s \in Socket, SyncReports(s)
      PROVE  AuthorizesNewer
  <2>1. \A x \in Actor : auth'[x] = auth[x] \/ auth'[x].phase # "authorized"
    BY <1>5, Actors DEF IInv, TypeOK, SessionOK, Session, SyncReports, Stops, Idle, Fetching
  <2> QED
    BY <2>1, Actors DEF AuthorizesNewer
<1>6. ASSUME NEW s \in Socket, SyncFails(s)
      PROVE  AuthorizesNewer
  <2>1. \A x \in Actor : auth'[x] = auth[x] \/ auth'[x].phase # "authorized"
    BY <1>6, Actors DEF IInv, TypeOK, SessionOK, Session, SyncFails, Stops, Idle, Fetching
  <2> QED
    BY <2>1, Actors DEF AuthorizesNewer
<1>7. ASSUME NEW x \in Actor, Answers(x)
      PROVE  AuthorizesNewer
  <2>1. \A y \in Actor : auth'[y] = auth[y] \/ auth'[y].phase # "authorized"
    BY <1>7, Actors DEF IInv, TypeOK, SessionOK, Session, Answers, Idle, Fetching
  <2> QED
    BY <2>1, Actors DEF AuthorizesNewer
<1>8. ASSUME NEW f \in Frame, PageFetches(f)
      PROVE  AuthorizesNewer
  <2>1. \A x \in Actor : auth'[x] = auth[x] \/ auth'[x].phase # "authorized"
    BY <1>8, Actors DEF IInv, TypeOK, SessionOK, Session, PageFetches, Idle, Fetching
  <2> QED
    BY <2>1, Actors DEF AuthorizesNewer
<1>9. ASSUME NEW f \in Frame, Captured(f)
      PROVE  AuthorizesNewer
  <2>1. \A x \in Actor : auth'[x] = auth[x] \/ auth'[x].phase # "authorized"
    BY <1>9, Actors DEF IInv, TypeOK, SessionOK, Session, Captured, Becomes, Idle, Fetching
  <2> QED
    BY <2>1, Actors DEF AuthorizesNewer
<1>10. ASSUME NEW r \in Rpc, RequestFails(r)
      PROVE  AuthorizesNewer
  <2>1. \A x \in Actor : auth'[x] = auth[x] \/ auth'[x].phase # "authorized"
    BY <1>10, Actors
       DEF IInv, TypeOK, SessionOK, Session, RequestFails, Becomes, Idle, Fetching
  <2> QED
    BY <2>1, Actors DEF AuthorizesNewer
<1>11. CASE Restart
  <2>1. [Idle EXCEPT !.phase = "rejected"].phase = "rejected"
    BY DEF Idle
  <2>2. \A x \in Rpc : auth'[x] \in {auth[x], [Idle EXCEPT !.phase = "rejected"]}
    BY <1>11, Actors DEF Restart
  <2> QED
    BY <2>1, <2>2 DEF AuthorizesNewer
<1>12. ASSUME NEW r \in Rpc, Request(r)
      PROVE  AuthorizesNewer
  <2>1. r \in Actor /\ \A y \in Actor \ {r} : auth'[y] = auth[y]
    BY <1>12, Actors DEF IInv, TypeOK, SessionOK, Request, Fetching
  <2>2. \/ auth'[r].phase = "fetching"
        \/ auth'[r].session = bearer /\ bearer # 0
    BY <1>12, <2>1 DEF IInv, TypeOK, SessionOK, Request, Fetching
  <2>3. auth'[r].phase = "fetching" \/ auth'[r].session >= captured
    BY <2>2, SessionRange DEF IInv, SessionInv
  <2> QED
    BY <2>1, <2>3, Actors DEF AuthorizesNewer
<1>13. ASSUME NEW r \in Rpc, Authorized(r)
      PROVE  AuthorizesNewer
  <2>1. r \in Actor /\ r # 0 /\ \A y \in Actor \ {r} : auth'[y] = auth[y]
    BY <1>13, Actors DEF IInv, TypeOK, SessionOK, Authorized, Becomes
  <2>2. \/ auth'[r].phase = "rejected"
        \/ auth'[r].session = auth[r].session /\ newest = r
    BY <1>13, <2>1 DEF IInv, TypeOK, SessionOK, Session, Authorized, Becomes, Undisturbed
  <2>3. auth'[r].phase = "rejected" \/ auth'[r].session >= captured
    BY <1>13, <2>1, <2>2, SessionRange DEF IInv, SessionInv, Authorized
  <2> QED
    BY <2>1, <2>3, Actors DEF AuthorizesNewer
<1>14. CASE \/ \E a \in Attempt : Configured(a) \/ Creates(a) \/ AttemptFails(a)
            \/ \E s \in Socket : StartsClosing(s) \/ Closed(s) \/ Breaks(s)
            \/ TimerFires \/ SetServer \/ SwitchAccount \/ Unauthorized \/ Expires \/ BecomesDue
  BY <1>14
     DEF AuthorizesNewer, sessions, OnClose, Configured, Creates, AttemptFails,
         StartsClosing, Closed, Breaks, TimerFires, SetServer, SwitchAccount, Unauthorized,
         Expires, BecomesDue
<1>15. CASE UNCHANGED vars
  BY <1>15 DEF vars, AuthorizesNewer, sessions, OnClose
<1> QED
  BY <1>1, <1>2, <1>3, <1>4, <1>5, <1>6, <1>7, <1>8, <1>9, <1>10, <1>11, <1>12, <1>13,
     <1>14, <1>15
     DEF Next, Connecting, Syncing

\* No action brings an older account back, unless a page has sent its session.
LEMMA KeepsStep ==
    ASSUME IInv, [Next]_vars
    PROVE  KeepsNewer
<1>1. ASSUME NEW s \in Socket, Opens(s)
      PROVE  KeepsNewer
  BY <1>1 DEF IInv, KeepsNewer, Opens, Unknown
<1>2. ASSUME NEW s \in Socket, Closed(s) \/ Breaks(s)
      PROVE  KeepsNewer
  BY <1>2 DEF IInv, KeepsNewer, Closed, Breaks, OnClose, Unknown, sessions
<1>3. ASSUME NEW s \in Socket, SyncFetched(s)
      PROVE  KeepsNewer
  <2>1. bearer # 0 /\ Undisturbed(s) => auth[s].session >= bearer
    BY <1>3, Actors, SessionRange DEF IInv, SessionInv, SyncFetched, Undisturbed
  <2>2. told'.account \in {0, told.account}
    BY <1>3 DEF IInv, TypeOK, BackendOK, Told, SyncFetched
  <2>3. bearer' = bearer \/ (bearer' = auth[s].session /\ Undisturbed(s))
    <3>1. CASE Undisturbed(s)
      BY <1>3, <3>1 DEF SyncFetched
    <3>2. CASE ~Undisturbed(s)
      BY <1>3, <3>2 DEF SyncFetched
    <3> QED
      BY <3>1, <3>2
  <2> QED
    BY <2>1, <2>2, <2>3, Actors, SessionRange DEF IInv, TypeOK, SessionOK, KeepsNewer
<1>4. ASSUME NEW s \in Socket, SyncReports(s)
      PROVE  KeepsNewer
  <2>1. auth[s].session = bearer \/ told' = told
    BY <1>4, Actors
       DEF IInv, TypeOK, ConnectionOK, SyncInv, SyncReports, Undisturbed, Connected
  <2> QED
    BY <1>4, <2>1 DEF IInv, TypeOK, BackendOK, Told, KeepsNewer, SyncReports
<1>5. ASSUME NEW s \in Socket, SyncFails(s)
      PROVE  KeepsNewer
  <2>1. told'.account = told.account
    BY <1>5 DEF IInv, TypeOK, BackendOK, Told, SyncFails
  <2> QED
    BY <1>5, <2>1 DEF KeepsNewer, SyncFails
<1>6. ASSUME NEW f \in Frame, Captured(f)
      PROVE  KeepsNewer
  <2>1. told'.account \in {0, told.account, auth[f].session}
    BY <1>6 DEF IInv, TypeOK, BackendOK, Told, Captured, CaptureTold
  <2> QED
    BY <1>6, <2>1 DEF KeepsNewer, Captured
<1>7. ASSUME NEW r \in Rpc, Authorized(r)
      PROVE  KeepsNewer
  <2>1. r \in Actor /\ r # 0 /\ auth[r].session \in Nat /\ bearer \in Nat
    BY Actors, SessionRange DEF IInv
  <2>2. bearer' = bearer \/ (newest = r /\ bearer' = auth[r].session)
    <3>1. CASE Undisturbed(r)
      BY <1>7, <3>1 DEF Authorized, Undisturbed
    <3>2. CASE ~Undisturbed(r)
      BY <1>7, <3>2 DEF Authorized
    <3> QED
      BY <3>1, <3>2
  <2>3. bearer' = bearer \/ bearer' >= bearer
    BY <1>7, <2>1, <2>2 DEF IInv, SessionInv, Authorized
  <2>4. bearer' \in Nat /\ told' = told
    BY <1>7, <2>1, <2>2 DEF Authorized
  <2> QED
    BY <2>1, <2>3, <2>4 DEF KeepsNewer
<1>8. CASE Unauthorized
  <2>1. told'.account = told.account
    BY <1>8 DEF IInv, TypeOK, BackendOK, Told, Unauthorized
  <2> QED
    BY <1>8, <2>1 DEF KeepsNewer, Unauthorized, sessions
<1>9. CASE SetServer
  BY <1>9 DEF IInv, KeepsNewer, SetServer
<1>10. CASE Restart
  BY <1>10 DEF IInv, KeepsNewer, Restart, Unknown
<1>11. CASE \/ \E a \in Attempt : Configured(a) \/ Creates(a) \/ AttemptFails(a)
            \/ \E s \in Socket : StartsClosing(s)
            \/ \E x \in Actor : Answers(x)
            \/ \E f \in Frame : PageFetches(f)
            \/ \E r \in Rpc : Request(r) \/ RequestFails(r)
            \/ TimerFires \/ KeepAlive \/ SwitchAccount \/ Refresh \/ Expires \/ BecomesDue
  BY <1>11
     DEF IInv, KeepsNewer, sessions, Configured, Creates, AttemptFails, StartsClosing,
         Answers, PageFetches, Request, RequestFails, TimerFires, KeepAlive, SwitchAccount,
         Refresh, Expires, BecomesDue
<1>12. CASE UNCHANGED vars
  BY <1>12 DEF vars, IInv, KeepsNewer, sessions
<1> QED
  BY <1>1, <1>2, <1>3, <1>4, <1>5, <1>6, <1>7, <1>8, <1>9, <1>10, <1>11, <1>12
     DEF Next, Connecting, Syncing

-----------------------------------------------------------------------------
(* The theorems.                                                           *)

LEMMA InitInv == Init => IInv
<1> SUFFICES ASSUME Init PROVE IInv
  OBVIOUS
<1>1. ConnectionOK
  BY DEF Init, ConnectionOK
<1>2. SessionOK
  BY Actors DEF Init, SessionOK, Session, Idle
<1>3. BackendOK
  BY BrowserAssumption DEF Init, BackendOK, Told, Faults, Unknown
<1>4. OneSocket /\ ConnectInv
  BY DEF Init, OneSocket, ConnectInv, Live
<1>5. PastInv /\ SessionInv /\ SyncInv
  BY Actors DEF Init, PastInv, SessionInv, SyncInv, Idle
<1> QED
  BY <1>1, <1>2, <1>3, <1>4, <1>5 DEF IInv, TypeOK

LEMMA NextInv == IInv /\ [Next]_vars => IInv'
BY ConnectionStep, SessionTypeStep, BackendStep, SocketStep, PastStep, SessionStep, SyncStep
   DEF IInv, TypeOK

\* The invariant that the types and the three promises below rest on.
THEOREM Invariant == Spec => []IInv
<1> QED
  BY InitInv, NextInv, PTL DEF Spec

\* Every variable of the extension stays in its type (background.js's globals).
THEOREM TypeCorrect == Spec => []TypeOK
<1>1. IInv => TypeOK
  BY DEF IInv
<1> QED
  BY <1>1, Invariant, PTL

\* However many connects, timers, keepalives, endpoint changes and restarts
\* coincide, connectOnce never leaves two sockets alive.
THEOREM SingleSocket == Spec => []OneSocket
<1>1. IInv => OneSocket
  BY DEF IInv
<1> QED
  BY <1>1, Invariant, PTL

\* No order of syncAuth, getBearer and captured sessions brings back the bearer of
\* an earlier account, or tells the backend an account that is not the cached one.
THEOREM NewestStays == Spec => NewestKept
<1>1. IInv /\ [Next]_vars => [KeepsNewer]_vars
  BY KeepsStep
<1> QED
  BY <1>1, Invariant, PTL DEF Spec, NewestKept, KeepsNewer

\* No request is authorized with a session older than the captured one.
THEOREM CapturedStays == Spec => CapturedWins
<1>1. IInv /\ [Next]_vars => [AuthorizesNewer]_vars
  BY AuthorizesStep
<1> QED
  BY <1>1, Invariant, PTL DEF Spec, CapturedWins, AuthorizesNewer
=============================================================================
