----------------------- MODULE ConnectorSessionProofs -----------------------
(***************************************************************************)
(* Theorems about ConnectorSession, for any number of sockets and any set  *)
(* of requests.                                                            *)
(***************************************************************************)
EXTENDS ConnectorSession, TLAPS

-----------------------------------------------------------------------------
(* The inductive invariant.                                                *)

\* A request that waits was sent on a socket.
PendingSent == \A c \in Call : call[c].state = "pending" => call[c].on # 0

IInv == TypeOK /\ RegistryAgrees /\ PendingReachable /\ PendingSent

-----------------------------------------------------------------------------
(* What the helpers keep.                                                  *)

LEMMA Sockets == Socket \subseteq Nat \ {0} /\ 0 \notin Socket
BY SessionAssumption DEF Socket

\* clear ends every pending request and touches no other.
LEMMA BrokenCalls ==
    ASSUME TypeOK
    PROVE  /\ Broken(call) \in [Call -> [state: CallState, on: Socket \cup {0}]]
           /\ \A c \in Call : Broken(call)[c].state # "pending"
<1> SUFFICES ASSUME NEW c \in Call
             PROVE  /\ Broken(call)[c] \in [state: CallState, on: Socket \cup {0}]
                    /\ Broken(call)[c].state # "pending"
  BY DEF Broken
<1>1. call[c] \in [state: CallState, on: Socket \cup {0}]
  BY DEF TypeOK
<1>2. CASE call[c].state = "pending"
  BY <1>1, <1>2 DEF Broken, CallState
<1>3. CASE call[c].state # "pending"
  BY <1>1, <1>3 DEF Broken
<1> QED
  BY <1>2, <1>3

LEMMA MissedBeats ==
    ASSUME TypeOK
    PROVE  Missed(beat) \in [Socket -> BeatPhase]
BY DEF TypeOK, Missed, BeatPhase

\* Whoever takes the id holds it alone, and no request is left behind.
LEMMA TakesOver ==
    ASSUME IInv, NEW s \in Socket, Takes(s), line' \in [Socket -> {"up", "dead", "shut"}]
    PROVE  IInv'
<1>1. TypeOK'
  <2>1. call' \in [Call -> [state: CallState, on: Socket \cup {0}]]
    BY BrokenCalls DEF IInv, TypeOK, Takes
  <2>2. beat' \in [Socket -> BeatPhase]
    BY MissedBeats DEF IInv, TypeOK, Takes, BeatPhase
  <2> QED
    BY <2>1, <2>2 DEF IInv, TypeOK, Takes, ServePhase
<1>2. RegistryAgrees'
  BY Sockets DEF IInv, TypeOK, RegistryAgrees, Takes
<1>3. \A c \in Call : call'[c].state # "pending"
  <2>1. CASE registered = 0
    BY <2>1 DEF IInv, PendingReachable, PendingSent, Takes
  <2>2. CASE registered # 0
    BY <2>2, BrokenCalls DEF IInv, Takes
  <2> QED
    BY <2>1, <2>2
<1> QED
  BY <1>1, <1>2, <1>3 DEF IInv, PendingReachable, PendingSent

-----------------------------------------------------------------------------
(* One lemma per group of actions.                                         *)

LEMMA ServeStep ==
    ASSUME IInv, NEW s \in Socket,
           Hello(s) \/ HelloSupersedes(s) \/ Frame(s) \/ Serving(s)
    PROVE  IInv'
<1>1. CASE Hello(s)
  BY <1>1, TakesOver DEF Hello, IInv, TypeOK
<1>2. CASE HelloSupersedes(s)
  BY <1>2, Sockets
     DEF HelloSupersedes, Opens, IInv, TypeOK, RegistryAgrees, PendingReachable, PendingSent,
         ServePhase
<1>3. CASE Frame(s)
  BY <1>3
     DEF Frame, Heard, IInv, TypeOK, RegistryAgrees, PendingReachable, PendingSent
<1>4. CASE TakeOver(s)
  BY <1>4, TakesOver DEF TakeOver, IInv, TypeOK
<1>5. CASE ServeEnds(s)
  BY <1>5
     DEF ServeEnds, IInv, TypeOK, RegistryAgrees, PendingReachable, PendingSent, ServePhase,
         BeatPhase
<1>6. CASE Leave(s)
  <2>1. CASE s \in known
    <3>1. TypeOK'
      BY <1>6, <2>1, BrokenCalls, MissedBeats DEF Leave, IInv, TypeOK, ServePhase
    <3>2. \A c \in Call : call'[c].state # "pending"
      BY <1>6, <2>1, BrokenCalls DEF Leave, IInv
    <3>3. RegistryAgrees'
      BY <1>6, <2>1 DEF Leave, IInv, RegistryAgrees
    <3> QED
      BY <3>1, <3>2, <3>3 DEF IInv, PendingReachable, PendingSent
  <2>2. CASE s \notin known
    BY <1>6, <2>2
       DEF Leave, IInv, TypeOK, RegistryAgrees, PendingReachable, PendingSent, ServePhase
  <2> QED
    BY <2>1, <2>2
<1> QED
  BY <1>1, <1>2, <1>3, <1>4, <1>5, <1>6 DEF Serving

LEMMA BeatStep ==
    ASSUME IInv, NEW s \in Socket,
           \/ Beating(s) \/ PingAnswered(s)
           \/ \E how \in {"dead", "shut"} : Fails(s, how)
    PROVE  IInv'
<1>1. UNCHANGED <<registered, known, serve, call>>
  BY DEF Beating, BeatWakes, PingTimeout, BeatHealthy, BeatMarks, BeatDecides, PingAnswered, Fails,
         Beats
<1>2. beat' \in [Socket -> BeatPhase]
  BY DEF IInv, TypeOK, Beating, BeatWakes, PingTimeout, BeatHealthy, BeatMarks, BeatDecides,
         PingAnswered, Fails, Beats, BeatPhase
<1>3. line' \in [Socket -> {"up", "dead", "shut"}]
  BY DEF IInv, TypeOK, Beating, BeatWakes, PingTimeout, BeatHealthy, BeatMarks, BeatDecides,
         PingAnswered, Fails
<1>4. suspect' \subseteq Socket /\ unheard' \subseteq Socket
  BY DEF IInv, TypeOK, Beating, BeatWakes, PingTimeout, BeatHealthy, BeatMarks, BeatDecides,
         PingAnswered, Fails, Heard
<1> QED
  BY <1>1, <1>2, <1>3, <1>4 DEF IInv, TypeOK, RegistryAgrees, PendingReachable, PendingSent

LEMMA CallStep ==
    ASSUME IInv, NEW c \in Call, Send(c) \/ Answered(c) \/ CallTimeout(c)
    PROVE  IInv'
<1>1. call[c] \in [state: CallState, on: Socket \cup {0}]
  BY DEF IInv, TypeOK
<1>2. CASE Send(c)
  BY <1>1, <1>2
     DEF Send, IInv, TypeOK, RegistryAgrees, PendingReachable, PendingSent, CallState
<1>3. CASE Answered(c)
  <2>1. call' \in [Call -> [state: CallState, on: Socket \cup {0}]]
    BY <1>1, <1>3 DEF Answered, IInv, TypeOK, CallState
  <2> QED
    BY <1>1, <1>3, <2>1
       DEF Answered, Heard, IInv, TypeOK, RegistryAgrees, PendingReachable, PendingSent
<1>4. CASE CallTimeout(c)
  <2>1. call' \in [Call -> [state: CallState, on: Socket \cup {0}]]
    BY <1>1, <1>4 DEF CallTimeout, IInv, TypeOK, CallState
  <2> QED
    BY <1>1, <1>4, <2>1
       DEF CallTimeout, IInv, TypeOK, RegistryAgrees, PendingReachable, PendingSent
<1> QED
  BY <1>2, <1>3, <1>4

LEMMA Initially == Init => IInv
BY DEF Init, IInv, TypeOK, RegistryAgrees, PendingReachable, PendingSent, ServePhase, BeatPhase,
       CallState

LEMMA Inductive == IInv /\ [Next]_vars => IInv'
<1> SUFFICES ASSUME IInv, [Next]_vars
             PROVE  IInv'
  OBVIOUS
<1>1. CASE UNCHANGED vars
  BY <1>1 DEF vars, IInv, TypeOK, RegistryAgrees, PendingReachable, PendingSent
<1> QED
  BY <1>1, ServeStep, BeatStep, CallStep DEF Next

-----------------------------------------------------------------------------
(* Theorems.                                                               *)

\* The invariant from which the others follow.
THEOREM Invariant == Spec => []IInv
BY Initially, Inductive, PTL DEF Spec

\* The variables keep their types (gateway.py, client.py).
THEOREM TypeCorrect == Spec => []TypeOK
<1>1. IInv => TypeOK
  BY DEF IInv
<1> QED
  BY <1>1, Invariant, PTL

\* register, clear and _serve's cleanup keep _connections and _ws_to_id together,
\* and nothing stays registered that no coroutine would clear.
THEOREM TablesAgree == Spec => []RegistryAgrees
<1>1. IInv => RegistryAgrees
  BY DEF IInv
<1> QED
  BY <1>1, Invariant, PTL

\* send_rpc never waits on a socket that has lost the connection id.
THEOREM NoneStranded == Spec => []PendingReachable
<1>1. IInv => PendingReachable
  BY DEF IInv
<1> QED
  BY <1>1, Invariant, PTL

\* Only the end of the socket that holds the id gives it up (clear, by socket).
THEOREM OwnerLeaves == Spec => OnlyOwnerLeaves
<1>1. ASSUME IInv, [Next]_vars, registered # 0, registered' = 0
      PROVE  serve'[registered] = "done"
  <2>1. \A s \in Socket : ~Takes(s)
    BY <1>1, Sockets DEF Takes
  <2>2. PICK s \in Socket : Leave(s)
    BY <1>1, <2>1
       DEF Next, vars, Hello, HelloSupersedes, Frame, PingAnswered, Serving, Beating, Beats, TakeOver,
           ServeEnds, BeatWakes, PingTimeout, BeatHealthy, BeatMarks, BeatDecides, Fails, Send,
           Answered, CallTimeout
  <2>3. s = registered
    BY <1>1, <2>2 DEF Leave, IInv, RegistryAgrees
  <2> QED
    BY <1>1, <2>2, <2>3 DEF Leave, IInv, TypeOK
<1>2. IInv /\ [Next]_vars => [registered # 0 /\ registered' = 0 => serve'[registered] = "done"]_vars
  BY <1>1
<1> QED
  BY <1>2, Invariant, PTL DEF Spec, OnlyOwnerLeaves
=============================================================================
