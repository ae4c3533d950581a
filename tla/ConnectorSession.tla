-------------------------- MODULE ConnectorSession --------------------------
(***************************************************************************)
(* The backend's side of one Chrome connector: the _serve coroutine of     *)
(* each socket the connector opens and its heartbeat_loop                  *)
(* (app/extension/gateway.py), the connection table and the pending        *)
(* requests of FlowBridge (app/providers/google_flow/client.py).           *)
(*                                                                         *)
(* One event loop: an action is the code between two awaits.  A handshake  *)
(* that is rejected touches nothing and is left out, so a socket starts    *)
(* with a good hello.  All sockets carry one installation id, hence one    *)
(* connection id; they are numbered in the order they opened.              *)
(***************************************************************************)
EXTENDS Naturals, FiniteSets

CONSTANTS
    MaxSockets,       \* bound: sockets the connector opens
    Call              \* requests the worker makes through send_rpc

ASSUME SessionAssumption == MaxSockets \in Nat

Socket == 1..MaxSockets

VARIABLES
    registered,   \* the object in _connections, 0 for none
    known,        \* the sockets in _ws_to_id
    serve,        \* the _serve coroutine of each socket
    line,         \* whether frames get through: silently "dead", or "shut"
    beat,         \* the heartbeat_loop of each socket
    suspect,      \* sockets whose connection has suspect_since set
    unheard,      \* sockets still suspect since their heartbeat took its marker
    call          \* the worker's requests

vars == <<registered, known, serve, line, beat, suspect, unheard, call>>

ServePhase == {"new", "closing_prior", "serving", "leaving", "done"}
BeatPhase == {"none", "sleeping", "pinging", "pong", "missed", "grace"}
CallState == {"none", "pending", "answered", "failed", "timeout"}

Init ==
    /\ registered = 0 /\ known = {}
    /\ serve = [s \in Socket |-> "new"]
    /\ line = [s \in Socket |-> "up"]
    /\ beat = [s \in Socket |-> "none"]
    /\ suspect = {} /\ unheard = {}
    /\ call = [c \in Call |-> [state |-> "none", on |-> 0]]

-----------------------------------------------------------------------------
(* The connection table.                                                   *)

\* clear: every pending request of the connection id fails, the PING of a
\* heartbeat included.
Broken(calls) ==
    [c \in Call |-> IF calls[c].state = "pending" THEN [calls[c] EXCEPT !.state = "failed"]
                    ELSE calls[c]]
Missed(beats) == [s \in Socket |-> IF beats[s] = "pinging" THEN "missed" ELSE beats[s]]

\* clear, then register: the id goes from whoever holds it now to socket s.
\* The new object is not suspect, and its heartbeat starts.
Takes(s) ==
    /\ registered' = s
    /\ known' = (known \ {registered}) \cup {s}
    /\ call' = IF registered = 0 THEN call ELSE Broken(call)
    /\ beat' = [IF registered = 0 THEN beat ELSE Missed(beat) EXCEPT ![s] = "sleeping"]
    /\ serve' = [serve EXCEPT ![s] = "serving"]
    /\ UNCHANGED <<suspect, unheard>>

\* A frame from a known socket: its connection is alive.
Heard(s) ==
    /\ suspect' = IF s \in known THEN suspect \ {s} ELSE suspect
    /\ unheard' = IF s \in known THEN unheard \ {s} ELSE unheard

-----------------------------------------------------------------------------
(* _serve.                                                                 *)

Opens(s) ==
    /\ serve[s] = "new" /\ line[s] = "up"
    /\ \A t \in Socket : t < s => serve[t] # "new"

\* The hello, when nothing is registered.
Hello(s) ==
    /\ Opens(s) /\ registered = 0
    /\ Takes(s)
    /\ UNCHANGED line

\* The hello, with a prior connection: its socket is being closed first.
HelloSupersedes(s) ==
    /\ Opens(s) /\ registered # 0
    /\ serve' = [serve EXCEPT ![s] = "closing_prior"]
    /\ line' = [line EXCEPT ![registered] = "shut"]
    /\ UNCHANGED <<registered, known, beat, suspect, unheard, call>>

\* Mutant: the table was cleared before the close, and is not cleared again.
TakeOverKeepsCalls(s) ==
    /\ serve[s] = "closing_prior"
    /\ registered' = s /\ known' = (known \ {registered}) \cup {s}
    /\ beat' = [beat EXCEPT ![s] = "sleeping"]
    /\ serve' = [serve EXCEPT ![s] = "serving"]
    /\ UNCHANGED <<suspect, unheard, call, line>>

\* The prior socket's close has ended, in time or not, or has raised.
TakeOver(s) ==
    /\ serve[s] = "closing_prior"
    /\ Takes(s)
    /\ UNCHANGED line

\* A frame that is not an answer: a keepalive ping, user_info and so on.
Frame(s) ==
    /\ serve[s] = "serving" /\ line[s] = "up"
    /\ Heard(s)
    /\ UNCHANGED <<registered, known, serve, line, beat, call>>

\* receive_json raises: the socket is gone, or nothing came for twice the
\* longest request.  A connector that is there pings more often than that.
\* The heartbeat is cancelled, with the PING it may be waiting for.
ServeEnds(s) ==
    /\ serve[s] = "serving" /\ line[s] # "up"
    /\ serve' = [serve EXCEPT ![s] = "leaving"]
    /\ line' = [line EXCEPT ![s] = "shut"]
    /\ beat' = [beat EXCEPT ![s] = "none"]
    /\ UNCHANGED <<registered, known, suspect, unheard, call>>

\* Mutant: the end of a socket clears the connection id, not its own entry.
LeaveClearsId(s) ==
    /\ serve[s] = "leaving"
    /\ serve' = [serve EXCEPT ![s] = "done"]
    /\ registered' = 0 /\ known' = known \ {registered}
    /\ call' = Broken(call) /\ beat' = Missed(beat)
    /\ UNCHANGED <<line, suspect, unheard>>

\* Mutant: the end of a socket is not cleared at all.
LeaveForgets(s) ==
    /\ serve[s] = "leaving"
    /\ serve' = [serve EXCEPT ![s] = "done"]
    /\ UNCHANGED <<registered, known, line, beat, suspect, unheard, call>>

\* The end of the finally block: clear(adapter), by socket.
Leave(s) ==
    /\ serve[s] = "leaving"
    /\ serve' = [serve EXCEPT ![s] = "done"]
    /\ IF s \in known
       THEN /\ registered' = 0 /\ known' = known \ {s}
            /\ call' = Broken(call) /\ beat' = Missed(beat)
       ELSE UNCHANGED <<registered, known, call, beat>>
    /\ UNCHANGED <<line, suspect, unheard>>

-----------------------------------------------------------------------------
(* heartbeat_loop.                                                         *)

Beats(s, phase) ==
    /\ beat' = [beat EXCEPT ![s] = phase]
    /\ UNCHANGED <<registered, known, serve, call>>

\* The interval is over: PING the connection, or end if it is no longer ours.
BeatWakes(s) ==
    /\ beat[s] = "sleeping"
    /\ Beats(s, IF registered = s THEN "pinging" ELSE "none")
    /\ UNCHANGED <<line, suspect, unheard>>

\* The answer to the PING.
PingAnswered(s) ==
    /\ beat[s] = "pinging" /\ line[s] = "up" /\ serve[s] = "serving"
    /\ Beats(s, "pong") /\ Heard(s)
    /\ UNCHANGED line

PingTimeout(s) ==
    /\ beat[s] = "pinging"
    /\ Beats(s, "missed")
    /\ UNCHANGED <<line, suspect, unheard>>

\* mark_healthy goes by id, manager.heartbeat by object.
BeatHealthy(s) ==
    /\ beat[s] = "pong"
    /\ Beats(s, IF registered = s THEN "sleeping" ELSE "none")
    /\ suspect' = suspect \ {registered, s}
    /\ unheard' = unheard \ {registered, s}
    /\ UNCHANGED line

\* Mutant: mark_suspect marks whatever the id leads to, even nothing.
BeatMarksNobody(s) ==
    /\ beat[s] = "missed"
    /\ Beats(s, IF registered = s THEN "grace" ELSE "none")
    /\ suspect' = suspect \cup {registered}
    /\ unheard' = IF registered = s THEN unheard \cup {s} ELSE unheard
    /\ UNCHANGED line

\* mark_suspect goes by id: it may mark a connection that has just taken over.
BeatMarks(s) ==
    /\ beat[s] = "missed"
    /\ Beats(s, IF registered = s THEN "grace" ELSE "none")
    /\ suspect' = suspect \cup ({registered} \ {0})
    /\ unheard' = IF registered = s THEN unheard \cup {s} ELSE unheard
    /\ UNCHANGED line

\* The grace period is over: close the socket unless it was heard meanwhile.
BeatDecides(s) ==
    /\ beat[s] = "grace"
    /\ IF registered = s /\ s \notin unheard
       THEN /\ Beats(s, "sleeping")
            /\ suspect' = suspect \ {s}
            /\ UNCHANGED <<line, unheard>>
       ELSE /\ Beats(s, "none")
            /\ line' = IF registered = s THEN [line EXCEPT ![s] = "shut"] ELSE line
            /\ UNCHANGED <<suspect, unheard>>

-----------------------------------------------------------------------------
(* send_rpc, and the connector.                                            *)

Send(c) ==
    /\ call[c].state = "none" /\ registered # 0
    /\ call' = [call EXCEPT ![c] = [state |-> "pending", on |-> registered]]
    /\ UNCHANGED <<registered, known, serve, line, beat, suspect, unheard>>

\* handle_message finds the request among the pending ones.
Answered(c) ==
    /\ call[c].state = "pending"
    /\ line[call[c].on] = "up" /\ serve[call[c].on] = "serving"
    /\ call' = [call EXCEPT ![c].state = "answered"]
    /\ Heard(call[c].on)
    /\ UNCHANGED <<registered, known, serve, line, beat>>

CallTimeout(c) ==
    /\ call[c].state = "pending"
    /\ call' = [call EXCEPT ![c].state = "timeout"]
    /\ UNCHANGED <<registered, known, serve, line, beat, suspect, unheard>>

\* The connector goes without a word, or its socket closes.
Fails(s, how) ==
    /\ serve[s] # "new"
    /\ \/ line[s] = "up"
       \/ line[s] = "dead" /\ how = "shut"
    /\ line' = [line EXCEPT ![s] = how]
    /\ UNCHANGED <<registered, known, serve, beat, suspect, unheard, call>>

Serving(s) == TakeOver(s) \/ ServeEnds(s) \/ Leave(s)
Beating(s) ==
    BeatWakes(s) \/ PingTimeout(s) \/ BeatHealthy(s) \/ BeatMarks(s) \/ BeatDecides(s)

Next ==
    \/ \E s \in Socket :
         \/ Hello(s) \/ HelloSupersedes(s) \/ Frame(s) \/ PingAnswered(s)
         \/ Serving(s) \/ Beating(s)
         \/ \E how \in {"dead", "shut"} : Fails(s, how)
    \/ \E c \in Call : Send(c) \/ Answered(c) \/ CallTimeout(c)

Spec == Init /\ [][Next]_vars

\* Timers fire and coroutines go on.
Fairness == \A s \in Socket : WF_vars(Serving(s)) /\ WF_vars(Beating(s))

FairSpec == Spec /\ Fairness
-----------------------------------------------------------------------------
(* Properties.                                                             *)

TypeOK ==
    /\ registered \in Socket \cup {0} /\ known \subseteq Socket
    /\ serve \in [Socket -> ServePhase]
    /\ line \in [Socket -> {"up", "dead", "shut"}]
    /\ beat \in [Socket -> BeatPhase]
    /\ suspect \subseteq Socket /\ unheard \subseteq Socket
    /\ call \in [Call -> [state: CallState, on: Socket \cup {0}]]

\* The tables agree, and whatever is registered has a coroutine that will clear
\* it: no entry outlives its socket, none is left for a socket that lost the id.
RegistryAgrees ==
    /\ known = {registered} \ {0}
    /\ registered # 0 => serve[registered] \in {"serving", "leaving"}

\* No request waits on a socket that can no longer answer it: a socket that loses
\* the id fails the requests it carried, and only those.
PendingReachable ==
    \A c \in Call : call[c].state = "pending" => call[c].on = registered

\* The late cleanup of a superseded socket leaves its successor alone: the id is
\* given up only by the socket that holds it.
OnlyOwnerLeaves ==
    [][registered # 0 /\ registered' = 0 => serve'[registered] = "done"]_vars

\* A connector that has gone, announced or not, stops being offered to the router.
DeadIsDropped ==
    \A s \in Socket : registered = s /\ line[s] # "up" ~> registered # s
=============================================================================
