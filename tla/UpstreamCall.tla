---------------------------- MODULE UpstreamCall ----------------------------
(***************************************************************************)
(* What the worker relies on when it awaits a generation request: at the   *)
(* end it knows that Google Flow took the request, or that it never will,  *)
(* or it knows that it does not know.  Flow may take a request that the    *)
(* worker has given up on, but takes none twice.  JobLifecycle builds on   *)
(* this contract (its variable call), FlowRequest implements it.           *)
(***************************************************************************)
EXTENDS Naturals

CONSTANT Call

VARIABLES state, carried

State == {"idle", "away", "ok", "refused", "unknown"}

Init ==
    /\ state = [c \in Call |-> "idle"]
    /\ carried = [c \in Call |-> 0]

Move(c, from, to) == state[c] = from /\ state'[c] = to

Begin(c)   == Move(c, "idle", "away")
Succeed(c) == Move(c, "away", "ok") /\ carried[c] = 1
Refuse(c)  == Move(c, "away", "refused") /\ carried[c] = 0
Doubt(c)   == Move(c, "away", "unknown")

\* Google Flow takes the request, awaited or given up.
Carry(c) ==
    /\ state[c] \in {"away", "unknown"} /\ state'[c] = state[c]
    /\ carried[c] = 0 /\ carried'[c] = 1

Step(c) ==
    \/ (Begin(c) \/ Succeed(c) \/ Refuse(c) \/ Doubt(c)) /\ carried'[c] = carried[c]
    \/ Carry(c)

\* A socket that goes ends every call that waits on it.
Next == \A c \in Call : Step(c) \/ (state'[c] = state[c] /\ carried'[c] = carried[c])

Spec == Init /\ [][Next]_<<state, carried>>
=============================================================================
