----------------------------- MODULE JobContract -----------------------------
(***************************************************************************)
(* What a client of POST /v1/videos/generations may rely on: the statuses  *)
(* of docs/architecture.md, the meaning of error.outcome_unknown, and the  *)
(* promise that a generation request is never repeated behind its back.    *)
(*                                                                         *)
(* "failed" is a failure with outcome_unknown = false, "uncertain" one     *)
(* with outcome_unknown = true, "gone" a job the service has forgotten.    *)
(***************************************************************************)
EXTENDS Naturals

CONSTANT Job

VARIABLES state, sent

State == {"none", "queued", "running", "complete", "failed", "uncertain", "gone"}

Init ==
    /\ state = [j \in Job |-> "none"]
    /\ sent = [j \in Job |-> 0]

Move(j, from, to) == state[j] \in from /\ state'[j] = to

Submit(j) == Move(j, {"none"}, "queued")
Begin(j)  == Move(j, {"queued"}, "running")

\* Only a job nothing was sent for goes back to the queue.
Defer(j) == Move(j, {"running"}, "queued") /\ sent[j] = 0

\* A job completes only on the strength of its own request.
Succeed(j) == Move(j, {"running"}, "complete") /\ sent[j] = 1
Fail(j)    == Move(j, {"queued", "running"}, "failed")
Doubt(j)   == Move(j, {"running"}, "uncertain")
Forget(j)  == Move(j, {"complete", "failed"}, "gone")

\* The one request: never while queued, never once the outcome is known.
Send(j) ==
    /\ state[j] \in {"running", "uncertain"} /\ state'[j] = state[j]
    /\ sent[j] = 0 /\ sent'[j] = 1

Step(j) ==
    \/ /\ Submit(j) \/ Begin(j) \/ Defer(j) \/ Succeed(j) \/ Fail(j) \/ Doubt(j) \/ Forget(j)
       /\ sent'[j] = sent[j]
    \/ Send(j)

\* A maintenance pass may move several jobs at once.
Next == \A j \in Job : Step(j) \/ (state'[j] = state[j] /\ sent'[j] = sent[j])

Spec == Init /\ [][Next]_<<state, sent>>
=============================================================================
