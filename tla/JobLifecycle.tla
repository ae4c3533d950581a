---------------------------- MODULE JobLifecycle ----------------------------
(***************************************************************************)
(* The durable job table of app/projects.py (ProjectStore) together with   *)
(* the lanes of app/workers/job_worker.py (JobWorker) that drive it: the   *)
(* dispatch lane that claims a batch of queued jobs and sends one          *)
(* generation request for each, the poll lanes that follow a running       *)
(* video, the maintenance lane, status reads, and process crashes.         *)
(*                                                                         *)
(* Every ProjectStore method runs under one lock in one transaction, so a  *)
(* method is one atomic step.  A worker coroutine is split at its awaits.  *)
(* Which account serves a job is left open here: routing is an outcome.    *)
(*                                                                         *)
(* Timestamp columns are kept as the time elapsed since them, because the  *)
(* code only ever compares them with CURRENT_TIMESTAMP.  Elapsed times     *)
(* saturate at Horizon, past every timeout.                                *)
(***************************************************************************)
EXTENDS Integers, FiniteSets

CONSTANTS
    MaxJobs,          \* bound: jobs ever submitted; their ids are their rowids
    Video,            \* the jobs with media_type 'video'; the others are 'image'
    Locked,           \* the jobs whose payload has _routing_locked
    Key, NoKey,       \* idempotency keys, and the absence of one
    ImageTimeout,     \* job_image_timeout_seconds
    QueueTimeout,     \* job_video_queue_timeout_seconds
    RunTimeout,       \* job_video_running_timeout_seconds
    DispatchLease,    \* worker_dispatch_lease_seconds
    PollLease,        \* worker_poll_claim_lease_seconds
    ReleaseDelay,     \* delay_seconds of release_job_claim
    PollBase,         \* worker_poll_seconds
    PollMax,          \* worker_poll_max_backoff_seconds
    MaxPollErrors,    \* consecutive poll errors tolerated (10 in the code)
    Retention,        \* job_retention_days; 0 keeps every job
    WorkerConcurrency, PollConcurrency,
    RpcTimeout,       \* longest time one bridge request may stay unanswered
    MaxPrepare,       \* bound: bridge requests made before the generation call
    MaxCrashes,       \* bound: crashes or shutdowns of the process
    Horizon           \* bound: where elapsed times stop being told apart

Job == 1..MaxJobs

ASSUME JobAssumption ==
    /\ MaxJobs \in Nat
    /\ Video \subseteq Job /\ Locked \subseteq Job
    /\ NoKey \notin Key

\* The comment above JOB_CLAIM_LEASE_SECONDS: a dispatch lease outlasts one request.
ASSUME TimeAssumption ==
    /\ {ImageTimeout, QueueTimeout, RunTimeout, DispatchLease, PollLease, ReleaseDelay,
        PollBase, PollMax, RpcTimeout} \subseteq Nat \ {0}
    /\ {MaxPollErrors, Retention, MaxPrepare, MaxCrashes} \subseteq Nat
    /\ {WorkerConcurrency, PollConcurrency} \subseteq Nat \ {0}
    /\ RpcTimeout < DispatchLease
    /\ Horizon \in Nat
    /\ \A t \in {ImageTimeout, QueueTimeout, RunTimeout, DispatchLease, Retention} : t <= Horizon

VARIABLES
    job,      \* the provider_jobs rows
    task,     \* the _dispatch_job coroutine of each job, if one is alive
    polling,  \* how many poll lanes are reading each job
    call,     \* what became of a job's generation request at Google Flow
    sent,     \* how many generation requests were ever sent for a job
    spent,    \* how many were ever sent under an idempotency key
    up,       \* the process holds the lease and its lanes run
    crashes   \* crashes so far

vars == <<job, task, polling, call, sent, spent, up, crashes>>

-----------------------------------------------------------------------------
(* The rows.  claim_token says whether the column is set: a job has at most *)
(* one live dispatch coroutine and it always carries the latest token.      *)

Status == {"none", "queued", "dispatching", "running", "completed", "failed", "pruned"}
Terminal == {"completed", "failed"}
Active == {"queued", "dispatching", "running"}
Elapsed == 0..Horizon

Row == [status: Status,
        key: Key \cup {NoKey},          \* idempotency_key
        outcome_unknown: BOOLEAN,
        claim_token: BOOLEAN,
        age: Elapsed,                   \* since created_at
        since: Elapsed,                 \* since claimed_at, running_at or completed_at
        overdue: Int,                   \* since next_dispatch_at (or created_at), or next_poll_at
        errors: Nat]                    \* poll_error_count

\* A row whose clocks start now.
Fresh(status, key, unknown) ==
    [status |-> status, key |-> key, outcome_unknown |-> unknown, claim_token |-> FALSE,
     age |-> 0, since |-> 0, overdue |-> 0, errors |-> 0]

NoRow == Fresh("none", NoKey, FALSE)

\* update_job_failed, and the UPDATE of fail_abandoned_dispatches.  Once a row is
\* settled its dispatch and poll times no longer matter.
Failed(r, unknown) == Fresh("failed", r.key, unknown)

\* The UPDATEs of fail_expired_jobs leave claim_token behind.
Expired(r, unknown) == [Failed(r, unknown) EXCEPT !.claim_token = r.claim_token]

\* Mutant: the name a client sees is written into the status column.
CompletedAsShown(r) == Fresh("complete", r.key, r.outcome_unknown)

\* update_job_completed.
Completed(r) == Fresh("completed", r.key, r.outcome_unknown)

Min2(a, b) == IF a < b THEN a ELSE b

\* _poll_delay: exponential backoff in the number of consecutive errors.
PollDelay(errors) == Min2(PollMax, PollBase * 2 ^ Min2(errors, 8))

\* update_job_running keeps the claim token.
Running(r) ==
    [r EXCEPT !.status = "running", !.since = 0, !.overdue = -PollDelay(0), !.errors = 0]

\* The UPDATEs of claim_next_queued_job and release_job_claim.
Claimed(r) ==
    [r EXCEPT !.status = "dispatching", !.claim_token = TRUE, !.since = 0, !.overdue = 0]
Released(r) ==
    [r EXCEPT !.status = "queued", !.claim_token = FALSE, !.since = 0,
              !.overdue = -ReleaseDelay]

\* The UPDATE of schedule_job_poll, and the lease of claim_due_running_jobs.
Rescheduled(r, errors, delay) == [r EXCEPT !.overdue = -delay, !.errors = errors]

\* Mutant: an abandoned dispatch goes back to the queue.
RequeueAbandoned(r) ==
    IF r.status = "dispatching" /\ r.since >= DispatchLease THEN Released(r) ELSE r

\* fail_abandoned_dispatches, for one row.
FailAbandoned(r) ==
    IF r.status = "dispatching" /\ r.since >= DispatchLease THEN Failed(r, TRUE) ELSE r

\* Mutant: expiry by age also takes a job that is being dispatched.
ExpireDispatching(j, r) ==
    IF r.status \in {"queued", "dispatching"}
       /\ r.age >= (IF j \in Video THEN QueueTimeout ELSE ImageTimeout)
      THEN Expired(r, FALSE)
    ELSE IF r.status = "running" /\ j \in Video /\ r.since >= RunTimeout
      THEN Expired(r, TRUE)
    ELSE r

\* Mutant: a running video is left to its polls.
ExpireQueueOnly(j, r) ==
    IF r.status = "queued" /\ r.age >= (IF j \in Video THEN QueueTimeout ELSE ImageTimeout)
      THEN Expired(r, FALSE) ELSE r

\* fail_expired_jobs, for one row: the queue by age, a running video by its
\* time since running_at, a dispatch never.
FailExpired(j, r) ==
    IF r.status = "queued" /\ r.age >= (IF j \in Video THEN QueueTimeout ELSE ImageTimeout)
      THEN Expired(r, FALSE)
    ELSE IF r.status = "running" /\ j \in Video /\ r.since >= RunTimeout
      THEN Expired(r, TRUE)
    ELSE r

-----------------------------------------------------------------------------
(* The dispatch coroutine.  "start": created, its first step has not run.   *)
(* "prepare": awaiting the managed project, uploads or rehydration, with    *)
(* left requests to go.  "calling": awaiting the generation request.        *)

Phase == {"idle", "start", "prepare", "calling"}
Awaiting == {"prepare", "calling"}
Task == [phase: Phase, left: 0..MaxPrepare, elapsed: 0..RpcTimeout]
Idle == [phase |-> "idle", left |-> 0, elapsed |-> 0]

(* A request that left the process may be carried out much later or never. *)
CallState == {"none", "asked", "accepted", "refused", "rendered", "broken"}

Init ==
    /\ job = [j \in Job |-> NoRow]
    /\ task = [j \in Job |-> Idle]
    /\ polling = [j \in Job |-> 0]
    /\ call = [j \in Job |-> "none"]
    /\ sent = [j \in Job |-> 0]
    /\ spent = [k \in Key |-> 0]
    /\ up = TRUE
    /\ crashes = 0

-----------------------------------------------------------------------------
(* HTTP handlers.                                                          *)

\* Mutant: a repeated key is not looked up.
EnqueueAgain(j, k) ==
    /\ up
    /\ job[j].status = "none"
    /\ \A i \in 1..(j - 1) : job[i].status # "none"
    /\ job' = [i \in Job |-> IF i = j THEN Fresh("queued", k, FALSE) ELSE FailAbandoned(job[i])]
    /\ UNCHANGED <<task, polling, call, sent, spent, up, crashes>>

\* generate_image, generate_video: a key already in the table returns its job
\* and writes nothing; otherwise enqueue_job inserts the row and reads it back
\* through get_job, which first fails the abandoned dispatches.
Enqueue(j, k) ==
    /\ up
    /\ job[j].status = "none"
    /\ \A i \in 1..(j - 1) : job[i].status # "none"
    /\ k # NoKey => \A i \in Job : job[i].key # k
    /\ job' = [i \in Job |-> IF i = j THEN Fresh("queued", k, FALSE)
                                      ELSE FailAbandoned(job[i])]
    /\ UNCHANGED <<task, polling, call, sent, spent, up, crashes>>

\* POST /v1/jobs/status: a read that first applies the lifecycle rules.
GetJob(j) ==
    /\ up
    /\ job[j].status # "none"
    /\ job' = [i \in Job |-> IF i = j THEN FailExpired(i, FailAbandoned(job[i]))
                                      ELSE FailAbandoned(job[i])]
    /\ UNCHANGED <<task, polling, call, sent, spent, up, crashes>>

-----------------------------------------------------------------------------
(* The dispatch lane.                                                      *)

Due(j) == job[j].overdue >= 0

\* ORDER BY COALESCE(next_dispatch_at, created_at), images first, rowid.
\* Rows at the Horizon are not told apart by time.
Before(i, j) ==
    \/ job[i].overdue > job[j].overdue
    \/ /\ job[i].overdue = job[j].overdue
       /\ \/ i \notin Video /\ j \in Video
          \/ (i \in Video <=> j \in Video) /\ i < j
          \/ job[i].overdue = Horizon

Claimable == {j \in Job : job[j].status = "queued" /\ Due(j)}

\* process_queued_jobs claims its batch without an await, then waits for every
\* coroutine of it before the lane claims again.
ClaimBatch(batch) ==
    /\ up
    /\ \A j \in Job : task[j].phase = "idle"
    /\ batch # {} /\ batch \subseteq Claimable
    /\ Cardinality(batch) = Min2(WorkerConcurrency, Cardinality(Claimable))
    /\ \A i \in batch, j \in Claimable \ batch : Before(i, j)
    /\ job' = [j \in Job |-> IF j \in batch THEN Claimed(job[j]) ELSE job[j]]
    /\ task' = [j \in Job |-> IF j \in batch THEN [Idle EXCEPT !.phase = "start"] ELSE task[j]]
    /\ UNCHANGED <<polling, call, sent, spent, up, crashes>>

\* The WHERE clause of a token-guarded update.
Owns(j, statuses) == job[j].claim_token /\ job[j].status \in statuses

\* The coroutine ends with a token-guarded update of its row.
Finish(j, statuses, r) ==
    /\ job' = [job EXCEPT ![j] = IF Owns(j, statuses) THEN r ELSE @]
    /\ task' = [task EXCEPT ![j] = Idle]

FinishFailed(j, unknown) == Finish(j, Active, Failed(job[j], unknown))

\* No eligible account: release_job_claim.  A locked job is never failed here.
ReleaseClaim(j) ==
    /\ up /\ task[j].phase = "start"
    /\ Finish(j, {"dispatching"}, Released(job[j]))
    /\ UNCHANGED <<polling, call, sent, spent, up, crashes>>

\* NO_CONNECTED_ACCOUNTS, INSUFFICIENT_CREDITS, QUEUE_TIMEOUT.
RejectUnroutable(j) ==
    /\ up /\ task[j].phase = "start" /\ j \notin Locked
    /\ FinishFailed(j, FALSE)
    /\ UNCHANGED <<polling, call, sent, spent, up, crashes>>

\* An account is selected and reserved; n requests precede the generation call.
Route(j, n) ==
    /\ up /\ task[j].phase = "start"
    /\ task' = [task EXCEPT ![j] = [phase |-> "prepare", left |-> n, elapsed |-> 0]]
    /\ UNCHANGED <<job, polling, call, sent, spent, up, crashes>>

\* _managed_project, _upload_inline_images, _rehydrate_media_ids: one request answered.
PrepareStep(j) ==
    /\ up /\ task[j].phase = "prepare" /\ task[j].left > 0
    /\ task' = [task EXCEPT ![j].left = @ - 1, ![j].elapsed = 0]
    /\ UNCHANGED <<job, polling, call, sent, spent, up, crashes>>

\* A missing asset, a failed rehydration, or an exception before the call.
PrepareFails(j) ==
    /\ up /\ task[j].phase = "prepare"
    /\ FinishFailed(j, FALSE)
    /\ UNCHANGED <<polling, call, sent, spent, up, crashes>>

\* The generation request leaves the process.  The claim is not read again.
SendCall(j) ==
    /\ up /\ task[j].phase = "prepare" /\ task[j].left = 0
    /\ task' = [task EXCEPT ![j].phase = "calling", ![j].elapsed = 0]
    /\ call' = [call EXCEPT ![j] = "asked"]
    /\ sent' = [sent EXCEPT ![j] = @ + 1]
    /\ spent' = IF job[j].key \in Key THEN [spent EXCEPT ![job[j].key] = @ + 1] ELSE spent
    /\ UNCHANGED <<job, polling, up, crashes>>

\* Upstream said yes, and said so to the worker: an image is complete, a video
\* has an operation to poll.
CallSucceeds(j) ==
    /\ up /\ task[j].phase = "calling"
    /\ call[j] \in {"accepted", "rendered", "broken"}
    /\ IF j \in Video THEN Finish(j, {"dispatching"}, Running(job[j]))
                      ELSE Finish(j, {"dispatching", "running"}, Completed(job[j]))
    /\ UNCHANGED <<polling, call, sent, spent, up, crashes>>

\* A 2xx without media or poll identifier, or an exception while the answer is
\* recorded; an image exception is reported with outcome_unknown = paid_attempted.
CallUnusable(j) ==
    /\ up /\ task[j].phase = "calling"
    /\ call[j] \in {"accepted", "rendered", "broken"}
    /\ \E unknown \in (IF j \in Video THEN {TRUE} ELSE BOOLEAN) : FinishFailed(j, unknown)
    /\ UNCHANGED <<polling, call, sent, spent, up, crashes>>

\* A deterministic upstream rejection, credit exhaustion included.
CallRefused(j) ==
    /\ up /\ task[j].phase = "calling" /\ call[j] = "refused"
    /\ FinishFailed(j, FALSE)
    /\ UNCHANGED <<polling, call, sent, spent, up, crashes>>

\* Mutant: a lost answer is reported as a known failure.
LostIsKnown(j) ==
    /\ up /\ task[j].phase = "calling"
    /\ FinishFailed(j, FALSE)
    /\ UNCHANGED <<polling, call, sent, spent, up, crashes>>

\* Mutant: a lost answer is retried from the queue.
LostIsRetried(j) ==
    /\ up /\ task[j].phase = "calling"
    /\ Finish(j, {"dispatching"}, Released(job[j]))
    /\ UNCHANGED <<polling, call, sent, spent, up, crashes>>

\* A timeout, a disconnect, a 408/425/5xx, or a tab or captcha failure.
CallLost(j) ==
    /\ up /\ task[j].phase = "calling"
    /\ FinishFailed(j, TRUE)
    /\ UNCHANGED <<polling, call, sent, spent, up, crashes>>

-----------------------------------------------------------------------------
(* The poll lanes, each claiming one due video at a time.                  *)

\* JobWorker._polling_job_ids.
Polled == {j \in Job : polling[j] > 0}

\* Mutant: the lease alone keeps a job from a second lane.
PollableByLease == {j \in Video : job[j].status = "running" /\ Due(j)}

\* The jobs claim_due_running_jobs may lease: those being read are excluded,
\* because a request may outlast the lease of its row.
Pollable == {j \in Video : job[j].status = "running" /\ Due(j)} \ Polled

\* claim_due_running_jobs(limit=1): lease the row that is due longest.
ClaimPoll(j) ==
    /\ up
    /\ Cardinality(Polled) < PollConcurrency
    /\ j \in Pollable
    /\ \A i \in Pollable : job[i].overdue <= job[j].overdue
    /\ job' = [job EXCEPT ![j] = Rescheduled(@, @.errors, PollLease)]
    /\ polling' = [polling EXCEPT ![j] = @ + 1]
    /\ UNCHANGED <<task, call, sent, spent, up, crashes>>

\* schedule_job_poll touches a running row only.
SchedulePoll(j, errors, delay) ==
    job' = [job EXCEPT ![j] = IF @.status = "running" THEN Rescheduled(@, errors, delay) ELSE @]

PollEnds(j) ==
    /\ up /\ polling[j] > 0
    /\ polling' = [polling EXCEPT ![j] = @ - 1]
    /\ UNCHANGED <<task, call, sent, spent, up, crashes>>

\* Mutant: a poll writes its outcome whatever became of the row.
PollOverwrites(j, statuses, r) == job' = [job EXCEPT ![j] = r]

\* The status update of _poll_job carries no claim token.
PollFinish(j, statuses, r) == job' = [job EXCEPT ![j] = IF @.status \in statuses THEN r ELSE @]

\* VIDEO_POLL_MAX_ERRORS, read off the leased row before any request.
PollGivesUp(j) ==
    /\ PollEnds(j)
    /\ job[j].errors >= MaxPollErrors
    /\ PollFinish(j, Active, Failed(job[j], TRUE))

\* Account missing or busy, HTTP error, exception, unusable or URL-less answer.
PollError(j) ==
    /\ PollEnds(j)
    /\ job[j].errors < MaxPollErrors
    /\ SchedulePoll(j, job[j].errors + 1, PollDelay(job[j].errors))

PollPending(j) ==
    /\ PollEnds(j)
    /\ job[j].errors < MaxPollErrors
    /\ SchedulePoll(j, 0, PollDelay(0))

PollCompletes(j) ==
    /\ PollEnds(j)
    /\ job[j].errors < MaxPollErrors
    /\ call[j] = "rendered"
    /\ PollFinish(j, {"dispatching", "running"}, Completed(job[j]))

\* _video_status_failure or an operation error: a known failure.
PollReportsFailure(j) ==
    /\ PollEnds(j)
    /\ job[j].errors < MaxPollErrors
    /\ call[j] = "broken"
    /\ PollFinish(j, Active, Failed(job[j], FALSE))

-----------------------------------------------------------------------------
(* The maintenance lane, the process, time, and Google Flow.               *)

\* _expire_and_maintain, up to run_maintenance.
Maintain ==
    /\ up
    /\ job' = [j \in Job |-> FailExpired(j, FailAbandoned(job[j]))]
    /\ UNCHANGED <<task, polling, call, sent, spent, up, crashes>>

\* The job part of ProjectStore.prune: rows with a key or an unknown outcome stay.
Prune(gone) ==
    /\ up /\ Retention > 0
    /\ gone # {}
    /\ \A j \in gone : /\ job[j].status \in Terminal
                       /\ job[j].key = NoKey
                       /\ ~job[j].outcome_unknown
                       /\ job[j].since >= Retention
    /\ job' = [j \in Job |-> IF j \in gone THEN Fresh("pruned", NoKey, FALSE) ELSE job[j]]
    /\ UNCHANGED <<task, polling, call, sent, spent, up, crashes>>

\* A crash or JobWorker.stop: the coroutines are gone, the rows stay.
Crash ==
    /\ up /\ crashes < MaxCrashes
    /\ up' = FALSE
    /\ crashes' = crashes + 1
    /\ task' = [j \in Job |-> Idle]
    /\ polling' = [j \in Job |-> 0]
    /\ UNCHANGED <<job, call, sent, spent>>

\* JobWorker.start fails only claims whose lease has run out.
Start ==
    /\ ~up
    /\ up' = TRUE
    /\ job' = [j \in Job |-> FailAbandoned(job[j])]
    /\ UNCHANGED <<task, polling, call, sent, spent, crashes>>

\* Google Flow may act on a request at any time after it was sent.
Upstream(j) ==
    /\ \/ /\ call[j] = "asked"
          /\ call' = [call EXCEPT ![j] = IF j \in Video THEN "accepted" ELSE "rendered"]
       \/ /\ call[j] = "asked"
          /\ call' = [call EXCEPT ![j] = "refused"]
       \/ /\ call[j] = "accepted"
          /\ \E o \in {"rendered", "broken"} : call' = [call EXCEPT ![j] = o]
    /\ UNCHANGED <<job, task, polling, sent, spent, up, crashes>>

Older(n) == Min2(n + 1, Horizon)

Aged(r) ==
    [r EXCEPT !.age = IF r.status \in {"queued", "dispatching"} THEN Older(@) ELSE @,
              !.since = IF \/ r.status \in {"dispatching", "running"}
                           \/ r.status \in Terminal /\ Retention > 0
                        THEN Older(@) ELSE @,
              !.overdue = IF r.status \in {"queued", "running"} THEN Older(@) ELSE @]

\* One unit of time.  A created coroutine runs before time passes, and no
\* request stays unanswered longer than RpcTimeout: send_rpc gives up on it.
Tick ==
    /\ \A j \in Job : /\ task[j].phase # "start"
                      /\ task[j].phase \in Awaiting => task[j].elapsed < RpcTimeout
    /\ job' = [j \in Job |-> Aged(job[j])]
    /\ task' = [j \in Job |-> IF task[j].phase \in Awaiting
                              THEN [task[j] EXCEPT !.elapsed = @ + 1] ELSE task[j]]
    /\ UNCHANGED <<polling, call, sent, spent, up, crashes>>

Dispatch(j) ==
    \/ ReleaseClaim(j) \/ RejectUnroutable(j)
    \/ \E n \in 0..MaxPrepare : Route(j, n)
    \/ PrepareStep(j) \/ PrepareFails(j) \/ SendCall(j)
    \/ CallSucceeds(j) \/ CallUnusable(j) \/ CallRefused(j) \/ CallLost(j)

Poll(j) ==
    \/ ClaimPoll(j) \/ PollGivesUp(j) \/ PollError(j)
    \/ PollPending(j) \/ PollCompletes(j) \/ PollReportsFailure(j)

Next ==
    \/ \E j \in Job, k \in Key \cup {NoKey} : Enqueue(j, k)
    \/ \E j \in Job : GetJob(j) \/ Dispatch(j) \/ Poll(j) \/ Upstream(j)
    \/ \E batch \in SUBSET Job : ClaimBatch(batch)
    \/ \E gone \in SUBSET Job : Prune(gone)
    \/ Maintain \/ Crash \/ Start \/ Tick

Spec == Init /\ [][Next]_vars

(* Fairness.  The lanes and the event loop run for ever and every request    *)
(* is answered or given up on, so time passes and each coroutine moves on.   *)
(* Maintenance is strongly fair: its period is independent of the dispatch   *)
(* lane, so it cannot always find a job in the instant between its claim and *)
(* its release.                                                              *)
Fairness ==
    /\ SF_vars(Tick)
    /\ SF_vars(Maintain)
    /\ WF_vars(Start)
    /\ \A j \in Job : WF_vars(Dispatch(j))

FairSpec == Spec /\ Fairness
-----------------------------------------------------------------------------
(* Properties.                                                             *)

TypeOK ==
    /\ job \in [Job -> Row]
    /\ task \in [Job -> Task]
    /\ polling \in [Job -> Nat]
    /\ call \in [Job -> CallState]
    /\ sent \in [Job -> Nat]
    /\ spent \in [Key -> Nat]
    /\ up \in BOOLEAN
    /\ crashes \in 0..MaxCrashes

\* "A paid dispatch whose outcome may be unknown is not blindly recreated"
\* (docs/architecture.md): across leases, crashes, releases and retention, at
\* most one generation request is ever sent for a job, and for a key.
PaidAtMostOnce ==
    /\ \A j \in Job : sent[j] <= 1
    /\ \A k \in Key : spent[k] <= 1

\* A video reported failed with outcome_unknown = false can be submitted again
\* safely: Flow never took its request, and never will, or reported it broken.
HonestFailure ==
    \A j \in Video : job[j].status = "failed" /\ ~job[j].outcome_unknown
                     => call[j] \in {"none", "refused", "broken"}

\* A dispatching row has its coroutine unless a crash took it, and a live
\* coroutine's row is dispatching or already reported as uncertain.
DispatchOwned ==
    \A j \in Job :
        /\ job[j].status = "dispatching" /\ crashes = 0 => task[j].phase # "idle"
        /\ task[j].phase # "idle" =>
             (\/ job[j].status = "dispatching" /\ job[j].claim_token
              \/ job[j].status = "failed" /\ job[j].outcome_unknown)

\* What one job's row, coroutine, request and poll agree on: nothing was sent
\* for a queued or still prepared job, every answer has its one request, and one
\* lane at a time polls a job, which has left the dispatch lane by then.
JobInv(j) ==
    /\ \/ job[j].status \in {"none", "queued"}
       \/ task[j].phase \in {"start", "prepare"}
       => sent[j] = 0 /\ call[j] = "none"
    /\ sent[j] <= 1
    /\ call[j] # "none" => sent[j] = 1
    /\ task[j].phase # "idle" =>
         (\/ job[j].status = "dispatching" /\ job[j].claim_token
          \/ job[j].status = "failed" /\ job[j].outcome_unknown)
    /\ job[j].status = "dispatching" /\ crashes = 0 => task[j].phase # "idle"
    /\ polling[j] <= 1
    /\ polling[j] > 0 => job[j].status \notin {"none", "queued", "dispatching"}
    /\ j \in Video /\ job[j].status = "failed" /\ ~job[j].outcome_unknown
         => call[j] \in {"none", "refused", "broken"}

\* A key names one row, and that row sent whatever the key was charged for.
KeyInv ==
    /\ \A i, j \in Job : job[i].key = job[j].key /\ job[i].key # NoKey => i = j
    /\ \A k \in Key : /\ spent[k] <= 1
                      /\ spent[k] > 0 => \E j \in Job : job[j].key = k /\ sent[j] = 1

\* The inductive invariant behind the three properties above: no request is ever
\* sent twice because the rows, coroutines, requests and keys stay in step, and
\* no job polled twice at a time though a poll lease is shorter than a request.
IInv == TypeOK /\ (\A j \in Job : JobInv(j)) /\ KeyInv

\* A settled job keeps its outcome against late answers, polls and expiry, and
\* is forgotten only when it has neither a key nor an unknown outcome.
SettledIsFinal ==
    [][\A j \in Job : job[j].status \in Terminal =>
         \/ /\ job'[j].status = job[j].status
            /\ job'[j].outcome_unknown = job[j].outcome_unknown
         \/ /\ job'[j].status = "pruned"
            /\ job[j].key = NoKey /\ ~job[j].outcome_unknown]_vars

\* Every accepted job is eventually settled, whatever crashes, blocked routes,
\* lost answers and endless "pending" polls it meets.
EveryJobSettles ==
    \A j \in Job : job[j].status \in Active ~> job[j].status \notin Active

\* _job_to_dict: the status a client sees.
Public(r) ==
    IF r.status = "dispatching" THEN "running"
    ELSE IF r.status = "completed" THEN "complete"
    ELSE r.status

PublicState(r) ==
    IF r.status = "failed" /\ r.outcome_unknown THEN "uncertain"
    ELSE IF r.status = "pruned" THEN "gone"
    ELSE Public(r)

\* The table and its worker implement the client contract of JobContract.
Contract == INSTANCE JobContract WITH state <- [j \in Job |-> PublicState(job[j])]
KeepsContract == Contract!Spec
=============================================================================
