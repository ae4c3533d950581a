------------------------- MODULE JobLifecycleProofs -------------------------
(***************************************************************************)
(* Theorems about JobLifecycle, for every value of its constants: type     *)
(* correctness, the inductive invariant, and what follows from it.         *)
(***************************************************************************)
EXTENDS JobLifecycle, TLAPS

-----------------------------------------------------------------------------
(* The row helpers return rows.                                            *)

\* What a row is, field by field.
LEMMA RowShape ==
    ASSUME NEW r \in Row
    PROVE  /\ r = [status |-> r.status, key |-> r.key, outcome_unknown |-> r.outcome_unknown,
                   claim_token |-> r.claim_token, age |-> r.age, since |-> r.since,
                   overdue |-> r.overdue, errors |-> r.errors]
           /\ r.status \in Status /\ r.key \in Key \cup {NoKey}
           /\ r.outcome_unknown \in BOOLEAN /\ r.claim_token \in BOOLEAN
           /\ r.age \in Elapsed /\ r.since \in Elapsed
           /\ r.overdue \in Int /\ r.errors \in Nat
BY DEF Row

\* A clock may stand at zero.
LEMMA ZeroElapsed == 0 \in Elapsed
BY TimeAssumption DEF Elapsed

\* A row whose clocks start now is a row.
LEMMA FreshType ==
    ASSUME NEW status \in Status, NEW key \in Key \cup {NoKey}, NEW unknown \in BOOLEAN
    PROVE  Fresh(status, key, unknown) \in Row
BY ZeroElapsed DEF Fresh, Row

\* A row that fails, expires or completes stays a row.
LEMMA FailedType ==
    ASSUME NEW r \in Row, NEW unknown \in BOOLEAN
    PROVE  /\ Failed(r, unknown) \in Row
           /\ Expired(r, unknown) \in Row
           /\ Completed(r) \in Row
<1>1. Failed(r, unknown) \in Row
  BY FreshType DEF Failed, Status, Row
<1>2. Expired(r, unknown) \in Row
  BY <1>1 DEF Expired, Row
<1>3. Completed(r) \in Row
  BY FreshType DEF Completed, Status, Row
<1> QED
  BY <1>1, <1>2, <1>3

\* _poll_delay is a number of time units, whatever the error count.
LEMMA DelayType ==
    ASSUME NEW n \in Nat
    PROVE  PollDelay(n) \in Int
<1>1. Min2(n, 8) \in Nat
  BY DEF Min2
<1>2. 2 ^ Min2(n, 8) \in Int
  BY <1>1
<1>3. PollBase * (2 ^ Min2(n, 8)) \in Int
  BY <1>2, TimeAssumption
<1> QED
  BY <1>3, TimeAssumption DEF PollDelay, Min2

\* update_job_running keeps a row a row.
LEMMA RunningType ==
    ASSUME NEW r \in Row
    PROVE  Running(r) \in Row
<1>1. -PollDelay(0) \in Int
  BY DelayType
<1> QED
  BY <1>1, ZeroElapsed DEF Running, Row, Status

\* The columns that claim_next_queued_job and release_job_claim write.
LEMMA ClaimUpdateType ==
    ASSUME NEW r \in Row, NEW status \in Status, NEW token \in BOOLEAN, NEW overdue \in Int
    PROVE  [r EXCEPT !.status = status, !.claim_token = token,
                     !.since = 0, !.overdue = overdue] \in Row
BY ZeroElapsed DEF Row

\* A claimed or released row is a row.
LEMMA ClaimedType ==
    ASSUME NEW r \in Row
    PROVE  Claimed(r) \in Row /\ Released(r) \in Row
<1>1. -ReleaseDelay \in Int /\ 0 \in Int
  BY TimeAssumption
<1>2. "dispatching" \in Status /\ "queued" \in Status
  BY DEF Status
<1> QED
  BY <1>1, <1>2, ClaimUpdateType, Zenon DEF Claimed, Released

\* A row whose poll is scheduled or leased is a row.
LEMMA RescheduledType ==
    ASSUME NEW r \in Row, NEW errors \in Nat, NEW delay \in Int
    PROVE  Rescheduled(r, errors, delay) \in Row
<1>1. -delay \in Int
  OBVIOUS
<1> QED
  BY <1>1 DEF Rescheduled, Row

\* The lifecycle rules, applied to a row, give a row.
LEMMA LifecycleType ==
    ASSUME NEW r \in Row, NEW j
    PROVE  FailAbandoned(r) \in Row /\ FailExpired(j, r) \in Row
BY FailedType DEF FailAbandoned, FailExpired

\* Time keeps a row a row: its clocks saturate at Horizon.
LEMMA AgedType ==
    ASSUME NEW r \in Row
    PROVE  Aged(r) \in Row
<1>1. \A n \in Elapsed : Older(n) \in Elapsed
  BY TimeAssumption DEF Older, Min2, Elapsed
<1>2. \A n \in Int : Older(n) \in Int
  BY TimeAssumption DEF Older, Min2
<1> QED
  BY <1>1, <1>2 DEF Aged, Row

-----------------------------------------------------------------------------
(* Type correctness.                                                       *)

\* No coroutine is a state of a coroutine.
LEMMA IdleType == Idle \in Task
BY TimeAssumption DEF Idle, Task, Phase

\* The states a dispatch coroutine passes through.
LEMMA TaskType ==
    ASSUME NEW t \in Task
    PROVE  /\ [t EXCEPT !.phase = "calling", !.elapsed = 0] \in Task
           /\ t.left > 0 => [t EXCEPT !.left = @ - 1, !.elapsed = 0] \in Task
<1>1. t.left \in 0..MaxPrepare /\ 0 \in 0..RpcTimeout
  BY TimeAssumption DEF Task
<1>2. t.left > 0 => t.left - 1 \in 0..MaxPrepare
  BY <1>1, TimeAssumption
<1> QED
  BY <1>1, <1>2 DEF Task, Phase

\* A table whose every row is a row is a table.
LEMMA FinishType ==
    ASSUME TypeOK, NEW j \in Job, NEW statuses, NEW r \in Row, Finish(j, statuses, r)
    PROVE  job' \in [Job -> Row] /\ task' \in [Job -> Task]
BY IdleType DEF TypeOK, Finish

\* A dispatch that ends in failure keeps the table and the coroutines typed.
LEMMA FinishFailedType ==
    ASSUME TypeOK, NEW j \in Job, NEW unknown \in BOOLEAN, FinishFailed(j, unknown)
    PROVE  job' \in [Job -> Row] /\ task' \in [Job -> Task]
<1>1. Failed(job[j], unknown) \in Row
  BY FailedType DEF TypeOK
<1> QED
  BY <1>1, FinishType DEF FinishFailed

\* schedule_job_poll keeps the table typed.
LEMMA SchedulePollType ==
    ASSUME TypeOK, NEW j \in Job, NEW errors \in Nat, NEW delay \in Int,
           SchedulePoll(j, errors, delay)
    PROVE  job' \in [Job -> Row]
BY RescheduledType DEF TypeOK, SchedulePoll

\* The status update of _poll_job keeps the table typed.
LEMMA PollFinishType ==
    ASSUME TypeOK, NEW j \in Job, NEW statuses, NEW r \in Row, PollFinish(j, statuses, r)
    PROVE  job' \in [Job -> Row]
BY DEF TypeOK, PollFinish

\* Every step of a dispatch coroutine keeps the types.
LEMMA DispatchType ==
    ASSUME TypeOK, NEW j \in Job, Dispatch(j)
    PROVE  TypeOK'
<1> DEFINE Rest == UNCHANGED <<polling, call, sent, spent, up, crashes>>
<1>0. /\ job[j] \in Row /\ Failed(job[j], FALSE) \in Row /\ Failed(job[j], TRUE) \in Row
      /\ Completed(job[j]) \in Row /\ Running(job[j]) \in Row
  BY FailedType, RunningType DEF TypeOK
<1>1. ASSUME job' \in [Job -> Row], task' \in [Job -> Task], Rest
      PROVE  TypeOK'
  BY <1>1 DEF TypeOK
<1>2. CASE ReleaseClaim(j)
  BY <1>2, <1>0, <1>1, ClaimedType, FinishType DEF ReleaseClaim
<1>3. CASE RejectUnroutable(j)
  BY <1>3, <1>1, FinishFailedType DEF RejectUnroutable
<1>4. CASE \E n \in 0..MaxPrepare : Route(j, n)
  <2> PICK n \in 0..MaxPrepare : Route(j, n)
    BY <1>4
  <2>1. [phase |-> "prepare", left |-> n, elapsed |-> 0] \in Task
    BY TimeAssumption DEF Task, Phase
  <2> QED
    BY <2>1, <1>1 DEF Route, TypeOK
<1>5. CASE PrepareStep(j)
  <2>1. [task[j] EXCEPT !.left = @ - 1, !.elapsed = 0] \in Task
    BY <1>5, TaskType DEF PrepareStep, TypeOK
  <2> QED
    BY <2>1, <1>5, <1>1 DEF PrepareStep, TypeOK
<1>6. CASE PrepareFails(j)
  BY <1>6, <1>1, FinishFailedType DEF PrepareFails
<1>7. CASE SendCall(j)
  <2>1. [task[j] EXCEPT !.phase = "calling", !.elapsed = 0] \in Task
    BY TaskType DEF TypeOK
  <2>2. task' \in [Job -> Task]
    BY <2>1, <1>7 DEF SendCall, TypeOK
  <2>3. call' \in [Job -> CallState] /\ sent' \in [Job -> Nat] /\ spent' \in [Key -> Nat]
    BY <1>7 DEF SendCall, TypeOK, CallState
  <2> QED
    BY <2>2, <2>3, <1>7 DEF SendCall, TypeOK
<1>8. CASE CallSucceeds(j)
  BY <1>8, <1>0, <1>1, FinishType DEF CallSucceeds
<1>9. CASE CallUnusable(j)
  BY <1>9, <1>1, FinishFailedType DEF CallUnusable
<1>10. CASE CallRefused(j)
  BY <1>10, <1>1, FinishFailedType DEF CallRefused
<1>11. CASE CallLost(j)
  BY <1>11, <1>1, FinishFailedType DEF CallLost
<1> QED
  BY <1>2, <1>3, <1>4, <1>5, <1>6, <1>7, <1>8, <1>9, <1>10, <1>11 DEF Dispatch

\* Every step of a poll lane keeps the types.
LEMMA PollType ==
    ASSUME TypeOK, NEW j \in Job, Poll(j)
    PROVE  TypeOK'
<1>0. /\ job[j] \in Row /\ Failed(job[j], FALSE) \in Row /\ Failed(job[j], TRUE) \in Row
      /\ Completed(job[j]) \in Row
  BY FailedType DEF TypeOK
<1>1. job[j].errors \in Nat /\ PollDelay(job[j].errors) \in Int /\ PollDelay(0) \in Int
  BY <1>0, DelayType DEF Row
<1>2. ASSUME PollEnds(j), job' \in [Job -> Row]
      PROVE  TypeOK'
  BY <1>2 DEF PollEnds, TypeOK
<1>3. CASE ClaimPoll(j)
  <2>0. PollLease \in Int
    BY TimeAssumption
  <2>1. Rescheduled(job[j], job[j].errors, PollLease) \in Row
    BY <2>0, <1>0, <1>1, RescheduledType
  <2> QED
    BY <2>1, <1>3 DEF ClaimPoll, TypeOK
<1>4. CASE PollGivesUp(j)
  BY <1>4, <1>0, <1>2, PollFinishType DEF PollGivesUp
<1>5. CASE PollError(j)
  BY <1>5, <1>1, <1>2, SchedulePollType DEF PollError
<1>6. CASE PollPending(j)
  BY <1>6, <1>1, <1>2, SchedulePollType DEF PollPending
<1>7. CASE PollCompletes(j)
  BY <1>7, <1>0, <1>2, PollFinishType DEF PollCompletes
<1>8. CASE PollReportsFailure(j)
  BY <1>8, <1>0, <1>2, PollFinishType DEF PollReportsFailure
<1> QED
  BY <1>3, <1>4, <1>5, <1>6, <1>7, <1>8 DEF Poll

\* The empty table is well typed.
LEMMA TypeInit == Init => TypeOK
<1>1. NoRow \in Row
  BY FreshType DEF NoRow, Status
<1>2. 0 \in 0..MaxCrashes
  BY TimeAssumption
<1> QED
  BY <1>1, <1>2, IdleType DEF Init, TypeOK, CallState

\* Every step keeps the types.
LEMMA TypeStep == TypeOK /\ [Next]_vars => TypeOK'
<1> SUFFICES ASSUME TypeOK, [Next]_vars PROVE TypeOK'
  OBVIOUS
<1>1. ASSUME job' \in [Job -> Row], UNCHANGED <<task, polling, call, sent, spent, up, crashes>>
      PROVE  TypeOK'
  BY <1>1 DEF TypeOK
<1>2. \A j \in Job : job[j] \in Row
  BY DEF TypeOK
<1>3. ASSUME NEW j \in Job, NEW k \in Key \cup {NoKey}, Enqueue(j, k)
      PROVE  TypeOK'
  <2>1. Fresh("queued", k, FALSE) \in Row
    BY FreshType DEF Status
  <2> QED
    BY <2>1, <1>1, <1>2, <1>3, LifecycleType DEF Enqueue
<1>4. ASSUME NEW j \in Job, GetJob(j)
      PROVE  TypeOK'
  BY <1>1, <1>2, <1>4, LifecycleType DEF GetJob
<1>5. ASSUME NEW j \in Job, Upstream(j)
      PROVE  TypeOK'
  BY <1>5 DEF Upstream, TypeOK, CallState
<1>6. ASSUME NEW batch \in SUBSET Job, ClaimBatch(batch)
      PROVE  TypeOK'
  <2>1. [Idle EXCEPT !.phase = "start"] \in Task
    BY IdleType DEF Task, Phase
  <2> QED
    BY <2>1, <1>2, <1>6, ClaimedType DEF ClaimBatch, TypeOK
<1>7. ASSUME NEW gone \in SUBSET Job, Prune(gone)
      PROVE  TypeOK'
  <2>1. Fresh("pruned", NoKey, FALSE) \in Row
    BY FreshType DEF Status
  <2> QED
    BY <2>1, <1>1, <1>2, <1>7 DEF Prune
<1>8. CASE Maintain
  BY <1>1, <1>2, <1>8, LifecycleType DEF Maintain
<1>9. CASE Crash
  <2>1. up' \in BOOLEAN
    BY <1>9 DEF Crash
  <2>2. crashes' \in 0..MaxCrashes
    BY <1>9, TimeAssumption DEF Crash, TypeOK
  <2> QED
    BY <2>1, <2>2, <1>9, IdleType DEF Crash, TypeOK
<1>10. CASE Start
  <2>1. job' \in [Job -> Row]
    BY <1>2, <1>10, LifecycleType DEF Start
  <2>2. up' \in BOOLEAN
    BY <1>10 DEF Start
  <2> QED
    BY <2>1, <2>2, <1>10 DEF Start, TypeOK
<1>11. CASE Tick
  <2>1. \A j \in Job : task[j].phase \in Awaiting =>
                         [task[j] EXCEPT !.elapsed = @ + 1] \in Task
    BY <1>11, TimeAssumption DEF Tick, TypeOK, Task
  <2> QED
    BY <2>1, <1>2, <1>11, AgedType DEF Tick, TypeOK
<1>12. CASE UNCHANGED vars
  BY <1>12 DEF vars, TypeOK
<1> QED
  BY <1>3, <1>4, <1>5, <1>6, <1>7, <1>8, <1>9, <1>10, <1>11, <1>12, DispatchType, PollType
     DEF Next

\* Every reachable state is well typed.
THEOREM TypeCorrect == Spec => []TypeOK
BY TypeInit, TypeStep, PTL DEF Spec

-----------------------------------------------------------------------------
(* What the row helpers do to the columns the invariant reads.             *)

Kept(r, s) ==
    /\ s.status = r.status /\ s.key = r.key
    /\ s.outcome_unknown = r.outcome_unknown /\ s.claim_token = r.claim_token

Became(r, s, status, unknown) ==
    s.status = status /\ s.key = r.key /\ s.outcome_unknown = unknown

\* What expiry and the abandoned-dispatch rule may do to a row.
Swept(r, s) ==
    \/ Kept(r, s)
    \/ r.status \in {"dispatching", "running"} /\ Became(r, s, "failed", TRUE)
    \/ r.status = "queued" /\ Became(r, s, "failed", FALSE)

\* What the failing updates leave in a row.
LEMMA FailedFacts ==
    ASSUME NEW r \in Row, NEW unknown \in BOOLEAN
    PROVE  /\ Became(r, Failed(r, unknown), "failed", unknown)
           /\ Became(r, Expired(r, unknown), "failed", unknown)
           /\ Became(r, Completed(r), "completed", r.outcome_unknown)
<1>1. Failed(r, unknown) \in Row
  BY FailedType
<1>2. Became(r, Failed(r, unknown), "failed", unknown)
  BY DEF Became, Failed, Fresh
<1>3. Became(r, Expired(r, unknown), "failed", unknown)
  BY <1>1, <1>2 DEF Became, Expired, Row
<1>4. Became(r, Completed(r), "completed", r.outcome_unknown)
  BY DEF Became, Completed, Fresh
<1> QED
  BY <1>2, <1>3, <1>4

\* What the updates of the dispatch lane leave in a row.
LEMMA ClaimFacts ==
    ASSUME NEW r \in Row
    PROVE  /\ Became(r, Claimed(r), "dispatching", r.outcome_unknown) /\ Claimed(r).claim_token
           /\ Became(r, Released(r), "queued", r.outcome_unknown)
           /\ Became(r, Running(r), "running", r.outcome_unknown)
<1>1. Became(r, Claimed(r), "dispatching", r.outcome_unknown) /\ Claimed(r).claim_token
  BY DEF Became, Claimed, Row
<1>2. Became(r, Released(r), "queued", r.outcome_unknown)
  BY DEF Became, Released, Row
<1>3. Became(r, Running(r), "running", r.outcome_unknown)
  BY DEF Became, Running, Row
<1> QED
  BY <1>1, <1>2, <1>3

\* Scheduling a poll and the passing of time change no status, key or outcome.
LEMMA KeptFacts ==
    ASSUME NEW r \in Row, NEW errors, NEW delay
    PROVE  Kept(r, Aged(r)) /\ Kept(r, Rescheduled(r, errors, delay))
<1>1. Kept(r, Aged(r))
  BY DEF Kept, Aged, Row
<1>2. Kept(r, Rescheduled(r, errors, delay))
  BY DEF Kept, Rescheduled, Row
<1> QED
  BY <1>1, <1>2

\* A sweep never returns a row to the queue, and never settles as known a row
\* that a coroutine may have sent a request for.
LEMMA SweptFacts ==
    ASSUME NEW r \in Row, NEW j
    PROVE  /\ Swept(r, r)
           /\ Swept(r, FailAbandoned(r))
           /\ Swept(r, FailExpired(j, FailAbandoned(r)))
<1>1. ASSUME NEW s \in Row PROVE Kept(s, s)
  BY DEF Kept
<1>2. \/ FailAbandoned(r) = r
      \/ r.status = "dispatching" /\ Became(r, FailAbandoned(r), "failed", TRUE)
  BY FailedFacts DEF FailAbandoned
<1>3. \/ FailExpired(j, r) = r
      \/ r.status = "queued" /\ Became(r, FailExpired(j, r), "failed", FALSE)
      \/ r.status = "running" /\ Became(r, FailExpired(j, r), "failed", TRUE)
  BY FailedFacts DEF FailExpired
<1>4. \/ FailAbandoned(r) = r
      \/ FailExpired(j, FailAbandoned(r)) = FailAbandoned(r)
  BY <1>2 DEF FailExpired, Became
<1>5. Swept(r, r)
  BY <1>1 DEF Swept
<1>6. Swept(r, FailAbandoned(r))
  BY <1>2, <1>5 DEF Swept
<1>7. Swept(r, FailExpired(j, r))
  BY <1>3, <1>5 DEF Swept
<1> QED
  BY <1>4, <1>5, <1>6, <1>7

-----------------------------------------------------------------------------
(* The inductive invariant.                                                *)

\* A step that leaves keys and requests alone keeps the keys in step.
LEMMA KeyFrame ==
    ASSUME KeyInv, \A i \in Job : job'[i].key = job[i].key, UNCHANGED <<sent, spent>>
    PROVE  KeyInv'
BY DEF KeyInv

\* A step that leaves what the invariant reads of job i alone.
LEMMA JobFrame ==
    ASSUME NEW i \in Job, JobInv(i), Kept(job[i], job'[i]), task'[i].phase = task[i].phase,
           call'[i] = call[i], sent'[i] = sent[i], crashes' = crashes,
           polling \in [Job -> Nat], polling'[i] \in {polling[i], polling[i] - 1}
    PROVE  JobInv(i)'
BY DEF JobInv, Kept

\* A step that only applies the lifecycle rules keeps a job's invariant.
LEMMA SweepFrame ==
    ASSUME TypeOK, NEW i \in Job, JobInv(i), Swept(job[i], job'[i]),
           UNCHANGED <<task, polling, call, sent, crashes>>
    PROVE  JobInv(i)' /\ job'[i].key = job[i].key
<1>1. CASE Kept(job[i], job'[i])
  BY <1>1, JobFrame DEF Kept, TypeOK
<1>2. CASE job[i].status \in {"dispatching", "running"} /\ Became(job[i], job'[i], "failed", TRUE)
  BY <1>2 DEF JobInv, Became
<1>3. CASE job[i].status = "queued" /\ Became(job[i], job'[i], "failed", FALSE)
  BY <1>3 DEF JobInv, Became
<1> QED
  BY <1>1, <1>2, <1>3 DEF Swept

\* The end of a live coroutine: its row either still is its own, and moves, or
\* was already settled as unknown, and stays.
LEMMA FinishFrame ==
    ASSUME TypeOK, \A i \in Job : JobInv(i), NEW j \in Job, task[j].phase # "idle",
           NEW statuses, "dispatching" \in statuses, "failed" \notin statuses,
           NEW r, NEW status, NEW unknown, Finish(j, statuses, r),
           Became(job[j], r, status, unknown),
           status \in {"queued", "running", "completed", "failed"},
           status = "queued" => sent[j] = 0 /\ call[j] = "none",
           status = "failed" /\ ~unknown /\ j \in Video
             => call[j] \in {"none", "refused", "broken"},
           UNCHANGED <<polling, call, sent, crashes>>
    PROVE  \A i \in Job : JobInv(i)' /\ job'[i].key = job[i].key
<1> SUFFICES ASSUME NEW i \in Job PROVE JobInv(i)' /\ job'[i].key = job[i].key
  OBVIOUS
<1>1. job \in [Job -> Row] /\ task \in [Job -> Task] /\ Idle.phase = "idle"
  BY DEF TypeOK, Idle
<1>2. CASE i # j
  <2>1. job'[i] = job[i] /\ task'[i] = task[i]
    BY <1>1, <1>2 DEF Finish
  <2> QED
    BY <2>1 DEF JobInv
<1>3. CASE i = j /\ Owns(j, statuses)
  <2>1. job'[j] = r /\ task'[j].phase = "idle"
    BY <1>1, <1>3 DEF Finish
  <2>2. job[j].status = "dispatching" /\ ~ polling[j] > 0
    BY <1>3 DEF JobInv, Owns
  <2> QED
    BY <1>3, <2>1, <2>2 DEF JobInv, Became
<1>4. CASE i = j /\ ~Owns(j, statuses)
  <2>1. job'[j] = job[j] /\ task'[j].phase = "idle"
    BY <1>1, <1>4 DEF Finish
  <2>2. job[j].status = "failed" /\ job[j].outcome_unknown
    BY <1>4 DEF JobInv, Owns
  <2> QED
    BY <1>4, <2>1, <2>2 DEF JobInv
<1> QED
  BY <1>2, <1>3, <1>4

\* The end of a poll: only a running row moves.
LEMMA PollFrame ==
    ASSUME TypeOK, \A i \in Job : JobInv(i), NEW j \in Job, PollEnds(j),
           NEW statuses, statuses \subseteq Active,
           NEW r, NEW status, NEW unknown, PollFinish(j, statuses, r),
           Became(job[j], r, status, unknown), status \in {"completed", "failed"},
           status = "failed" /\ ~unknown => call[j] = "broken"
    PROVE  \A i \in Job : JobInv(i)' /\ job'[i].key = job[i].key
<1> SUFFICES ASSUME NEW i \in Job PROVE JobInv(i)' /\ job'[i].key = job[i].key
  OBVIOUS
<1>1. job \in [Job -> Row] /\ UNCHANGED <<task, call, sent, crashes>>
      /\ polling \in [Job -> Nat] /\ polling'[i] \in {polling[i], polling[i] - 1}
  BY DEF TypeOK, PollEnds
<1>2. CASE i # j \/ job[j].status \notin statuses
  <2>1. job'[i] = job[i]
    BY <1>1, <1>2 DEF PollFinish
  <2> QED
    BY <1>1, <2>1 DEF JobInv
<1>3. CASE i = j /\ job[j].status \in statuses
  <2>1. job'[j] = r
    BY <1>1, <1>3 DEF PollFinish
  <2>2. job[j].status = "running"
    BY <1>3 DEF JobInv, PollEnds, Active
  <2> QED
    BY <1>1, <1>3, <2>1, <2>2 DEF JobInv, Became
<1> QED
  BY <1>2, <1>3

\* Failing a row again as unknown leaves what the invariant reads of it.
LEMMA RefailFacts ==
    ASSUME TypeOK, NEW j \in Job, NEW unknown \in BOOLEAN
    PROVE  Became(job[j], Failed(job[j], unknown), "failed", unknown)
BY FailedFacts DEF TypeOK

\* One step of a dispatch coroutine.
LEMMA DispatchInv ==
    ASSUME TypeOK, \A i \in Job : JobInv(i), KeyInv, NEW j \in Job, Dispatch(j)
    PROVE  (\A i \in Job : JobInv(i)') /\ KeyInv'
<1>0. job[j] \in Row
  BY DEF TypeOK
<1> DEFINE Ended == UNCHANGED <<polling, call, sent, spent, up, crashes>>
           Goal == (\A i \in Job : JobInv(i)') /\ KeyInv'
<1>1. ASSUME NEW unknown \in BOOLEAN, task[j].phase # "idle", FinishFailed(j, unknown), Ended,
             ~unknown /\ j \in Video => call[j] \in {"none", "refused", "broken"}
      PROVE  Goal
  <2>1. "dispatching" \in Active /\ "failed" \notin Active
    BY DEF Active
  <2>2. \A i \in Job : JobInv(i)' /\ job'[i].key = job[i].key
    BY <1>1, <2>1, RefailFacts, FinishFrame DEF FinishFailed
  <2> QED
    BY <2>2, <1>1, KeyFrame
<1>2. ASSUME NEW i \in Job, UNCHANGED <<job, call, sent, crashes, polling>>,
             task'[i].phase = task[i].phase
      PROVE  JobInv(i)'
  BY <1>2 DEF JobInv
<1>3. CASE ReleaseClaim(j)
  <2>1. task[j].phase = "start" /\ sent[j] = 0 /\ call[j] = "none"
    BY <1>3 DEF ReleaseClaim, JobInv
  <2>2. Became(job[j], Released(job[j]), "queued", job[j].outcome_unknown)
    BY <1>0, ClaimFacts
  <2>3. \A i \in Job : JobInv(i)' /\ job'[i].key = job[i].key
    BY <1>3, <2>1, <2>2, FinishFrame DEF ReleaseClaim
  <2> QED
    BY <2>3, <1>3, KeyFrame DEF ReleaseClaim
<1>4. CASE RejectUnroutable(j)
  <2>1. task[j].phase = "start" /\ call[j] = "none"
    BY <1>4 DEF RejectUnroutable, JobInv
  <2> QED
    BY <2>1, <1>4, <1>1 DEF RejectUnroutable
<1>5. CASE \E n \in 0..MaxPrepare : Route(j, n)
  <2>1. PICK n \in 0..MaxPrepare : Route(j, n)
    BY <1>5
  <2>2. task[j].phase = "start" /\ task'[j].phase = "prepare"
    BY <2>1 DEF Route, TypeOK
  <2>3. JobInv(j)'
    BY <2>1, <2>2 DEF Route, JobInv
  <2>4. ASSUME NEW i \in Job, i # j PROVE JobInv(i)'
    BY <2>1, <2>4, <1>2 DEF Route, TypeOK
  <2> QED
    BY <2>1, <2>3, <2>4, KeyFrame DEF Route
<1>6. CASE PrepareStep(j)
  <2>1. \A i \in Job : task'[i].phase = task[i].phase
    BY <1>6 DEF PrepareStep, TypeOK, Task
  <2> QED
    BY <2>1, <1>6, <1>2, KeyFrame DEF PrepareStep
<1>7. CASE PrepareFails(j)
  <2>1. task[j].phase = "prepare" /\ call[j] = "none"
    BY <1>7 DEF PrepareFails, JobInv
  <2> QED
    BY <2>1, <1>7, <1>1 DEF PrepareFails
<1>8. CASE SendCall(j)
  <2>1. task[j].phase = "prepare" /\ sent[j] = 0
    BY <1>8 DEF SendCall, JobInv
  <2>2. /\ task'[j].phase = "calling" /\ call'[j] = "asked" /\ sent'[j] = 1
        /\ \A i \in Job : i # j => task'[i] = task[i] /\ call'[i] = call[i] /\ sent'[i] = sent[i]
        /\ UNCHANGED <<job, polling, crashes>>
    BY <1>8, <2>1 DEF SendCall, TypeOK, Task
  <2>3. JobInv(j)'
    BY <2>1, <2>2 DEF JobInv
  <2>4. ASSUME NEW i \in Job, i # j PROVE JobInv(i)'
    BY <2>2, <2>4 DEF JobInv
  <2>5. KeyInv'
    <3>1. \A i, l \in Job : job'[i].key = job'[l].key /\ job'[i].key # NoKey => i = l
      BY <2>2 DEF KeyInv
    <3>2. ASSUME NEW k \in Key, k # job[j].key
          PROVE  spent'[k] <= 1 /\ (spent'[k] > 0 => \E i \in Job : job'[i].key = k /\ sent'[i] = 1)
      <4>1. spent'[k] = spent[k]
        BY <1>8, <3>2 DEF SendCall, TypeOK
      <4> QED
        BY <4>1, <3>2, <2>2 DEF KeyInv
    <3>3. ASSUME NEW k \in Key, k = job[j].key
          PROVE  spent'[k] <= 1 /\ (spent'[k] > 0 => \E i \in Job : job'[i].key = k /\ sent'[i] = 1)
      <4>1. ~ \E i \in Job : job[i].key = k /\ sent[i] = 1
        BY <3>3, <2>1, JobAssumption DEF KeyInv
      <4>2. spent[k] = 0
        BY <4>1 DEF KeyInv, TypeOK
      <4>3. spent'[k] = 1
        BY <1>8, <3>3, <4>2 DEF SendCall, TypeOK
      <4> QED
        BY <4>3, <3>3, <2>2
    <3> QED
      BY <3>1, <3>2, <3>3 DEF KeyInv
  <2> QED
    BY <2>3, <2>4, <2>5
<1>9. CASE CallSucceeds(j)
  <2>1. Became(job[j], Running(job[j]), "running", job[j].outcome_unknown)
    BY <1>0, ClaimFacts
  <2>2. Became(job[j], Completed(job[j]), "completed", job[j].outcome_unknown)
    BY <1>0, FailedFacts
  <2>3. CASE j \in Video
    <3>1. \A i \in Job : JobInv(i)' /\ job'[i].key = job[i].key
      BY <1>9, <2>1, <2>3, FinishFrame DEF CallSucceeds
    <3> QED
      BY <3>1, <1>9, KeyFrame DEF CallSucceeds
  <2>4. CASE j \notin Video
    <3>1. \A i \in Job : JobInv(i)' /\ job'[i].key = job[i].key
      BY <1>9, <2>2, <2>4, FinishFrame DEF CallSucceeds
    <3> QED
      BY <3>1, <1>9, KeyFrame DEF CallSucceeds
  <2> QED
    BY <2>3, <2>4
<1>10. CASE CallUnusable(j)
  <2>1. PICK unknown \in BOOLEAN : FinishFailed(j, unknown) /\ (j \in Video => unknown)
    BY <1>10 DEF CallUnusable
  <2> QED
    BY <2>1, <1>10, <1>1 DEF CallUnusable
<1>11. CASE CallRefused(j)
  BY <1>11, <1>1 DEF CallRefused
<1>12. CASE CallLost(j)
  BY <1>12, <1>1 DEF CallLost
<1> QED
  BY <1>3, <1>4, <1>5, <1>6, <1>7, <1>8, <1>9, <1>10, <1>11, <1>12 DEF Dispatch

\* One step of a poll lane.
LEMMA PollInv ==
    ASSUME TypeOK, \A i \in Job : JobInv(i), KeyInv, NEW j \in Job, Poll(j)
    PROVE  (\A i \in Job : JobInv(i)') /\ KeyInv'
<1>0. job \in [Job -> Row]
  BY DEF TypeOK
<1>1. ASSUME \A i \in Job : JobInv(i)' /\ job'[i].key = job[i].key, UNCHANGED <<sent, spent>>
      PROVE  (\A i \in Job : JobInv(i)') /\ KeyInv'
  BY <1>1, KeyFrame
<1>2. ASSUME PollEnds(j), NEW errors, NEW delay, SchedulePoll(j, errors, delay)
      PROVE  (\A i \in Job : JobInv(i)') /\ KeyInv'
  <2>1. ASSUME NEW i \in Job PROVE Kept(job[i], job'[i])
    <3>1. job'[i] = job[i] \/ job'[i] = Rescheduled(job[i], errors, delay)
      BY <1>0, <1>2 DEF SchedulePoll
    <3> QED
      BY <1>0, <3>1, KeptFacts DEF Kept
  <2>2. \A i \in Job : JobInv(i)' /\ job'[i].key = job[i].key
    <3>1. /\ polling \in [Job -> Nat] /\ UNCHANGED <<task, call, sent, crashes>>
          /\ \A i \in Job : polling'[i] \in {polling[i], polling[i] - 1}
      BY <1>2 DEF PollEnds, TypeOK
    <3> QED
      BY <3>1, <2>1, JobFrame DEF Kept
  <2> QED
    BY <2>2, <1>1, <1>2 DEF PollEnds
<1>3. CASE ClaimPoll(j)
  <2>1. /\ job[j].status = "running" /\ polling'[j] = 1
        /\ \A i \in Job : i # j => polling'[i] = polling[i]
    <3>1. polling \in [Job -> Nat] /\ ~ polling[j] > 0
      BY <1>3 DEF ClaimPoll, Pollable, Polled, TypeOK
    <3> QED
      BY <3>1, <1>3 DEF ClaimPoll, Pollable
  <2>2. ASSUME NEW i \in Job PROVE Kept(job[i], job'[i])
    <3>1. job'[i] = job[i] \/ job'[i] = Rescheduled(job[i], job[i].errors, PollLease)
      BY <1>0, <1>3 DEF ClaimPoll
    <3> QED
      BY <1>0, <3>1, KeptFacts DEF Kept
  <2>3. ASSUME NEW i \in Job PROVE JobInv(i)' /\ job'[i].key = job[i].key
    BY <1>3, <2>1, <2>2 DEF ClaimPoll, JobInv, Kept
  <2> QED
    BY <2>3, <1>1, <1>3 DEF ClaimPoll
<1>4. CASE PollGivesUp(j)
  BY <1>4, <1>1, RefailFacts, PollFrame DEF PollGivesUp, PollEnds
<1>5. CASE PollError(j)
  BY <1>5, <1>2 DEF PollError
<1>6. CASE PollPending(j)
  BY <1>6, <1>2 DEF PollPending
<1>7. CASE PollCompletes(j)
  <2>1. Became(job[j], Completed(job[j]), "completed", job[j].outcome_unknown)
    BY <1>0, FailedFacts
  <2>2. {"dispatching", "running"} \subseteq Active
    BY DEF Active
  <2>3. \A i \in Job : JobInv(i)' /\ job'[i].key = job[i].key
    BY <1>7, <2>1, <2>2, PollFrame DEF PollCompletes
  <2> QED
    BY <2>3, <1>7, <1>1 DEF PollCompletes, PollEnds
<1>8. CASE PollReportsFailure(j)
  BY <1>8, <1>1, RefailFacts, PollFrame DEF PollReportsFailure, PollEnds
<1> QED
  BY <1>3, <1>4, <1>5, <1>6, <1>7, <1>8 DEF Poll

\* The empty table satisfies the invariant.
LEMMA InvInit == Init => (\A i \in Job : JobInv(i)) /\ KeyInv
<1> SUFFICES ASSUME Init PROVE (\A i \in Job : JobInv(i)) /\ KeyInv
  OBVIOUS
<1>1. \A i \in Job : job[i].status = "none" /\ job[i].key = NoKey
  BY DEF Init, NoRow, Fresh
<1>2. \A i \in Job : JobInv(i)
  BY <1>1 DEF Init, JobInv, Idle
<1>3. KeyInv
  BY <1>1 DEF Init, KeyInv
<1> QED
  BY <1>2, <1>3

\* Every step keeps the invariant.
LEMMA InvStep == IInv /\ [Next]_vars => IInv'
<1> SUFFICES ASSUME TypeOK, \A i \in Job : JobInv(i), KeyInv, [Next]_vars
             PROVE  IInv'
  BY DEF IInv
<1>1. TypeOK'
  BY TypeStep
<1>2. ASSUME (\A i \in Job : JobInv(i)') /\ KeyInv'
      PROVE  IInv'
  BY <1>1, <1>2 DEF IInv
<1>3. job \in [Job -> Row]
  BY DEF TypeOK
<1>4. ASSUME \A i \in Job : Swept(job[i], job'[i]),
             UNCHANGED <<task, polling, call, sent, spent, crashes>>
      PROVE  IInv'
  <2>1. \A i \in Job : JobInv(i)' /\ job'[i].key = job[i].key
    BY <1>4, SweepFrame
  <2> QED
    BY <2>1, <1>4, <1>2, KeyFrame
<1>5. ASSUME NEW j \in Job, NEW k \in Key \cup {NoKey}, Enqueue(j, k)
      PROVE  IInv'
  <2>1. /\ job[j].status = "none" /\ job'[j] = Fresh("queued", k, FALSE)
        /\ \A i \in Job : i # j => job'[i] = FailAbandoned(job[i])
        /\ UNCHANGED <<task, polling, call, sent, spent, crashes>>
    BY <1>5, <1>3 DEF Enqueue
  <2>2. job'[j].status = "queued" /\ job'[j].key = k
    BY <2>1 DEF Fresh
  <2>3. \A i \in Job : i # j => Swept(job[i], job'[i])
    BY <2>1, <1>3, SweptFacts
  <2>4. \A i \in Job : i # j => JobInv(i)' /\ job'[i].key = job[i].key
    BY <2>1, <2>3, SweepFrame
  <2>5. JobInv(j)'
    BY <2>1, <2>2 DEF JobInv
  <2>6. KeyInv'
    <3>1. \A i, l \in Job : job'[i].key = job'[l].key /\ job'[i].key # NoKey => i = l
      <4>1. k # NoKey => \A i \in Job : job[i].key # k
        BY <1>5 DEF Enqueue
      <4>2. \A i, l \in Job : job[i].key = job[l].key /\ job[i].key # NoKey => i = l
        BY DEF KeyInv
      <4>3. \A i \in Job : i # j => job'[i].key = job[i].key
        BY <2>4
      <4> QED
        BY <4>1, <4>2, <4>3, <2>2
    <3>2. sent[j] = 0
      BY <2>1 DEF JobInv
    <3>3. \A k2 \in Key : spent'[k2] <= 1 /\
             (spent'[k2] > 0 => \E i \in Job : job'[i].key = k2 /\ sent'[i] = 1)
      BY <2>1, <2>4, <3>2 DEF KeyInv
    <3> QED
      BY <3>1, <3>3 DEF KeyInv
  <2> QED
    BY <2>4, <2>5, <2>6, <1>2
<1>6. ASSUME NEW j \in Job, GetJob(j)
      PROVE  IInv'
  BY <1>6, <1>3, <1>4, SweptFacts DEF GetJob
<1>7. ASSUME NEW j \in Job, Upstream(j)
      PROVE  IInv'
  <2>1. UNCHANGED <<job, task, polling, sent, spent, crashes>>
    BY <1>7 DEF Upstream
  <2>2. /\ \A i \in Job : i # j => call'[i] = call[i]
        /\ call[j] \in {"asked", "accepted"} /\ call'[j] # "none"
    BY <1>7 DEF Upstream, TypeOK
  <2>3. \A i \in Job : JobInv(i)'
    BY <2>1, <2>2 DEF JobInv
  <2> QED
    BY <2>1, <2>3, <1>2, KeyFrame
<1>8. ASSUME NEW batch \in SUBSET Job, ClaimBatch(batch)
      PROVE  IInv'
  <2>1. ASSUME NEW i \in batch
        PROVE  /\ Became(job[i], job'[i], "dispatching", job[i].outcome_unknown)
               /\ job'[i].claim_token /\ job[i].status = "queued"
               /\ task'[i].phase = "start"
    BY <1>8, <1>3, ClaimFacts DEF ClaimBatch, Claimable, Idle
  <2>2. \A i \in Job \ batch : job'[i] = job[i] /\ task'[i] = task[i]
    BY <1>8, <1>3 DEF ClaimBatch
  <2>3. UNCHANGED <<polling, call, sent, spent, crashes>>
    BY <1>8 DEF ClaimBatch
  <2>4. \A i \in Job : JobInv(i)' /\ job'[i].key = job[i].key
    BY <2>1, <2>2, <2>3 DEF JobInv, Became
  <2> QED
    BY <2>3, <2>4, <1>2, KeyFrame
<1>9. ASSUME NEW gone \in SUBSET Job, Prune(gone)
      PROVE  IInv'
  <2>1. ASSUME NEW i \in gone
        PROVE  /\ job'[i].status = "pruned" /\ job'[i].key = job[i].key
               /\ job[i].status \in Terminal /\ ~job[i].outcome_unknown
    BY <1>9 DEF Prune, Fresh
  <2>2. \A i \in Job \ gone : job'[i] = job[i]
    BY <1>9, <1>3 DEF Prune
  <2>3. UNCHANGED <<task, polling, call, sent, spent, crashes>>
    BY <1>9 DEF Prune
  <2>4. \A i \in Job : JobInv(i)' /\ job'[i].key = job[i].key
    BY <2>1, <2>2, <2>3 DEF JobInv, Terminal
  <2> QED
    BY <2>3, <2>4, <1>2, KeyFrame
<1>10. CASE Maintain
  BY <1>10, <1>3, <1>4, SweptFacts DEF Maintain
<1>11. CASE Crash
  <2>1. \A i \in Job : task'[i].phase = "idle"
    BY <1>11 DEF Crash, Idle
  <2>2. UNCHANGED <<job, call, sent, spent>> /\ crashes' # 0
        /\ \A i \in Job : polling'[i] = 0
    BY <1>11, TimeAssumption DEF Crash, TypeOK
  <2>3. \A i \in Job : JobInv(i)'
    BY <2>1, <2>2 DEF JobInv
  <2> QED
    BY <2>2, <2>3, <1>2, KeyFrame
<1>12. CASE Start
  BY <1>12, <1>3, <1>4, SweptFacts DEF Start
<1>13. CASE Tick
  <2>1. \A i \in Job : Kept(job[i], job'[i]) /\ task'[i].phase = task[i].phase
    BY <1>13, <1>3, KeptFacts DEF Tick, TypeOK, Task
  <2>2. UNCHANGED <<polling, call, sent, spent, crashes>>
    BY <1>13 DEF Tick
  <2>3. \A i \in Job : JobInv(i)' /\ job'[i].key = job[i].key
    BY <2>1, <2>2, JobFrame DEF Kept, TypeOK
  <2> QED
    BY <2>2, <2>3, <1>2, KeyFrame
<1>14. CASE UNCHANGED vars
  <2>1. \A i \in Job : JobInv(i)'
    BY <1>14 DEF vars, JobInv
  <2> QED
    BY <2>1, <1>14, <1>2, KeyFrame DEF vars
<1> QED
  BY <1>2, <1>5, <1>6, <1>7, <1>8, <1>9, <1>10, <1>11, <1>12, <1>13, <1>14,
     DispatchInv, PollInv DEF Next

\* The rows, coroutines, requests and keys stay in step in every reachable state.
THEOREM Invariant == Spec => []IInv
<1>1. Init => IInv
  BY TypeInit, InvInit DEF IInv
<1> QED
  BY <1>1, InvStep, PTL DEF Spec

\* No schedule of lanes, crashes, expiry and late answers sends a second
\* generation request for a job or for an idempotency key.
THEOREM PaidOnce == Spec => []PaidAtMostOnce
<1>1. IInv => PaidAtMostOnce
  BY DEF IInv, JobInv, KeyInv, PaidAtMostOnce
<1> QED
  BY <1>1, Invariant, PTL

\* A video job reported as failed for sure was never taken, or was reported broken.
THEOREM Honest == Spec => []HonestFailure
<1>1. IInv => HonestFailure
  BY JobAssumption DEF IInv, JobInv, HonestFailure
<1> QED
  BY <1>1, Invariant, PTL

\* A live coroutine's row is its own or already reported as uncertain, and
\* without a crash no dispatching row is left without its coroutine.
THEOREM Owned == Spec => []DispatchOwned
<1>1. IInv => DispatchOwned
  BY DEF IInv, JobInv, DispatchOwned
<1> QED
  BY <1>1, Invariant, PTL

-----------------------------------------------------------------------------
(* What one step may do to one job.                                        *)

Leaves(i, from, status, unknown) ==
    /\ job[i].status \in from
    /\ Became(job[i], job'[i], status, unknown)
    /\ sent'[i] = sent[i]

RowStep(i) ==
    \/ Swept(job[i], job'[i]) /\ sent'[i] = sent[i]
    \/ /\ Kept(job[i], job'[i])
       /\ \/ job[i].status = "dispatching"
          \/ job[i].status = "failed" /\ job[i].outcome_unknown
       /\ sent[i] = 0 /\ sent'[i] = 1
    \/ /\ job[i].status = "none" /\ job'[i].status = "queued"
       /\ sent'[i] = sent[i]
    \/ Leaves(i, {"queued"}, "dispatching", job[i].outcome_unknown)
    \/ Leaves(i, {"dispatching"}, "queued", job[i].outcome_unknown) /\ sent[i] = 0
    \/ Leaves(i, {"dispatching"}, "running", job[i].outcome_unknown)
    \/ Leaves(i, {"dispatching", "running"}, "completed", job[i].outcome_unknown) /\ sent[i] = 1
    \/ \E unknown \in BOOLEAN : Leaves(i, {"dispatching", "running"}, "failed", unknown)
    \/ /\ job[i].status \in Terminal /\ ~job[i].outcome_unknown /\ job[i].key = NoKey
       /\ job'[i].status = "pruned" /\ sent'[i] = sent[i]

\* A row that a step leaves alone has not moved along the lifecycle.
LEMMA StillRow ==
    ASSUME NEW i \in Job, TypeOK, job'[i] = job[i], sent'[i] = sent[i]
    PROVE  RowStep(i)
<1>1. Swept(job[i], job'[i])
  BY SweptFacts DEF TypeOK
<1> QED
  BY <1>1 DEF RowStep

\* The end of a coroutine moves its row from "dispatching", or not at all.
LEMMA FinishRow ==
    ASSUME TypeOK, NEW j \in Job, JobInv(j), task[j].phase # "idle",
           NEW statuses, "failed" \notin statuses, NEW r, Finish(j, statuses, r), sent' = sent,
           NEW i \in Job
    PROVE  RowStep(i) \/ (i = j /\ job[j].status = "dispatching" /\ job'[j] = r)
<1>1. job'[i] = job[i] \/ (i = j /\ Owns(j, statuses) /\ job'[j] = r)
  BY DEF Finish, TypeOK
<1>2. Owns(j, statuses) => job[j].status = "dispatching"
  BY DEF Owns, JobInv
<1> QED
  BY <1>1, <1>2, StillRow

\* A step of a dispatch coroutine moves its row along the lifecycle, and no other.
LEMMA DispatchRow ==
    ASSUME TypeOK, \A i \in Job : JobInv(i), NEW j \in Job, Dispatch(j), NEW i \in Job
    PROVE  RowStep(i)
<1>0. job[j] \in Row
  BY DEF TypeOK
<1>1. ASSUME UNCHANGED <<job, sent>> PROVE RowStep(i)
  BY <1>1, StillRow
<1>2. ASSUME NEW unknown \in BOOLEAN, task[j].phase # "idle", FinishFailed(j, unknown), sent' = sent
      PROVE  RowStep(i)
  <2>1. "failed" \notin Active
    BY DEF Active
  <2>2. RowStep(i) \/ (i = j /\ job[j].status = "dispatching" /\ job'[j] = Failed(job[j], unknown))
    BY <1>2, <2>1, FinishRow DEF FinishFailed
  <2>3. Became(job[j], Failed(job[j], unknown), "failed", unknown)
    BY RefailFacts
  <2>4. Leaves(i, {"dispatching", "running"}, "failed", unknown) => RowStep(i)
    BY DEF RowStep
  <2> QED
    BY <2>2, <2>3, <2>4, <1>2 DEF Leaves
<1>3. CASE ReleaseClaim(j)
  <2>1. task[j].phase = "start" /\ sent[j] = 0
    BY <1>3 DEF ReleaseClaim, JobInv
  <2>2. RowStep(i) \/ (i = j /\ job[j].status = "dispatching" /\ job'[j] = Released(job[j]))
    BY <1>3, <2>1, FinishRow DEF ReleaseClaim
  <2>3. Became(job[j], Released(job[j]), "queued", job[j].outcome_unknown)
    BY <1>0, ClaimFacts
  <2> QED
    BY <1>3, <2>1, <2>2, <2>3 DEF ReleaseClaim, RowStep, Leaves
<1>4. CASE RejectUnroutable(j)
  BY <1>4, <1>2 DEF RejectUnroutable
<1>5. CASE (\E n \in 0..MaxPrepare : Route(j, n)) \/ PrepareStep(j)
  BY <1>5, <1>1 DEF Route, PrepareStep
<1>6. CASE PrepareFails(j)
  BY <1>6, <1>2 DEF PrepareFails
<1>7. CASE SendCall(j)
  <2>1. \/ job[j].status = "dispatching"
        \/ job[j].status = "failed" /\ job[j].outcome_unknown
    BY <1>7 DEF SendCall, JobInv
  <2>2. sent[j] = 0 /\ sent'[j] = 1 /\ job' = job
    BY <1>7 DEF SendCall, JobInv, TypeOK
  <2>3. i # j => sent'[i] = sent[i]
    BY <1>7 DEF SendCall, TypeOK
  <2>4. Kept(job[j], job'[j])
    BY <2>2 DEF Kept
  <2>5. RowStep(j)
    BY <2>1, <2>2, <2>4 DEF RowStep
  <2>6. CASE i # j
    BY <2>2, <2>3, <2>6, StillRow
  <2> QED
    BY <2>5, <2>6
<1>8. CASE CallSucceeds(j)
  <2>1. task[j].phase = "calling" /\ sent[j] = 1 /\ sent' = sent
    BY <1>8 DEF CallSucceeds, JobInv
  <2>2. Became(job[j], Running(job[j]), "running", job[j].outcome_unknown)
        /\ Became(job[j], Completed(job[j]), "completed", job[j].outcome_unknown)
    BY <1>0, ClaimFacts, FailedFacts
  <2>3. \/ RowStep(i)
        \/ i = j /\ job[j].status = "dispatching" /\ job'[j] = Running(job[j])
        \/ i = j /\ job[j].status = "dispatching" /\ job'[j] = Completed(job[j])
    <3>1. CASE j \in Video
      BY <1>8, <2>1, <3>1, FinishRow DEF CallSucceeds
    <3>2. CASE j \notin Video
      BY <1>8, <2>1, <3>2, FinishRow DEF CallSucceeds
    <3> QED
      BY <3>1, <3>2
  <2> QED
    BY <2>1, <2>2, <2>3 DEF RowStep, Leaves
<1>9. CASE CallUnusable(j)
  BY <1>9, <1>2 DEF CallUnusable
<1>10. CASE CallRefused(j)
  BY <1>10, <1>2 DEF CallRefused
<1>11. CASE CallLost(j)
  BY <1>11, <1>2 DEF CallLost
<1> QED
  BY <1>3, <1>4, <1>5, <1>6, <1>7, <1>8, <1>9, <1>10, <1>11 DEF Dispatch

\* A step of a poll lane moves its row along the lifecycle, and no other.
LEMMA PollRow ==
    ASSUME TypeOK, \A i \in Job : JobInv(i), NEW j \in Job, Poll(j), NEW i \in Job
    PROVE  RowStep(i)
<1>0. job \in [Job -> Row] /\ job[j] \in Row /\ sent' = sent
  BY DEF TypeOK, Poll, ClaimPoll, PollEnds, PollGivesUp, PollError, PollPending,
         PollCompletes, PollReportsFailure
<1>1. ASSUME NEW errors, NEW delay,
             job'[i] = job[i] \/ job'[i] = Rescheduled(job[i], errors, delay)
      PROVE  RowStep(i)
  <2>1. Kept(job[i], job'[i])
    BY <1>0, <1>1, KeptFacts DEF Kept
  <2> QED
    BY <1>0, <2>1 DEF RowStep, Swept
<1>2. ASSUME NEW statuses, statuses \subseteq Active, NEW r, PollEnds(j), PollFinish(j, statuses, r)
      PROVE  RowStep(i) \/ (i = j /\ job[j].status = "running" /\ job'[j] = r)
  <2>1. job'[i] = job[i] \/ (i = j /\ job[j].status \in statuses /\ job'[j] = r)
    BY <1>0, <1>2 DEF PollFinish
  <2>2. job[j].status \in statuses => job[j].status = "running"
    BY <1>2 DEF JobInv, PollEnds, Active
  <2> QED
    BY <1>0, <2>1, <2>2, StillRow
<1>3. ASSUME NEW unknown \in BOOLEAN, PollEnds(j), PollFinish(j, Active, Failed(job[j], unknown))
      PROVE  RowStep(i)
  <2>1. RowStep(i) \/ (i = j /\ job[j].status = "running" /\ job'[j] = Failed(job[j], unknown))
    BY <1>2, <1>3
  <2>2. Leaves(i, {"dispatching", "running"}, "failed", unknown) => RowStep(i)
    BY DEF RowStep
  <2> QED
    BY <1>0, <2>1, <2>2, RefailFacts DEF Leaves
<1>4. CASE ClaimPoll(j)
  <2>1. job'[i] = job[i] \/ job'[i] = Rescheduled(job[i], job[i].errors, PollLease)
    BY <1>0, <1>4 DEF ClaimPoll
  <2> QED
    BY <2>1, <1>1
<1>5. CASE PollError(j) \/ PollPending(j)
  <2>1. PICK errors, delay : SchedulePoll(j, errors, delay)
    BY <1>5 DEF PollError, PollPending
  <2>2. job'[i] = job[i] \/ job'[i] = Rescheduled(job[i], errors, delay)
    BY <1>0, <2>1 DEF SchedulePoll
  <2> QED
    BY <2>2, <1>1
<1>6. CASE PollCompletes(j)
  <2>1. {"dispatching", "running"} \subseteq Active
    BY DEF Active
  <2>2. RowStep(i) \/ (i = j /\ job[j].status = "running" /\ job'[j] = Completed(job[j]))
    BY <1>6, <1>2, <2>1 DEF PollCompletes
  <2>3. sent[j] = 1
    BY <1>6 DEF PollCompletes, JobInv
  <2>4. Became(job[j], Completed(job[j]), "completed", job[j].outcome_unknown)
    BY <1>0, FailedFacts
  <2>5. CASE job[j].status = "running" /\ job'[j] = Completed(job[j])
    <3>1. Leaves(j, {"dispatching", "running"}, "completed", job[j].outcome_unknown)
      BY <1>0, <2>4, <2>5 DEF Leaves
    <3>2. RowStep(j)
      BY <2>3, <3>1 DEF RowStep
    <3> QED
      BY <2>2, <3>2
  <2> QED
    BY <2>2, <2>5
<1>7. CASE PollGivesUp(j)
  BY <1>7, <1>3 DEF PollGivesUp
<1>8. CASE PollReportsFailure(j)
  BY <1>8, <1>3 DEF PollReportsFailure
<1> QED
  BY <1>4, <1>5, <1>6, <1>7, <1>8 DEF Poll

\* Every step moves every job along the lifecycle, or leaves it.
LEMMA Lifecycle ==
    ASSUME IInv, [Next]_vars
    PROVE  \A i \in Job : RowStep(i)
<1> SUFFICES ASSUME NEW i \in Job PROVE RowStep(i)
  OBVIOUS
<1>1. TypeOK /\ (\A l \in Job : JobInv(l)) /\ job \in [Job -> Row]
  BY DEF IInv, TypeOK
<1>2. ASSUME Swept(job[i], job'[i]), sent' = sent PROVE RowStep(i)
  BY <1>2 DEF RowStep
<1>3. ASSUME NEW j \in Job, NEW k \in Key \cup {NoKey}, Enqueue(j, k) PROVE RowStep(i)
  <2>1. CASE i = j
    <3>1. job'[i].status = "queued" /\ job[i].status = "none" /\ sent' = sent
      BY <1>1, <1>3, <2>1 DEF Enqueue, Fresh
    <3> QED
      BY <3>1 DEF RowStep
  <2>2. CASE i # j
    <3>1. job'[i] = FailAbandoned(job[i]) /\ sent' = sent
      BY <1>1, <1>3, <2>2 DEF Enqueue
    <3> QED
      BY <1>1, <1>2, <3>1, SweptFacts
  <2> QED
    BY <2>1, <2>2
<1>4. ASSUME NEW j \in Job, GetJob(j) PROVE RowStep(i)
  BY <1>1, <1>2, <1>4, SweptFacts DEF GetJob
<1>5. ASSUME NEW j \in Job, Upstream(j) PROVE RowStep(i)
  BY <1>1, <1>5, StillRow DEF Upstream
<1>6. ASSUME NEW batch \in SUBSET Job, ClaimBatch(batch) PROVE RowStep(i)
  <2>1. CASE i \in batch
    <3>1. Leaves(i, {"queued"}, "dispatching", job[i].outcome_unknown)
      BY <1>1, <1>6, <2>1, ClaimFacts DEF ClaimBatch, Claimable, Leaves
    <3> QED
      BY <3>1 DEF RowStep
  <2>2. CASE i \notin batch
    BY <1>1, <1>6, <2>2, StillRow DEF ClaimBatch
  <2> QED
    BY <2>1, <2>2
<1>7. ASSUME NEW gone \in SUBSET Job, Prune(gone) PROVE RowStep(i)
  <2>1. CASE i \in gone
    <3>1. /\ job[i].status \in Terminal /\ ~job[i].outcome_unknown /\ job[i].key = NoKey
          /\ job'[i].status = "pruned" /\ sent'[i] = sent[i]
      BY <1>1, <1>7, <2>1 DEF Prune, Fresh
    <3> QED
      BY <3>1 DEF RowStep
  <2>2. CASE i \notin gone
    BY <1>1, <1>7, <2>2, StillRow DEF Prune
  <2> QED
    BY <2>1, <2>2
<1>8. CASE Maintain
  BY <1>1, <1>2, <1>8, SweptFacts DEF Maintain
<1>9. CASE Crash
  BY <1>1, <1>9, StillRow DEF Crash
<1>10. CASE Start
  BY <1>1, <1>2, <1>10, SweptFacts DEF Start
<1>11. CASE Tick
  <2>1. Kept(job[i], job'[i]) /\ sent' = sent
    BY <1>1, <1>11, KeptFacts DEF Tick
  <2> QED
    BY <2>1, <1>2 DEF Swept
<1>12. CASE UNCHANGED vars
  BY <1>1, <1>12, StillRow DEF vars
<1> QED
  BY <1>1, <1>3, <1>4, <1>5, <1>6, <1>7, <1>8, <1>9, <1>10, <1>11, <1>12,
     DispatchRow, PollRow DEF Next

\* A settled job keeps its outcome until it is pruned, and is pruned only when
\* it has neither a key nor an unknown outcome.
THEOREM Settled == Spec => SettledIsFinal
<1>1. ASSUME IInv, [Next]_vars, NEW j \in Job, job[j].status \in Terminal
      PROVE  \/ /\ job'[j].status = job[j].status
                /\ job'[j].outcome_unknown = job[j].outcome_unknown
             \/ /\ job'[j].status = "pruned"
                /\ job[j].key = NoKey /\ ~job[j].outcome_unknown
  <2>1. RowStep(j)
    BY <1>1, Lifecycle
  <2> QED
    BY <1>1, <2>1 DEF RowStep, Leaves, Swept, Kept, Terminal
<1>2. IInv /\ [Next]_vars =>
        [\A j \in Job : job[j].status \in Terminal =>
           \/ /\ job'[j].status = job[j].status
              /\ job'[j].outcome_unknown = job[j].outcome_unknown
           \/ /\ job'[j].status = "pruned"
              /\ job[j].key = NoKey /\ ~job[j].outcome_unknown]_vars
  BY <1>1
<1> QED
  BY <1>2, Invariant, PTL DEF Spec, SettledIsFinal

-----------------------------------------------------------------------------
(* The client contract.                                                    *)

\* What a client sees of a row depends on its status and outcome alone.
LEMMA PublicFacts ==
    ASSUME NEW r, NEW s
    PROVE  /\ Kept(r, s) => PublicState(s) = PublicState(r)
           /\ r.status = "none" => PublicState(r) = "none"
           /\ r.status = "queued" => PublicState(r) = "queued"
           /\ r.status \in {"dispatching", "running"} => PublicState(r) = "running"
           /\ r.status = "completed" => PublicState(r) = "complete"
           /\ r.status = "failed" /\ r.outcome_unknown => PublicState(r) = "uncertain"
           /\ r.status = "failed" /\ ~r.outcome_unknown => PublicState(r) = "failed"
           /\ r.status = "pruned" => PublicState(r) = "gone"
BY DEF PublicState, Public, Kept

\* A lifecycle step of a job is a step of its contract, or none.
LEMMA ContractRow ==
    ASSUME NEW i \in Job, RowStep(i),
           NEW s, NEW t, NEW n, NEW m,
           s = PublicState(job[i]), t = PublicState(job'[i]), n = sent[i], m = sent'[i]
    PROVE  \/ t = s /\ m = n
           \/ /\ m = n
              /\ \/ s = "none" /\ t = "queued"
                 \/ s = "queued" /\ t = "running"
                 \/ s = "running" /\ t = "queued" /\ n = 0
                 \/ s = "running" /\ t = "complete" /\ n = 1
                 \/ s \in {"queued", "running"} /\ t = "failed"
                 \/ s = "running" /\ t = "uncertain"
                 \/ s \in {"complete", "failed"} /\ t = "gone"
           \/ s \in {"running", "uncertain"} /\ t = s /\ n = 0 /\ m = 1
BY PublicFacts DEF RowStep, Leaves, Swept, Became, Terminal

\* The job table and its worker implement the client contract.
THEOREM Implements == Spec => KeepsContract
<1> DEFINE state == [j \in Job |-> PublicState(job[j])]
<1>1. Init => Contract!Init
  <2>0. Init => \A j \in Job : job[j].status = "none"
    BY DEF Init, NoRow, Fresh
  <2>1. Init => \A j \in Job : PublicState(job[j]) = "none"
    BY <2>0, PublicFacts
  <2> QED
    BY <2>1 DEF Contract!Init, Init
<1>2. IInv /\ [Next]_vars => [Contract!Next]_<<state, sent>>
  <2> SUFFICES ASSUME IInv, [Next]_vars, NEW i \in Job
               PROVE  Contract!Step(i) \/ (state'[i] = state[i] /\ sent'[i] = sent[i])
    BY DEF Contract!Next
  <2>1. RowStep(i)
    BY Lifecycle
  <2>2. state[i] = PublicState(job[i]) /\ state'[i] = PublicState(job'[i])
    OBVIOUS
  <2> HIDE DEF state
  <2> QED
    BY <2>1, <2>2, ContractRow
       DEF Contract!Step, Contract!Move, Contract!Submit, Contract!Begin, Contract!Defer,
           Contract!Succeed, Contract!Fail, Contract!Doubt, Contract!Forget, Contract!Send
<1> QED
  BY <1>1, <1>2, Invariant, PTL DEF Spec, KeepsContract, Contract!Spec
=============================================================================
