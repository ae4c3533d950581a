------------------------------- MODULE Intake -------------------------------
(***************************************************************************)
(* How a generation request becomes a durable job: the capacity check of   *)
(* RequestGuardMiddleware (app/main.py) and Runtime (app/runtime.py), and  *)
(* the idempotent handlers of app/api/generations.py and                   *)
(* app/api/characters.py over the provider_jobs table.                     *)
(*                                                                         *)
(* A handler runs without an await from its key lookup to its insert, so   *)
(* it is one step; the middleware awaits before it, for the body, and      *)
(* after it, for the response.  A job has the name of the request that     *)
(* created it.  What the worker makes of a job is JobLifecycle's business. *)
(***************************************************************************)
EXTENDS Naturals, FiniteSets

CONSTANTS
    Request,        \* bound: the requests clients ever make
    Key, NoKey,     \* Idempotency-Key values, and its absence
    Body,           \* what a client may ask for
    Defaulted,      \* the bodies that leave a field to the character's catalog entry
    Value,          \* the values of that field in the catalog
    Limit,          \* job_queue_max_active
    NoJob

ASSUME IntakeAssumption ==
    /\ NoKey \notin Key /\ NoJob \notin Request
    /\ Defaulted \subseteq Body
    /\ Body # {} /\ Value # {}
    /\ IsFiniteSet(Request)
    /\ Limit \in Nat

VARIABLES
    request,    \* each request: what it asks, where it is, what it was answered
    job,        \* the provider_jobs rows
    pending,    \* Runtime.pending_job_admissions
    character   \* one provider_characters row: deleted, or its current field

vars == <<request, job, pending, character>>

Endpoint == {"plain", "character"}
Deleted == "deleted"
Given == "given"        \* the field is in the body itself

Active == {r \in Request : job[r].status = "active"}

Init ==
    /\ request = [r \in Request |-> [phase |-> "none", endpoint |-> "plain", key |-> NoKey,
                                     body |-> CHOOSE b \in Body : TRUE, reserved |-> FALSE,
                                     answer |-> "none", job |-> NoJob]]
    /\ job = [r \in Request |-> [status |-> "none", key |-> NoKey, payload |-> NoJob]]
    /\ pending = 0
    /\ character \in Value

-----------------------------------------------------------------------------
(* The middleware.                                                         *)

\* Mutant: a key is forgotten once its job has settled.
NamedActive(k) == {r \in Active : k # NoKey /\ job[r].key = k}

\* get_job_by_idempotency_key.
Named(k) == {r \in Request : job[r].status # "none" /\ k # NoKey /\ job[r].key = k}

\* Mutant: requests that are still on their way to the table are not counted.
FitsTable == Cardinality(Active) < Limit

Fits == Cardinality(Active) + pending < Limit

Arrives(r, endpoint, k, body) ==
    request' = [request EXCEPT ![r] = [@ EXCEPT !.endpoint = endpoint, !.key = k, !.body = body,
                  !.phase = IF Named(k) # {} \/ Fits THEN "reading" ELSE "done",
                  !.reserved = Named(k) = {} /\ Fits,
                  !.answer = IF Named(k) # {} \/ Fits THEN "none" ELSE "full"]]

\* try_reserve_job_admission: a key that already has its job is always let through
\* and holds no reservation; any other request takes one, or is refused as JOB_QUEUE_FULL.
Admit(r, endpoint, k, body) ==
    /\ request[r].phase = "none"
    /\ Arrives(r, endpoint, k, body)
    /\ pending' = IF Named(k) = {} /\ Fits THEN pending + 1 ELSE pending
    /\ UNCHANGED <<job, character>>

\* Mutant: a body that is refused leaves its reservation behind.
DropKeeps(r) ==
    /\ request[r].phase = "reading"
    /\ request' = [request EXCEPT ![r].phase = "done", ![r].answer = "refused",
                                  ![r].reserved = FALSE]
    /\ UNCHANGED <<job, pending, character>>

\* Mutant: a request gives back what it never had.
ReleaseAlways(r) == pending' = pending - 1

\* The finally block of the middleware.
ReleaseAdmission(r) == pending' = IF request[r].reserved /\ pending > 0 THEN pending - 1 ELSE pending

\* The body is too large, or the client goes away before it is complete.
Drop(r) ==
    /\ request[r].phase = "reading"
    /\ request' = [request EXCEPT ![r].phase = "done", ![r].answer = "refused",
                                  ![r].reserved = FALSE]
    /\ ReleaseAdmission(r)
    /\ UNCHANGED <<job, character>>

\* The response is sent, or sending it fails.
Respond(r) ==
    /\ request[r].phase = "handled"
    /\ request' = [request EXCEPT ![r].phase = "done", ![r].reserved = FALSE]
    /\ ReleaseAdmission(r)
    /\ UNCHANGED <<job, character>>

-----------------------------------------------------------------------------
(* The handlers.                                                           *)

\* What is compared and stored: generate_character_image and
\* generate_character_video fill in the body from the catalog entry of the moment.
Payload(r) ==
    [endpoint |-> request[r].endpoint, body |-> request[r].body,
     field |-> IF request[r].endpoint = "character" /\ request[r].body \in Defaulted
               THEN character ELSE Given]

Answer(r, what, j) ==
    request' = [request EXCEPT ![r].phase = "handled", ![r].answer = what, ![r].job = j]

HandlerOnly == UNCHANGED <<pending, character>>

\* 404, 409 and 422 for reasons other than the key.
Refuse(r) ==
    /\ request[r].phase = "reading"
    /\ Answer(r, "refused", NoJob)
    /\ HandlerOnly /\ UNCHANGED job

CanServe(r) ==
    /\ request[r].phase = "reading"
    /\ request[r].endpoint = "character" => character # Deleted

\* The key has its job: the same payload gets that job, another one a conflict.
Replay(r) ==
    /\ CanServe(r)
    /\ \E j \in Named(request[r].key) :
         IF job[j].payload = Payload(r) THEN Answer(r, "accepted", j)
                                        ELSE Answer(r, "conflict", NoJob)
    /\ HandlerOnly /\ UNCHANGED job

\* Mutant: the handler goes by the lookup the middleware made.
EnqueueUnchecked(r) ==
    /\ CanServe(r)
    /\ request[r].reserved
    /\ job' = [job EXCEPT ![r] = [status |-> "active", key |-> request[r].key,
                                  payload |-> Payload(r)]]
    /\ Answer(r, "accepted", r)
    /\ HandlerOnly

\* enqueue_job.
Enqueue(r) ==
    /\ CanServe(r)
    /\ Named(request[r].key) = {}
    /\ job' = [job EXCEPT ![r] = [status |-> "active", key |-> request[r].key,
                                  payload |-> Payload(r)]]
    /\ Answer(r, "accepted", r)
    /\ HandlerOnly

-----------------------------------------------------------------------------
(* The rest of the service.                                                *)

\* The worker completes, fails or expires a job.
Settle(j) ==
    /\ job[j].status = "active"
    /\ job' = [job EXCEPT ![j].status = "settled"]
    /\ UNCHANGED <<request, pending, character>>

\* ProjectStore.prune keeps every row with a key.
Forget(j) ==
    /\ job[j].status = "settled" /\ job[j].key = NoKey
    /\ job' = [job EXCEPT ![j].status = "none"]
    /\ UNCHANGED <<request, pending, character>>

\* update_character and soft_delete_character.
EditCharacter(v) ==
    /\ character # Deleted
    /\ character' = v
    /\ UNCHANGED <<request, job, pending>>

\* A restart: requests on their way are lost, and Runtime starts from nothing.
Restart ==
    /\ \E r \in Request : request[r].phase \in {"reading", "handled"}
    /\ request' = [r \in Request |->
                     IF request[r].phase \in {"reading", "handled"}
                     THEN [request[r] EXCEPT !.phase = "done", !.answer = "lost",
                                             !.reserved = FALSE, !.job = NoJob]
                     ELSE request[r]]
    /\ pending' = 0
    /\ UNCHANGED <<job, character>>

Serve(r) == Drop(r) \/ Refuse(r) \/ Replay(r) \/ Enqueue(r) \/ Respond(r)

Next ==
    \/ \E r \in Request :
         \/ \E endpoint \in Endpoint, k \in Key \cup {NoKey}, body \in Body :
              Admit(r, endpoint, k, body)
         \/ Serve(r) \/ Settle(r) \/ Forget(r)
    \/ \E v \in Value \cup {Deleted} : EditCharacter(v)
    \/ Restart

Spec == Init /\ [][Next]_vars
-----------------------------------------------------------------------------
(* Properties.                                                             *)

TypeOK ==
    /\ request \in [Request -> [phase: {"none", "reading", "handled", "done"},
                                endpoint: Endpoint, key: Key \cup {NoKey}, body: Body,
                                reserved: BOOLEAN,
                                answer: {"none", "full", "refused", "accepted", "conflict", "lost"},
                                job: Request \cup {NoJob}]]
    /\ job \in [Request -> [status: {"none", "active", "settled"}, key: Key \cup {NoKey},
                            payload: [endpoint: Endpoint, body: Body, field: Value \cup {Given}]
                                       \cup {NoJob}]]
    /\ pending \in 0..Cardinality(Request)
    /\ character \in Value \cup {Deleted}

\* The backlog never outgrows job_queue_max_active, however many requests are
\* between their admission and their insert.
BacklogBounded == Cardinality(Active) <= Limit

\* A reservation is given back exactly once, whether its request is served,
\* refused, abandoned by the client or lost in a restart: no leak ever closes
\* the queue, and none lets it overflow.
AdmissionsExact == pending = Cardinality({r \in Request : request[r].reserved})

\* "A repeated logical request with the same key and payload returns the existing
\* job" (README.md), even after it has settled, when the two race, or when the
\* first answer was lost: one key, one job.
OneJobPerKey ==
    \A r, s \in Request :
        job[r].status # "none" /\ job[s].status # "none" /\ job[r].key = job[s].key /\ r # s
        => job[r].key = NoKey

\* The same, seen by the clients of the plain endpoints.
ReplayReturnsJob ==
    \A r, s \in Request :
        /\ request[r].endpoint = "plain" /\ request[s].endpoint = "plain"
        /\ request[r].key = request[s].key /\ request[r].key # NoKey
        /\ request[r].body = request[s].body
        /\ request[r].answer = "accepted" /\ request[s].answer \in {"accepted", "conflict"}
        => request[s].job = request[r].job

\* The places taken: jobs, and the requests that may still become one.
Places == Active \cup {r \in Request : request[r].phase = "reading" /\ request[r].reserved}

\* Only a request in flight holds a reservation; one let through without it has
\* its job already; and a job's request has passed its handler.
RequestInv(r) ==
    /\ request[r].reserved => request[r].phase \in {"reading", "handled"}
    /\ request[r].phase = "reading" => request[r].reserved \/ Named(request[r].key) # {}
    /\ job[r].status # "none" => request[r].phase \in {"handled", "done"}
    /\ request[r].answer \in {"accepted", "conflict"} => request[r].phase \in {"handled", "done"}

Plain(body) == [endpoint |-> "plain", body |-> body, field |-> Given]

\* What a plain request with a key was answered agrees with the job of its key.
AnswerInv(r) ==
    request[r].endpoint = "plain" /\ request[r].key # NoKey =>
        /\ request[r].answer = "accepted" =>
             /\ request[r].job \in Named(request[r].key)
             /\ job[request[r].job].payload = Plain(request[r].body)
        /\ request[r].answer = "conflict" =>
             \E j \in Named(request[r].key) : job[j].payload # Plain(request[r].body)

\* The inductive invariant: places are taken before rows are written, and keys,
\* rows and answers agree.
IInv ==
    /\ TypeOK
    /\ AdmissionsExact
    /\ OneJobPerKey
    /\ Cardinality(Places) <= Limit
    /\ \A r \in Request : RequestInv(r) /\ AnswerInv(r)

\* characters.py: the catalog entry "must not make a retry with the same
\* idempotency key conflict after the catalog entry is edited; the original job
\* remains authoritative."
EditKeepsReplay ==
    \A r, s \in Request :
        /\ request[r].endpoint = "character" /\ request[s].endpoint = "character"
        /\ request[r].key = request[s].key /\ request[r].key # NoKey
        /\ request[r].body = request[s].body
        /\ request[r].answer = "accepted"
        => request[s].answer # "conflict"
=============================================================================
