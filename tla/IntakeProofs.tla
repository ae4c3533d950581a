---------------------------- MODULE IntakeProofs ----------------------------
(***************************************************************************)
(* What Intake promises for any number of requests, keys and places: the   *)
(* backlog is bounded, the admission counter exact, a key has one job and  *)
(* a repeated plain request is answered with it.                           *)
(***************************************************************************)
EXTENDS Intake, FiniteSetTheorems, TLAPS

Reserved == {r \in Request : request[r].reserved}

RequestRecord ==
    [phase: {"none", "reading", "handled", "done"}, endpoint: Endpoint, key: Key \cup {NoKey},
     body: Body, reserved: BOOLEAN,
     answer: {"none", "full", "refused", "accepted", "conflict", "lost"},
     job: Request \cup {NoJob}]

PayloadRecord == [endpoint: Endpoint, body: Body, field: Value \cup {Given}]

JobRecord ==
    [status: {"none", "active", "settled"}, key: Key \cup {NoKey},
     payload: PayloadRecord \cup {NoJob}]

-----------------------------------------------------------------------------
(* Counting.                                                               *)

\* Sets of requests are finite, and the two counted sets are such sets.
LEMMA Finite ==
    /\ \A S \in SUBSET Request : IsFiniteSet(S) /\ Cardinality(S) \in Nat
                                 /\ Cardinality(S) <= Cardinality(Request)
    /\ Cardinality(Request) \in Nat
    /\ Reserved \in SUBSET Request /\ Active \in SUBSET Request /\ Places \in SUBSET Request
<1>1. Cardinality(Request) \in Nat
  BY FS_CardinalityType, IntakeAssumption
<1>2. ASSUME NEW S \in SUBSET Request
      PROVE  IsFiniteSet(S) /\ Cardinality(S) \in Nat /\ Cardinality(S) <= Cardinality(Request)
  BY FS_Subset, FS_CardinalityType, IntakeAssumption
<1> QED  BY <1>1, <1>2 DEF Reserved, Active, Places

\* A set of requests has no more members than one that contains it.
LEMMA Smaller ==
    ASSUME NEW S \in SUBSET Request, NEW T \in SUBSET S
    PROVE  Cardinality(T) <= Cardinality(S)
BY Finite, FS_Subset

\* A request joins, or leaves, a set of requests.
LEMMA OneMore ==
    ASSUME NEW S \in SUBSET Request, NEW r \in Request
    PROVE  /\ Cardinality(S \cup {r}) = IF r \in S THEN Cardinality(S) ELSE Cardinality(S) + 1
           /\ Cardinality(S \ {r}) = IF r \in S THEN Cardinality(S) - 1 ELSE Cardinality(S)
           /\ r \in S => Cardinality(S) > 0
<1>1. IsFiniteSet(S) /\ Cardinality(S) \in Nat
  BY Finite
<1>2. r \in S => Cardinality(S) # 0
  BY <1>1, FS_EmptySet
<1>3. Cardinality(S \cup {r}) = IF r \in S THEN Cardinality(S) ELSE Cardinality(S) + 1
  BY <1>1, FS_AddElement
<1>4. Cardinality(S \ {r}) = IF r \in S THEN Cardinality(S) - 1 ELSE Cardinality(S)
  BY <1>1, FS_RemoveElement
<1>5. r \in S => Cardinality(S) > 0
  BY <1>1, <1>2
<1> QED  BY <1>3, <1>4, <1>5

\* Places are counted by the guard of an admission.
LEMMA PlacesCounted ==
    ASSUME TypeOK, AdmissionsExact, Fits
    PROVE  Cardinality(Places) < Limit
<1>1. Places \in SUBSET (Active \cup Reserved)
  BY DEF Places, Reserved
<1>2. Active \cup Reserved \in SUBSET Request
  BY Finite
<1>3. Cardinality(Places) <= Cardinality(Active \cup Reserved)
  BY <1>1, <1>2, Smaller
<1>4. /\ Active \cap Reserved \in SUBSET Request
      /\ Cardinality(Active \cup Reserved)
           = Cardinality(Active) + Cardinality(Reserved) - Cardinality(Active \cap Reserved)
  BY Finite, FS_Union
<1>5. pending = Cardinality(Reserved)
  BY DEF AdmissionsExact, Reserved
<1>6. /\ Cardinality(Active) \in Nat /\ Cardinality(Reserved) \in Nat
      /\ Cardinality(Active \cap Reserved) \in Nat /\ Cardinality(Active \cup Reserved) \in Nat
      /\ Cardinality(Places) \in Nat
  BY <1>2, <1>4, Finite
<1> QED  BY <1>3, <1>4, <1>5, <1>6, IntakeAssumption DEF Fits

-----------------------------------------------------------------------------
(* The types.                                                              *)

\* The initial state is typed.
LEMMA TypeInit == Init => TypeOK
<1> SUFFICES ASSUME Init PROVE TypeOK
  OBVIOUS
<1>1. (CHOOSE b \in Body : TRUE) \in Body
  BY IntakeAssumption
<1>2. pending \in 0..Cardinality(Request)
  BY Finite DEF Init
<1> QED  BY <1>1, <1>2 DEF Init, TypeOK, Endpoint

\* The fields of a typed request, and of a typed row.
LEMMA Fields ==
    ASSUME TypeOK, NEW r \in Request
    PROVE  request[r] \in RequestRecord /\ job[r] \in JobRecord
BY DEF TypeOK, RequestRecord, JobRecord, PayloadRecord

\* Payloads are typed while the catalog entry that may fill them in exists.
LEMMA PayloadTyped ==
    ASSUME TypeOK, NEW r \in Request, CanServe(r)
    PROVE  /\ Payload(r) \in PayloadRecord
           /\ Payload(r).endpoint = request[r].endpoint
           /\ request[r].endpoint = "plain" => Payload(r) = Plain(request[r].body)
<1>1. request[r] \in RequestRecord
  BY Fields
<1>2. request[r].endpoint \in Endpoint /\ request[r].body \in Body
  BY <1>1 DEF RequestRecord
<1>3. request[r].endpoint = "character" => character \in Value
  BY DEF CanServe, TypeOK
<1> QED  BY <1>2, <1>3 DEF Payload, PayloadRecord, Plain

-----------------------------------------------------------------------------
(* Steps that leave the table alone.                                       *)

\* A step of request r alone.
Touches(r) ==
    /\ request' \in [Request -> RequestRecord]
    /\ \A s \in Request \ {r} : request'[s] = request[s]

\* The set of reservations after such a step.
LEMMA ReservedAfter ==
    ASSUME TypeOK, NEW r \in Request, Touches(r)
    PROVE  /\ request'[r].reserved => Reserved' = Reserved \cup {r}
           /\ ~request'[r].reserved => Reserved' = Reserved \ {r}
BY DEF Reserved, Touches

\* An exact counter counts no more than there are requests.
LEMMA PendingTyped ==
    ASSUME AdmissionsExact'
    PROVE  pending' \in 0..Cardinality(Request)
<1>1. Reserved' \in SUBSET Request
  BY DEF Reserved
<1>2. pending' = Cardinality(Reserved')
  BY DEF AdmissionsExact, Reserved
<1> QED  BY <1>1, <1>2, Finite

\* The jobs of a key, and that there is one, depend on the table alone.
LEMMA TableKept ==
    ASSUME job' = job
    PROVE  /\ \A k : Named(k)' = Named(k)
           /\ Active' = Active
           /\ OneJobPerKey => OneJobPerKey'
BY DEF Named, Active, OneJobPerKey

\* A step of one request that leaves the table alone has only its own request to mind.
LEMMA RequestStep ==
    ASSUME IInv, NEW r \in Request, Touches(r), UNCHANGED <<job, character>>,
           AdmissionsExact', Cardinality(Places)' <= Limit, RequestInv(r)', AnswerInv(r)'
    PROVE  IInv'
<1>1. TypeOK'
  BY PendingTyped DEF IInv, TypeOK, Touches, RequestRecord
<1>2. OneJobPerKey'
  BY TableKept DEF IInv
<1>3. ASSUME NEW s \in Request \ {r}
      PROVE  RequestInv(s)' /\ AnswerInv(s)'
  <2>1. request'[s] = request[s] /\ job' = job
    BY <1>3 DEF Touches
  <2>2. RequestInv(s) /\ AnswerInv(s)
    BY <1>3 DEF IInv
  <2>3. \A k : Named(k)' = Named(k)
    BY TableKept
  <2>4. RequestInv(s)'
    BY <2>1, <2>2, <2>3 DEF RequestInv
  <2>5. AnswerInv(s)'
    BY <2>1, <2>2, <2>3 DEF AnswerInv
  <2> QED  BY <2>4, <2>5
<1>4. \A s \in Request : RequestInv(s)' /\ AnswerInv(s)'
  BY <1>3
<1> QED  BY <1>1, <1>2, <1>4 DEF IInv

\* A request that gives up its reservation, or never had one.
LEMMA ReleaseExact ==
    ASSUME IInv, NEW r \in Request, Touches(r), ReleaseAdmission(r), ~request'[r].reserved
    PROVE  AdmissionsExact'
<1>1. Reserved' = Reserved \ {r}
  BY ReservedAfter DEF IInv
<1>2. pending = Cardinality(Reserved) /\ Reserved \in SUBSET Request
  BY Finite DEF IInv, AdmissionsExact, Reserved
<1>3. pending \in Nat
  BY <1>2, Finite
<1>4. pending' = Cardinality(Reserved \ {r})
  <2>1. CASE request[r].reserved
    <3>1. r \in Reserved
      BY <2>1 DEF Reserved
    <3>2. pending > 0 /\ Cardinality(Reserved \ {r}) = pending - 1
      BY <1>2, <3>1, OneMore
    <3> QED  BY <2>1, <3>2 DEF ReleaseAdmission
  <2>2. CASE ~request[r].reserved
    <3>1. r \notin Reserved
      BY <2>2 DEF Reserved
    <3> QED  BY <1>2, <2>2, <3>1, OneMore DEF ReleaseAdmission
  <2> QED  BY <2>1, <2>2
<1> QED  BY <1>1, <1>4 DEF AdmissionsExact, Reserved

\* Places are never gained by a request that is past its body.
LEMMA PlacesLost ==
    ASSUME IInv, NEW r \in Request, Touches(r), job' = job, request'[r].phase # "reading"
    PROVE  Cardinality(Places)' <= Limit
<1>1. Places' \in SUBSET Places
  BY TableKept DEF Places, Touches
<1>2. Cardinality(Places') <= Cardinality(Places)
  BY <1>1, Finite, Smaller
<1>3. Cardinality(Places') \in Nat /\ Cardinality(Places) \in Nat
  BY <1>1, Finite
<1> QED  BY <1>2, <1>3, IntakeAssumption DEF IInv

-----------------------------------------------------------------------------
(* One lemma per action.                                                   *)

\* Nothing is reserved, stored or answered at the start.
LEMMA InitInv == Init => IInv
<1> SUFFICES ASSUME Init PROVE IInv
  OBVIOUS
<1>1. TypeOK
  BY TypeInit
<1>2. Reserved = {} /\ Places = {}
  BY DEF Init, Reserved, Places, Active
<1>3. Cardinality(Reserved) = 0 /\ Cardinality(Places) = 0
  BY <1>2, FS_EmptySet
<1>4. AdmissionsExact
  BY <1>3 DEF AdmissionsExact, Reserved, Init
<1>5. OneJobPerKey
  BY DEF OneJobPerKey, Init
<1>6. ASSUME NEW r \in Request PROVE RequestInv(r) /\ AnswerInv(r)
  BY DEF Init, RequestInv, AnswerInv
<1> QED  BY <1>1, <1>3, <1>4, <1>5, <1>6, IntakeAssumption DEF IInv

\* An admission that finds no job of its key takes a place that was free.
LEMMA AdmitInv ==
    ASSUME IInv, NEW r \in Request, NEW endpoint \in Endpoint, NEW k \in Key \cup {NoKey},
           NEW body \in Body, Admit(r, endpoint, k, body)
    PROVE  IInv'
<1> DEFINE takes == Named(k) = {} /\ Fits
           asked == [request[r] EXCEPT !.endpoint = endpoint, !.key = k, !.body = body,
                       !.phase = IF Named(k) # {} \/ Fits THEN "reading" ELSE "done",
                       !.reserved = takes,
                       !.answer = IF Named(k) # {} \/ Fits THEN "none" ELSE "full"]
<1>1. request = [s \in Request |-> request[s]] /\ request[r] \in RequestRecord
  BY Fields DEF IInv, TypeOK
<1>2. request' = [request EXCEPT ![r] = asked]
  BY DEF Admit, Arrives
<1>3. takes \in BOOLEAN
  OBVIOUS
<1>4. /\ asked \in RequestRecord
      /\ asked.key = k /\ asked.reserved = takes
      /\ asked.phase = IF Named(k) # {} \/ Fits THEN "reading" ELSE "done"
      /\ asked.answer = IF Named(k) # {} \/ Fits THEN "none" ELSE "full"
  BY <1>1, <1>3 DEF RequestRecord
<1>5. request'[r] = asked /\ Touches(r)
  BY <1>1, <1>2, <1>4, Fields DEF IInv, TypeOK, Touches, RequestRecord
<1>6. job' = job /\ UNCHANGED <<job, character>> /\ request[r].phase = "none"
  BY DEF Admit
<1>7. ~request[r].reserved /\ job[r].status = "none"
  BY <1>6, Fields DEF IInv, RequestInv, JobRecord
<1>8. Reserved \in SUBSET Request /\ r \notin Reserved /\ pending = Cardinality(Reserved)
  BY <1>7 DEF Reserved, IInv, AdmissionsExact
<1>9. AdmissionsExact'
  <2>1. CASE takes
    <3>1. Reserved' = Reserved \cup {r}
      BY <1>4, <1>5, <2>1, ReservedAfter DEF IInv
    <3>2. Cardinality(Reserved \cup {r}) = pending + 1
      BY <1>8, OneMore
    <3> QED  BY <2>1, <3>1, <3>2 DEF Admit, AdmissionsExact, Reserved
  <2>2. CASE ~takes
    <3>1. Reserved' = Reserved \ {r}
      BY <1>4, <1>5, <2>2, ReservedAfter DEF IInv
    <3>2. Reserved' = Reserved
      BY <1>8, <3>1
    <3> QED  BY <1>8, <2>2, <3>2 DEF Admit, AdmissionsExact, Reserved
  <2> QED  BY <2>1, <2>2
<1>10. Cardinality(Places)' <= Limit
  <2>0. Active' = Active
    BY <1>6, TableKept
  <2>1. CASE takes
    <3>1. Places' \in SUBSET (Places \cup {r})
      BY <1>5, <2>0 DEF Places, Touches
    <3>2. Places \in SUBSET Request /\ Places \cup {r} \in SUBSET Request
      BY Finite
    <3>3. Cardinality(Places') <= Cardinality(Places \cup {r})
      BY <3>1, <3>2, Smaller
    <3>4. /\ Cardinality(Places) \in Nat /\ Cardinality(Places') \in Nat
          /\ Cardinality(Places \cup {r}) \in Nat
      BY <3>1, <3>2, Finite
    <3>5. Cardinality(Places) < Limit
      BY <2>1, PlacesCounted DEF IInv
    <3>6. Cardinality(Places \cup {r}) = IF r \in Places THEN Cardinality(Places)
                                                         ELSE Cardinality(Places) + 1
      BY <3>2, OneMore
    <3> QED  BY <3>3, <3>4, <3>5, <3>6, IntakeAssumption
  <2>2. CASE ~takes
    <3>1. Places' \in SUBSET Places
      BY <1>4, <1>5, <2>0, <2>2 DEF Places, Touches
    <3>2. Cardinality(Places') <= Cardinality(Places)
      BY <3>1, Finite, Smaller
    <3>3. Cardinality(Places') \in Nat /\ Cardinality(Places) \in Nat
      BY <3>1, Finite
    <3> QED  BY <3>2, <3>3, IntakeAssumption DEF IInv
  <2> QED  BY <2>1, <2>2
<1>11. RequestInv(r)'
  <2>1. Named(k)' = Named(k) /\ request'[r].key = k /\ job' = job
    BY <1>4, <1>5, <1>6, TableKept
  <2>2. takes => request'[r].phase = "reading"
    BY <1>4, <1>5
  <2>3. request'[r].phase = "reading" => takes \/ Named(k) # {}
    BY <1>4, <1>5
  <2>4. request'[r].reserved = takes /\ request'[r].answer \in {"none", "full"}
    BY <1>4, <1>5
  <2> QED  BY <1>7, <2>1, <2>2, <2>3, <2>4 DEF RequestInv
<1>12. AnswerInv(r)'
  BY <1>4, <1>5 DEF AnswerInv
<1> QED  BY <1>5, <1>6, <1>9, <1>10, <1>11, <1>12, RequestStep

\* One request's record is replaced.
LEMMA Replaced ==
    ASSUME IInv, NEW r \in Request, NEW new \in RequestRecord,
           request' = [request EXCEPT ![r] = new]
    PROVE  Touches(r) /\ request'[r] = new
<1>1. request \in [Request -> RequestRecord]
  BY DEF IInv, TypeOK, RequestRecord
<1> QED  BY <1>1 DEF Touches

\* A request dropped before its handler is answered no job.
LEMMA DropInv ==
    ASSUME IInv, NEW r \in Request, Drop(r)
    PROVE  IInv'
<1> DEFINE new == [request[r] EXCEPT !.phase = "done", !.answer = "refused", !.reserved = FALSE]
<1>1. request[r] \in RequestRecord
  BY Fields DEF IInv
<1>2. /\ new \in RequestRecord /\ new.phase = "done" /\ new.answer = "refused"
      /\ ~new.reserved
  BY <1>1 DEF RequestRecord
<1>3. request' = [request EXCEPT ![r] = new]
  BY DEF Drop
<1>4. Touches(r) /\ request'[r] = new
  BY <1>2, <1>3, Replaced
<1>5. AdmissionsExact' /\ Cardinality(Places)' <= Limit
  BY <1>2, <1>4, ReleaseExact, PlacesLost DEF Drop
<1>6. RequestInv(r)' /\ AnswerInv(r)'
  BY <1>2, <1>4 DEF RequestInv, AnswerInv
<1> QED  BY <1>4, <1>5, <1>6, RequestStep DEF Drop

\* A request that has been responded to keeps its answer.
LEMMA RespondInv ==
    ASSUME IInv, NEW r \in Request, Respond(r)
    PROVE  IInv'
<1> DEFINE new == [request[r] EXCEPT !.phase = "done", !.reserved = FALSE]
<1>1. request[r] \in RequestRecord
  BY Fields DEF IInv
<1>2. /\ new \in RequestRecord /\ new.phase = "done" /\ ~new.reserved
      /\ new.answer = request[r].answer /\ new.job = request[r].job
      /\ new.endpoint = request[r].endpoint /\ new.key = request[r].key
      /\ new.body = request[r].body
  BY <1>1 DEF RequestRecord
<1>3. request' = [request EXCEPT ![r] = new]
  BY DEF Respond
<1>4. Touches(r) /\ request'[r] = new /\ job' = job
  BY <1>2, <1>3, Replaced DEF Respond
<1>5. AdmissionsExact' /\ Cardinality(Places)' <= Limit
  BY <1>2, <1>4, ReleaseExact, PlacesLost DEF Respond
<1>6. RequestInv(r)'
  BY <1>2, <1>4 DEF RequestInv
<1>7. AnswerInv(r)'
  <2>1. AnswerInv(r) /\ \A k : Named(k)' = Named(k)
    BY <1>4, TableKept DEF IInv
  <2> QED  BY <1>2, <1>4, <2>1 DEF AnswerInv
<1> QED  BY <1>4, <1>5, <1>6, <1>7, RequestStep DEF Respond

\* What a handler's answer changes: the request leaves its reading phase with its
\* reservation, and no count moves.
LEMMA Answered ==
    ASSUME IInv, NEW r \in Request, request[r].phase = "reading", NEW j \in Request \cup {NoJob},
           NEW what \in {"refused", "accepted", "conflict"}, Answer(r, what, j), pending' = pending
    PROVE  /\ Touches(r)
           /\ request'[r].phase = "handled" /\ request'[r].answer = what /\ request'[r].job = j
           /\ request'[r].endpoint = request[r].endpoint /\ request'[r].key = request[r].key
           /\ request'[r].body = request[r].body /\ request'[r].reserved = request[r].reserved
           /\ Reserved' = Reserved /\ AdmissionsExact'
<1> DEFINE new == [request[r] EXCEPT !.phase = "handled", !.answer = what, !.job = j]
<1>1. request[r] \in RequestRecord
  BY Fields DEF IInv
<1>2. /\ new \in RequestRecord /\ new.phase = "handled" /\ new.answer = what /\ new.job = j
      /\ new.endpoint = request[r].endpoint /\ new.key = request[r].key
      /\ new.body = request[r].body /\ new.reserved = request[r].reserved
  BY <1>1 DEF RequestRecord
<1>3. request' = [request EXCEPT ![r] = new]
  BY DEF Answer
<1>4. Touches(r) /\ request'[r] = new
  BY <1>2, <1>3, Replaced
<1>5. Reserved' = Reserved
  <2>1. CASE request[r].reserved
    <3>1. Reserved' = Reserved \cup {r} /\ r \in Reserved
      BY <1>2, <1>4, <2>1, ReservedAfter DEF Reserved, IInv
    <3> QED  BY <3>1
  <2>2. CASE ~request[r].reserved
    <3>1. Reserved' = Reserved \ {r} /\ r \notin Reserved
      BY <1>2, <1>4, <2>2, ReservedAfter DEF Reserved, IInv
    <3> QED  BY <3>1
  <2> QED  BY <2>1, <2>2
<1>6. AdmissionsExact'
  BY <1>5 DEF IInv, AdmissionsExact, Reserved
<1> QED  BY <1>2, <1>4, <1>5, <1>6

\* A refusal names no job.
LEMMA RefuseInv ==
    ASSUME IInv, NEW r \in Request, Refuse(r)
    PROVE  IInv'
<1>1. /\ request[r].phase = "reading" /\ Answer(r, "refused", NoJob) /\ pending' = pending
      /\ job' = job /\ character' = character
  BY DEF Refuse, HandlerOnly
<1>2. /\ Touches(r) /\ request'[r].phase = "handled" /\ request'[r].answer = "refused"
      /\ AdmissionsExact'
  BY <1>1, Answered
<1>3. Cardinality(Places)' <= Limit
  BY <1>1, <1>2, PlacesLost
<1>4. RequestInv(r)' /\ AnswerInv(r)'
  BY <1>2 DEF RequestInv, AnswerInv
<1> QED  BY <1>1, <1>2, <1>3, <1>4, RequestStep

\* A replay answers with the job of the key, or with a conflict that names one.
LEMMA ReplayInv ==
    ASSUME IInv, NEW r \in Request, Replay(r)
    PROVE  IInv'
<1>1. CanServe(r) /\ request[r].phase = "reading" /\ pending' = pending
      /\ job' = job /\ character' = character
  BY DEF Replay, HandlerOnly, CanServe
<1>2. PICK j \in Named(request[r].key) :
        IF job[j].payload = Payload(r) THEN Answer(r, "accepted", j)
                                       ELSE Answer(r, "conflict", NoJob)
  BY DEF Replay
<1>3. j \in Request
  BY DEF Named
<1> DEFINE same == job[j].payload = Payload(r)
           what == IF same THEN "accepted" ELSE "conflict"
           found == IF same THEN j ELSE NoJob
<1>4. /\ what \in {"refused", "accepted", "conflict"} /\ found \in Request \cup {NoJob}
      /\ Answer(r, what, found)
  BY <1>2, <1>3
<1>5. /\ Touches(r)
      /\ request'[r].phase = "handled" /\ request'[r].answer = what /\ request'[r].job = found
      /\ request'[r].endpoint = request[r].endpoint /\ request'[r].key = request[r].key
      /\ request'[r].body = request[r].body
      /\ AdmissionsExact'
  BY <1>1, <1>4, Answered
<1>6. Cardinality(Places)' <= Limit
  BY <1>1, <1>5, PlacesLost
<1>7. RequestInv(r)'
  BY <1>5 DEF RequestInv
<1>8. AnswerInv(r)'
  <2>1. request[r].endpoint = "plain" => Payload(r) = Plain(request[r].body)
    BY <1>1, PayloadTyped DEF IInv
  <2>2. \A k : Named(k)' = Named(k)
    BY <1>1, TableKept
  <2>3. CASE same
    <3>1. request'[r].answer = "accepted" /\ request'[r].job = j
      BY <1>5, <2>3
    <3> QED  BY <1>1, <1>2, <1>5, <2>1, <2>2, <2>3, <3>1 DEF AnswerInv
  <2>4. CASE ~same
    <3>1. request'[r].answer = "conflict"
      BY <1>5, <2>4
    <3> QED  BY <1>1, <1>2, <1>5, <2>1, <2>2, <2>4, <3>1 DEF AnswerInv
  <2> QED  BY <2>3, <2>4
<1> QED  BY <1>1, <1>5, <1>6, <1>7, <1>8, RequestStep

\* A job is created only where its request holds a place, and only for a key that has
\* none.
LEMMA EnqueueInv ==
    ASSUME IInv, NEW r \in Request, Enqueue(r)
    PROVE  IInv'
<1> DEFINE row == [status |-> "active", key |-> request[r].key, payload |-> Payload(r)]
<1>1. /\ CanServe(r) /\ request[r].phase = "reading" /\ Named(request[r].key) = {}
      /\ pending' = pending /\ character' = character
      /\ Answer(r, "accepted", r) /\ job' = [job EXCEPT ![r] = row]
  BY DEF Enqueue, HandlerOnly, CanServe
<1>2. /\ Touches(r)
      /\ request'[r].phase = "handled" /\ request'[r].answer = "accepted" /\ request'[r].job = r
      /\ request'[r].endpoint = request[r].endpoint /\ request'[r].key = request[r].key
      /\ request'[r].body = request[r].body
      /\ AdmissionsExact'
  BY <1>1, Answered
<1>3. /\ request[r].key \in Key \cup {NoKey} /\ Payload(r) \in PayloadRecord
      /\ request[r].endpoint = "plain" => Payload(r) = Plain(request[r].body)
  BY <1>1, PayloadTyped, Fields DEF IInv, RequestRecord
<1>4. row \in JobRecord /\ job \in [Request -> JobRecord]
  BY <1>3 DEF JobRecord, PayloadRecord, IInv, TypeOK
<1>5. /\ job' \in [Request -> JobRecord] /\ job'[r] = row
      /\ \A s \in Request \ {r} : job'[s] = job[s]
  BY <1>1, <1>4
<1>6. job[r].status = "none" /\ request[r].reserved
  BY <1>1 DEF IInv, RequestInv
<1>7. \A k : Named(k) \subseteq Named(k)' /\ r \notin Named(k)
  BY <1>5, <1>6 DEF Named
<1>8. TypeOK'
  BY <1>1, <1>2, <1>5, PendingTyped
     DEF IInv, TypeOK, Touches, RequestRecord, JobRecord, PayloadRecord
<1>9. OneJobPerKey'
  <2>1. ASSUME NEW s \in Request \ {r}, job[s].status # "none", job[s].key = request[r].key
        PROVE  request[r].key = NoKey
    BY <1>1, <2>1 DEF Named
  <2>2. job'[r].key = request[r].key
    BY <1>5
  <2> QED  BY <1>5, <2>1, <2>2 DEF IInv, OneJobPerKey
<1>10. Cardinality(Places)' <= Limit
  <2>1. r \in Places
    BY <1>1, <1>6 DEF Places
  <2>2. Active' \in SUBSET (Active \cup {r})
    BY <1>5 DEF Active
  <2>3. Places' \in SUBSET Places
    BY <1>2, <2>1, <2>2 DEF Places, Touches
  <2>4. Cardinality(Places') <= Cardinality(Places)
    BY <2>3, Finite, Smaller
  <2>5. Cardinality(Places') \in Nat /\ Cardinality(Places) \in Nat
    BY <2>3, Finite
  <2> QED  BY <2>4, <2>5, IntakeAssumption DEF IInv
<1>11. RequestInv(r)'
  BY <1>2 DEF RequestInv
<1>12. AnswerInv(r)'
  <2>1. \A k : k # NoKey /\ k = request[r].key => r \in Named(k)'
    BY <1>5 DEF Named
  <2> QED  BY <1>2, <1>3, <1>5, <2>1 DEF AnswerInv
<1>13. ASSUME NEW s \in Request \ {r}
       PROVE  RequestInv(s)' /\ AnswerInv(s)'
  <2>1. request'[s] = request[s] /\ job'[s] = job[s] /\ RequestInv(s) /\ AnswerInv(s)
    BY <1>2, <1>5, <1>13 DEF IInv, Touches
  <2>2. \A k : \A j \in Named(k) : j \in Named(k)' /\ job'[j] = job[j]
    BY <1>5, <1>7 DEF Named
  <2>3. RequestInv(s)'
    BY <2>1, <2>2 DEF RequestInv
  <2>4. AnswerInv(s)'
    BY <2>1, <2>2 DEF AnswerInv
  <2> QED  BY <2>3, <2>4
<1>14. \A s \in Request : RequestInv(s)' /\ AnswerInv(s)'
  BY <1>11, <1>12, <1>13
<1> QED  BY <1>2, <1>8, <1>9, <1>10, <1>14 DEF IInv

\* A step of the table that keeps the jobs of every key, with their payloads, and makes
\* no job active.
LEMMA TableStep ==
    ASSUME IInv, UNCHANGED <<request, pending, character>>,
           job' \in [Request -> JobRecord],
           \A s \in Request : /\ job'[s].key = job[s].key /\ job'[s].payload = job[s].payload
                              /\ job'[s].status # "none" => job[s].status # "none"
                              /\ job'[s].status = "active" => job[s].status = "active",
           \A k : Named(k)' = Named(k)
    PROVE  IInv'
<1>1. TypeOK'
  BY DEF IInv, TypeOK, JobRecord, PayloadRecord
<1>2. AdmissionsExact'
  BY DEF IInv, AdmissionsExact
<1>3. OneJobPerKey'
  BY DEF IInv, OneJobPerKey
<1>4. Cardinality(Places)' <= Limit
  <2>1. Places' \in SUBSET Places
    BY DEF Places, Active
  <2>2. Cardinality(Places') <= Cardinality(Places)
    BY <2>1, Finite, Smaller
  <2>3. Cardinality(Places') \in Nat /\ Cardinality(Places) \in Nat
    BY <2>1, Finite
  <2> QED  BY <2>2, <2>3, IntakeAssumption DEF IInv
<1>5. ASSUME NEW r \in Request
      PROVE  RequestInv(r)' /\ AnswerInv(r)'
  <2>1. RequestInv(r) /\ AnswerInv(r) /\ \A k : Named(k) \subseteq Request
    BY DEF IInv, Named
  <2>2. RequestInv(r)'
    BY <2>1 DEF RequestInv
  <2>3. AnswerInv(r)'
    BY <2>1 DEF AnswerInv
  <2> QED  BY <2>2, <2>3
<1> QED  BY <1>1, <1>2, <1>3, <1>4, <1>5 DEF IInv

\* A settled job keeps its key.
LEMMA SettleInv ==
    ASSUME IInv, NEW j \in Request, Settle(j)
    PROVE  IInv'
<1>1. job \in [Request -> JobRecord]
  BY DEF IInv, TypeOK, JobRecord, PayloadRecord
<1>2. /\ job' \in [Request -> JobRecord] /\ job[j].status = "active"
      /\ \A s \in Request : /\ job'[s].key = job[s].key /\ job'[s].payload = job[s].payload
                            /\ job'[s].status = IF s = j THEN "settled" ELSE job[s].status
  BY <1>1 DEF Settle, JobRecord
<1>3. \A k : Named(k)' = Named(k)
  BY <1>2 DEF Named
<1> QED  BY <1>2, <1>3, TableStep DEF Settle

\* A forgotten job had no key.
LEMMA ForgetInv ==
    ASSUME IInv, NEW j \in Request, Forget(j)
    PROVE  IInv'
<1>1. job \in [Request -> JobRecord]
  BY DEF IInv, TypeOK, JobRecord, PayloadRecord
<1>2. /\ job' \in [Request -> JobRecord] /\ job[j].status = "settled" /\ job[j].key = NoKey
      /\ \A s \in Request : /\ job'[s].key = job[s].key /\ job'[s].payload = job[s].payload
                            /\ job'[s].status = IF s = j THEN "none" ELSE job[s].status
  BY <1>1 DEF Forget, JobRecord
<1>3. \A k : Named(k)' = Named(k)
  BY <1>2 DEF Named
<1> QED  BY <1>2, <1>3, TableStep DEF Forget

\* A restart leaves no reservation behind, and no answer.
LEMMA RestartInv ==
    ASSUME IInv, Restart
    PROVE  IInv'
<1> DEFINE lost(r) == [request[r] EXCEPT !.phase = "done", !.answer = "lost",
                                         !.reserved = FALSE, !.job = NoJob]
           inFlight(r) == request[r].phase \in {"reading", "handled"}
<1>1. \A r \in Request : request[r] \in RequestRecord /\ RequestInv(r) /\ AnswerInv(r)
  BY Fields DEF IInv
<1>2. ASSUME NEW r \in Request
      PROVE  lost(r) \in RequestRecord /\ lost(r).phase = "done" /\ lost(r).answer = "lost"
             /\ ~lost(r).reserved
  BY <1>1 DEF RequestRecord
<1>3. /\ pending' = 0 /\ job' = job /\ character' = character
      /\ request' = [r \in Request |-> IF inFlight(r) THEN lost(r) ELSE request[r]]
  BY DEF Restart
<1>4. request' \in [Request -> RequestRecord]
  BY <1>1, <1>2, <1>3
<1>5. ASSUME NEW r \in Request
      PROVE  /\ ~request'[r].reserved /\ request'[r].phase # "reading"
             /\ RequestInv(r)' /\ AnswerInv(r)'
  <2>1. \A k : Named(k)' = Named(k)
    BY <1>3, TableKept
  <2>2. CASE inFlight(r)
    <3>1. request'[r] = lost(r)
      BY <1>3, <2>2
    <3> QED  BY <1>2, <1>3, <3>1 DEF RequestInv, AnswerInv
  <2>3. CASE ~inFlight(r)
    <3>1. request'[r] = request[r]
      BY <1>3, <2>3
    <3> QED  BY <1>1, <1>3, <2>1, <2>3, <3>1 DEF RequestInv, AnswerInv
  <2> QED  BY <2>2, <2>3
<1>6. Reserved' = {} /\ Places' = Active'
  BY <1>5 DEF Reserved, Places
<1>7. AdmissionsExact'
  BY <1>3, <1>6, FS_EmptySet DEF AdmissionsExact, Reserved
<1>8. Cardinality(Places)' <= Limit
  <2>1. Places' \in SUBSET Places
    BY <1>3, <1>6, TableKept DEF Places
  <2>2. Cardinality(Places') <= Cardinality(Places)
    BY <2>1, Finite, Smaller
  <2>3. Cardinality(Places') \in Nat /\ Cardinality(Places) \in Nat
    BY <2>1, Finite
  <2> QED  BY <2>2, <2>3, IntakeAssumption DEF IInv
<1>9. TypeOK'
  BY <1>3, <1>4, <1>7, PendingTyped DEF IInv, TypeOK, RequestRecord
<1>10. OneJobPerKey'
  BY <1>3, TableKept DEF IInv
<1> QED  BY <1>5, <1>7, <1>8, <1>9, <1>10 DEF IInv

\* The invariant is about the table and the requests: an edit of the catalog, and a
\* step of nobody, keep it.
LEMMA QuietInv ==
    ASSUME IInv, UNCHANGED <<request, job, pending>>, character' \in Value \cup {Deleted}
    PROVE  IInv'
<1>1. TypeOK' /\ AdmissionsExact' /\ OneJobPerKey'
  BY TableKept DEF IInv, TypeOK, AdmissionsExact
<1>2. Places' = Places /\ \A k : Named(k)' = Named(k)
  BY TableKept DEF Places
<1>3. \A r \in Request : RequestInv(r)' /\ AnswerInv(r)'
  BY <1>2 DEF IInv, RequestInv, AnswerInv
<1> QED  BY <1>1, <1>2, <1>3 DEF IInv

\* Every step of the service keeps the invariant.
LEMMA StepInv == IInv /\ [Next]_vars => IInv'
<1> SUFFICES ASSUME IInv, [Next]_vars PROVE IInv'
  OBVIOUS
<1>1. ASSUME NEW r \in Request, NEW endpoint \in Endpoint, NEW k \in Key \cup {NoKey},
             NEW body \in Body, Admit(r, endpoint, k, body)
      PROVE  IInv'
  BY <1>1, AdmitInv
<1>2. ASSUME NEW r \in Request, Serve(r) PROVE IInv'
  BY <1>2, DropInv, RefuseInv, ReplayInv, EnqueueInv, RespondInv DEF Serve
<1>3. ASSUME NEW r \in Request, Settle(r) PROVE IInv'
  BY <1>3, SettleInv
<1>4. ASSUME NEW r \in Request, Forget(r) PROVE IInv'
  BY <1>4, ForgetInv
<1>5. ASSUME NEW v \in Value \cup {Deleted}, EditCharacter(v) PROVE IInv'
  BY <1>5, QuietInv DEF EditCharacter
<1>6. CASE Restart
  BY <1>6, RestartInv
<1>7. CASE UNCHANGED vars
  BY <1>7, QuietInv DEF vars, IInv, TypeOK
<1> QED  BY <1>1, <1>2, <1>3, <1>4, <1>5, <1>6, <1>7 DEF Next

-----------------------------------------------------------------------------
(* The theorems.                                                           *)

\* The admission rules of the middleware and the key lookups of the handlers keep
\* the inductive invariant in every run of the service.
THEOREM Invariant == Spec => []IInv
BY InitInv, StepInv, PTL DEF Spec

\* Type correctness: in particular the admission counter stays between zero and the
\* number of requests.
THEOREM TypeCorrect == Spec => []TypeOK
<1>1. IInv => TypeOK
  BY DEF IInv
<1> QED  BY <1>1, Invariant, PTL

\* Admission and insert are steps apart, and still the backlog never outgrows
\* job_queue_max_active.
THEOREM Bounded == Spec => []BacklogBounded
<1>1. IInv => BacklogBounded
  <2> SUFFICES ASSUME IInv PROVE BacklogBounded
    OBVIOUS
  <2>1. Active \in SUBSET Places /\ Places \in SUBSET Request /\ Active \in SUBSET Request
    BY Finite DEF Places
  <2>2. Cardinality(Active) <= Cardinality(Places)
    BY <2>1, Smaller
  <2>3. Cardinality(Active) \in Nat /\ Cardinality(Places) \in Nat
    BY <2>1, Finite
  <2> QED  BY <2>2, <2>3, IntakeAssumption DEF IInv, BacklogBounded
<1> QED  BY <1>1, Invariant, PTL

\* pending_job_admissions counts the reservations held, whatever became of the
\* requests that took them.
THEOREM Exact == Spec => []AdmissionsExact
<1>1. IInv => AdmissionsExact
  BY DEF IInv
<1> QED  BY <1>1, Invariant, PTL

\* An idempotency key names at most one job.
THEOREM OneJob == Spec => []OneJobPerKey
<1>1. IInv => OneJobPerKey
  BY DEF IInv
<1> QED  BY <1>1, Invariant, PTL

\* A plain request repeated with its key and body is answered with the first one's
\* job: the answers agree with the one job of the key.
THEOREM Replays == Spec => []ReplayReturnsJob
<1>1. IInv => ReplayReturnsJob
  <2> SUFFICES ASSUME IInv,
                      NEW r \in Request, NEW s \in Request,
                      request[r].endpoint = "plain", request[s].endpoint = "plain",
                      request[r].key = request[s].key, request[r].key # NoKey,
                      request[r].body = request[s].body,
                      request[r].answer = "accepted",
                      request[s].answer \in {"accepted", "conflict"}
               PROVE  request[s].job = request[r].job
    BY DEF ReplayReturnsJob
  <2>1. AnswerInv(r) /\ AnswerInv(s)
    BY DEF IInv
  <2>2. \A i, j \in Named(request[r].key) : i = j
    BY DEF IInv, OneJobPerKey, Named
  <2>3. /\ request[r].job \in Named(request[r].key)
        /\ job[request[r].job].payload = Plain(request[r].body)
    BY <2>1 DEF AnswerInv
  <2>4. CASE request[s].answer = "accepted"
    BY <2>1, <2>2, <2>3, <2>4 DEF AnswerInv
  <2>5. CASE request[s].answer = "conflict"
    BY <2>1, <2>2, <2>3, <2>5 DEF AnswerInv
  <2> QED  BY <2>4, <2>5
<1> QED  BY <1>1, Invariant, PTL
=============================================================================
