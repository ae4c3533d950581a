------------------------ MODULE AccountCreditsProofs ------------------------
(***************************************************************************)
(* Theorems about AccountCredits, for any coroutines, costs, limits and    *)
(* balances, and any number of sockets, identities, balances and payments. *)
(***************************************************************************)
EXTENDS AccountCredits, FiniteSetTheorems, SequenceTheorems, TLAPS

-----------------------------------------------------------------------------
(* The inductive invariant.                                                *)

Known == 1..Len(reads)                  \* the balances read so far
Paying == {w \in Worker : worker[w].phase = "paying"}
PayingFrom(b) == {w \in Videos : worker[w].phase = "paying" /\ worker[w].basis = b}

\* Only the latest object is ever registered, and the ones to come are blank.
ObjectInv ==
    /\ live # 0 => live = opened
    /\ \A o \in Object : o > opened =>
         ~conn[o].flow_key /\ conn[o].credits = Unknown /\ o \notin switching

\* The refresh under way was asked for by the identity that is signed in, unless
\* an auth_available is about to restart it.
TaskInv ==
    /\ refresh.phase \in {"asked", "read"} => live # 0
    /\ live # 0 /\ live \notin switching /\ conn[live].flow_key
         /\ refresh.phase \notin {"none", "asleep"}
       => conn[live].generation = refresh.generation

\* An answer that is not in the connection yet is known, is of the identity it was
\* asked for, and has served nobody.
Unused(b) ==
    /\ \A o \in Object : conn[o].credits # b
    /\ \A w \in Worker : worker[w].basis # b
    /\ drawn[b] = 0

AnswerInv ==
    /\ refresh.phase \in {"read", "answered"} /\ refresh.balance # Unknown =>
         /\ refresh.balance \in Known
         /\ reads[refresh.balance].generation = refresh.generation
         /\ Unused(refresh.balance)
    /\ refresh.phase \in {"read", "answered"} => refresh.balance # Unknown
    /\ \A b \in Balance : b > Len(reads) => Unused(b)

\* A balance is in one connection at most, the one the coroutines that rely on it
\* hold, and what was drawn on it there is still being paid.
VisibleInv ==
    \A o \in Object : conn[o].credits # Unknown =>
        /\ conn[o].credits \in Known
        /\ \A q \in Object : conn[q].credits = conn[o].credits => q = o
        /\ \A w \in Worker : worker[w].basis = conn[o].credits => worker[w].object = o
        /\ drawn[conn[o].credits] <= CreditsOf(PayingFrom(conn[o].credits))

\* A coroutine that pays is a video, and a video that holds a slot relies on a
\* balance and knows its connection.
WorkerInv ==
    \A w \in Worker :
        /\ worker[w].phase = "idle" => worker[w] = Idle
        /\ worker[w].phase = "paying" => w \in Videos
        /\ worker[w].basis \in Known \cup {Unknown}
        /\ worker[w].phase # "idle" =>
             /\ worker[w].object \in Object
             /\ w \in Videos <=> worker[w].basis # Unknown

\* Paid attempts that have not finished are the coroutines that pay.
PaidInv ==
    /\ IsFiniteSet(Holding(Worker))
    /\ paid.sent = paid.finished + Cardinality(Paying)

\* What is known of the session, and what is kept of balances and coroutines.
Session == ObjectInv /\ TaskInv /\ RefreshPending
Books ==
    /\ AnswerInv /\ VisibleInv /\ BalanceOfThisIdentity
    /\ WorkerInv /\ PaidInv /\ CountersExact /\ BalanceNotReused

IInv == TypeOK /\ Len(reads) <= MaxReads /\ Session /\ Books

-----------------------------------------------------------------------------
(* Totals of credits.                                                      *)

LEMMA Costs == \A w \in Worker : CostOf(w) \in Nat /\ (w \notin Videos => CostOf(w) = 0)
BY CreditsAssumption DEF CostOf

\* The credits of one coroutine.
LEMMA OwnCredits ==
    ASSUME NEW w \in Worker
    PROVE  /\ IsFiniteSet({w} \X (1..CostOf(w)))
           /\ Cardinality({w} \X (1..CostOf(w))) = CostOf(w)
<1> DEFINE A == {w}
           B == 1..CostOf(w)
<1>1. IsFiniteSet(A) /\ Cardinality(A) = 1
  BY FS_Singleton
<1>2. CostOf(w) \in Nat
  BY Costs
<1>3. IsFiniteSet(B) /\ Cardinality(B) = CostOf(w)
  BY <1>2, FS_Interval
<1> HIDE DEF A, B
<1>4. IsFiniteSet(A \X B) /\ Cardinality(A \X B) = Cardinality(A) * Cardinality(B)
  BY <1>1, <1>3, FS_Product
<1>5. IsFiniteSet(A \X B) /\ Cardinality(A \X B) = CostOf(w)
  BY <1>1, <1>2, <1>3, <1>4
<1> QED
  BY <1>5 DEF A, B

\* The set that CreditsOf counts.
CreditSet(S) == UNION {{w} \X (1..CostOf(w)) : w \in S}

LEMMA CreditSetFinite ==
    ASSUME NEW S \in SUBSET Worker, IsFiniteSet(S)
    PROVE  IsFiniteSet(CreditSet(S))
<1> DEFINE F == [w \in S |-> {w} \X (1..CostOf(w))]
           T == {{w} \X (1..CostOf(w)) : w \in S}
<1>1. F \in Surjection(S, T)
  BY DEF Surjection
<1>2. IsFiniteSet(T)
  BY <1>1, FS_Surjection
<1>3. \A t \in T : IsFiniteSet(t)
  BY OwnCredits
<1> QED
  BY <1>2, <1>3, FS_UNION DEF CreditSet

LEMMA CreditsType ==
    ASSUME NEW S \in SUBSET Worker, IsFiniteSet(S)
    PROVE  CreditsOf(S) \in Nat
BY CreditSetFinite, FS_CardinalityType DEF CreditsOf, CreditSet

LEMMA CreditsEmpty == CreditsOf({}) = 0
<1>1. UNION {{w} \X (1..CostOf(w)) : w \in {}} = {}
  OBVIOUS
<1> QED
  BY <1>1, FS_EmptySet DEF CreditsOf

\* Two sets with no coroutine in common cost what each of them costs.
LEMMA CreditsSplit ==
    ASSUME NEW S \in SUBSET Worker, NEW T \in SUBSET Worker, IsFiniteSet(S), IsFiniteSet(T),
           S \cap T = {}
    PROVE  CreditsOf(S \cup T) = CreditsOf(S) + CreditsOf(T)
<1>1. IsFiniteSet(CreditSet(S)) /\ IsFiniteSet(CreditSet(T))
  BY CreditSetFinite
<1>2. CreditSet(S \cup T) = CreditSet(S) \cup CreditSet(T)
  BY DEF CreditSet
<1>3. CreditSet(S) \cap CreditSet(T) = {}
  BY DEF CreditSet
<1>4. Cardinality(CreditSet(S)) \in Nat /\ Cardinality(CreditSet(T)) \in Nat
  BY <1>1, FS_CardinalityType
<1>5. Cardinality(CreditSet(S \cup T))
        = Cardinality(CreditSet(S)) + Cardinality(CreditSet(T)) - Cardinality({})
  <2> DEFINE A == CreditSet(S)
             B == CreditSet(T)
  <2> HIDE DEF A, B
  <2>1. Cardinality(A \cup B) = Cardinality(A) + Cardinality(B) - Cardinality(A \cap B)
    BY <1>1, FS_Union DEF A, B
  <2> QED
    BY <1>2, <1>3, <2>1 DEF A, B
<1> QED
  BY <1>4, <1>5, FS_EmptySet DEF CreditsOf, CreditSet

LEMMA CreditsOne == ASSUME NEW w \in Worker PROVE CreditsOf({w}) = CostOf(w)
<1>1. UNION {{u} \X (1..CostOf(u)) : u \in {w}} = {w} \X (1..CostOf(w))
  OBVIOUS
<1> QED
  BY <1>1, OwnCredits DEF CreditsOf

LEMMA CreditsAdd ==
    ASSUME NEW S \in SUBSET Worker, IsFiniteSet(S), NEW w \in Worker, w \notin S
    PROVE  CreditsOf(S \cup {w}) = CreditsOf(S) + CostOf(w)
<1>1. IsFiniteSet({w}) /\ S \cap {w} = {} /\ {w} \in SUBSET Worker
  BY FS_Singleton
<1> QED
  BY <1>1, CreditsSplit, CreditsOne

LEMMA CreditsRemove ==
    ASSUME NEW S \in SUBSET Worker, IsFiniteSet(S), NEW w \in S
    PROVE  CreditsOf(S \ {w}) = CreditsOf(S) - CostOf(w)
<1>1. IsFiniteSet(S \ {w}) /\ S \ {w} \in SUBSET Worker /\ w \notin S \ {w}
  BY FS_RemoveElement
<1>2. (S \ {w}) \cup {w} = S
  OBVIOUS
<1>3. CreditsOf(S) = CreditsOf(S \ {w}) + CostOf(w)
  BY <1>1, <1>2, CreditsAdd
<1> QED
  BY <1>1, <1>3, CreditsType, Costs

LEMMA CreditsSubset ==
    ASSUME NEW T \in SUBSET Worker, IsFiniteSet(T), NEW S \in SUBSET T
    PROVE  CreditsOf(S) <= CreditsOf(T)
<1>1. IsFiniteSet(S) /\ IsFiniteSet(T \ S) /\ S \cap (T \ S) = {} /\ S \cup (T \ S) = T
  BY FS_Subset
<1>2. CreditsOf(T) = CreditsOf(S) + CreditsOf(T \ S)
  BY <1>1, CreditsSplit
<1> QED
  BY <1>1, <1>2, CreditsType

-----------------------------------------------------------------------------
(* The session.                                                            *)

LEMMA Numbers ==
    /\ {MaxObjects, MaxGen, MaxReads, MaxPaid} \subseteq Nat
    /\ Object \subseteq Nat \ {0} /\ 0 \notin Object /\ Unknown \notin Balance
BY CreditsAssumption DEF Object, Balance, Unknown

\* A balance that was read has a number in bounds, and its amount is a number.
LEMMA Readings ==
    ASSUME IInv
    PROVE  /\ Len(reads) \in Nat
           /\ \A b \in Known : b \in Balance /\ b # Unknown /\ reads[b].amount \in Nat
<1>1. Len(reads) \in Nat /\ Len(reads) <= MaxReads
  BY DEF IInv, TypeOK
<1>2. \A b \in Known : b \in Balance /\ b # Unknown
  <2>1. MaxReads \in Nat
    BY Numbers
  <2> QED
    BY <1>1, <2>1 DEF Known, Balance, Unknown
<1>3. ASSUME NEW b \in Known
      PROVE  reads[b].amount \in Amounts
  <2> DEFINE R == [amount: Amounts, object: Object, generation: 0..MaxGen, finished: Nat]
  <2>1. reads \in Seq(R)
    BY DEF IInv, TypeOK
  <2>2. reads[b] \in R
    <3> HIDE DEF R
    <3> QED
      BY <2>1, ElementOfSeq DEF Known
  <2> QED
    BY <2>2
<1> QED
  BY <1>1, <1>2, <1>3, CreditsAssumption

\* No worker's action but the end of a paid attempt touches the session.
LEMMA SessionKept ==
    ASSUME Session, UNCHANGED <<live, opened, conn, switching, refresh>>
    PROVE  Session'
BY DEF Session, ObjectInv, TaskInv, RefreshPending

\* Every action keeps what is known of the session.
LEMMA SessionStep ==
    ASSUME IInv, [Next]_vars
    PROVE  Session'
<1> USE DEF IInv, TypeOK, Session, ObjectInv, TaskInv, RefreshPending
<1>1. ASSUME NEW w \in Worker, Reserve(w) \/ Leave(w) \/ SendPaid(w)
      PROVE  Session'
  BY <1>1, SessionKept DEF Reserve, Leave, SendPaid
<1>2. ASSUME NEW w \in Worker, FinishPaid(w)
      PROVE  Session'
  <2>1. \A o \in Object : /\ conn'[o].flow_key = conn[o].flow_key
                          /\ conn'[o].generation = conn[o].generation
                          /\ conn'[o].credits \in {conn[o].credits, Unknown}
    BY <1>2 DEF FinishPaid, Connection
  <2>2. refresh'.phase # "none" /\ (refresh.phase = "none" \/ refresh' = refresh)
        /\ (refresh.phase = "none" => refresh'.phase = "asleep")
    BY <1>2 DEF FinishPaid, Schedule, Asleep, NoRefresh
  <2>3. UNCHANGED <<live, opened, switching>>
    BY <1>2 DEF FinishPaid
  <2> QED
    BY <2>1, <2>2, <2>3
<1>3. CASE Register
  <2>1. opened + 1 \in Object /\ live' = opened + 1 /\ opened' = opened + 1
    BY <1>3, Numbers DEF Register, Object
  <2>2. ~conn'[live'].flow_key /\ UNCHANGED <<conn, switching>>
    BY <1>3, <2>1, Numbers DEF Register
  <2>3. refresh'.phase \notin {"asked", "read"}
    BY <1>3 DEF Register, BreakRequest
  <2>4. ObjectInv'
    <3>1. \A o \in Object : o > live' => o > opened
      BY <2>1, Numbers
    <3> QED
      BY <2>1, <2>2, <3>1
  <2> QED
    BY <2>2, <2>3, <2>4
<1>4. CASE Disconnect
  <2>1. refresh'.phase \notin {"asked", "read"}
    BY <1>4 DEF Disconnect, BreakRequest
  <2> QED
    BY <1>4, <2>1 DEF Disconnect
<1>5. CASE AuthAvailable
  BY <1>5, Numbers DEF AuthAvailable
<1>6. ASSUME NEW o \in Object, RestartRefresh(o)
      PROVE  Session'
  BY <1>6 DEF RestartRefresh, Asleep, NoRefresh
<1>7. CASE UserInfo
  BY <1>7 DEF UserInfo, Connection
<1>8. CASE ApiKeyChanged
  BY <1>8 DEF ApiKeyChanged, Schedule, Asleep, NoRefresh
<1>9. CASE InvalidateAuth
  BY <1>9 DEF InvalidateAuth, Invalid, Connection
<1>10. CASE RefreshWakes
  <2>1. UNCHANGED <<live, opened, switching>>
    BY <1>10 DEF RefreshWakes, RefreshOnly
  <2>2. CASE live = 0 \/ ~conn[live].flow_key
    BY <1>10, <2>1, <2>2 DEF RefreshWakes, NoRefresh
  <2>3. CASE live # 0 /\ conn[live].flow_key
    <3>1. conn' = [conn EXCEPT ![live].credits = Unknown]
      BY <1>10, <2>3 DEF RefreshWakes
    <3>2. \A o \in Object : /\ conn'[o].flow_key = conn[o].flow_key
                            /\ conn'[o].generation = conn[o].generation
                            /\ conn'[o].credits \in {conn[o].credits, Unknown}
      BY <3>1 DEF Connection
    <3>3. refresh'.phase \in {"asked", "acking"} /\ refresh'.generation = conn[live].generation
      BY <1>10, <2>3 DEF RefreshWakes
    <3> QED
      BY <2>1, <2>3, <3>2, <3>3
  <2> QED
    BY <2>2, <2>3
<1>11. CASE BalanceRead \/ BalanceDelivered
  <2>1. UNCHANGED <<live, opened, conn, switching>>
    BY <1>11 DEF BalanceRead, BalanceDelivered, RefreshOnly
  <2>2. /\ refresh.phase \in {"asked", "read"} /\ refresh'.phase \in {"read", "answered"}
        /\ refresh'.generation = refresh.generation
    BY <1>11 DEF BalanceRead, BalanceDelivered
  <2> QED
    BY <2>1, <2>2
<1>12. CASE RefreshDropped
  BY <1>12 DEF RefreshDropped, RefreshOnly, SameSession, NoRefresh
<1>13. CASE RefreshSucceeds
  <2>1. live \in Object /\ live = opened /\ UNCHANGED <<live, opened, switching>>
    BY <1>13 DEF RefreshSucceeds, RefreshOnly, SameSession
  <2>2. \A o \in Object : /\ conn'[o].flow_key = conn[o].flow_key
                          /\ conn'[o].generation = conn[o].generation
                          /\ o # live => conn'[o].credits = conn[o].credits
    BY <1>13, <2>1 DEF RefreshSucceeds, Connection
  <2>3. refresh'.phase = "acking" /\ refresh'.generation = refresh.generation
        /\ refresh.phase = "answered"
    BY <1>13 DEF RefreshSucceeds
  <2>4. ObjectInv'
    <3>1. \A o \in Object : o > opened => o # live
      BY <2>1, Numbers
    <3> QED
      BY <2>1, <2>2, <3>1
  <2> QED
    BY <2>1, <2>2, <2>3, <2>4
<1>14. CASE RefreshFails
  <2>1. PICK c \in {conn[live], [conn[live] EXCEPT !.credits = Unknown, !.tier = FALSE],
                    Invalid(conn[live])} : conn' = [conn EXCEPT ![live] = c]
    BY <1>14 DEF RefreshFails
  <2>2. live \in Object /\ conn[live] \in Connection
    BY <1>14 DEF RefreshFails, SameSession
  <2>3. (c.flow_key => conn[live].flow_key) /\ c.generation = conn[live].generation
    BY <2>1, <2>2 DEF Invalid, Connection
  <2>4. \A o \in Object : /\ conn'[o].flow_key => conn[o].flow_key
                          /\ conn'[o].generation = conn[o].generation
                          /\ conn'[o].credits \in {conn[o].credits, Unknown}
    BY <2>1, <2>2, <2>3 DEF Invalid, Connection
  <2>5. refresh'.phase = "acking" /\ refresh'.generation = refresh.generation
        /\ UNCHANGED <<live, opened, switching>>
    BY <1>14 DEF RefreshFails, RefreshOnly
  <2> QED
    BY <1>14, <2>4, <2>5 DEF RefreshFails, SameSession
<1>15. CASE RefreshDecides
  BY <1>15 DEF RefreshDecides, RefreshOnly, SameSession, NoRefresh, Asleep
<1>16. CASE UNCHANGED vars
  BY <1>16, SessionKept DEF vars
<1> QED
  BY <1>1, <1>2, <1>3, <1>4, <1>5, <1>6, <1>7, <1>8, <1>9, <1>10, <1>11, <1>12, <1>13,
     <1>14, <1>15, <1>16 DEF Next

-----------------------------------------------------------------------------
(* The counters.                                                           *)

LEMMA Kinds ==
    /\ Images \subseteq Worker /\ Videos \subseteq Worker /\ Worker \subseteq Worker
    /\ Images \cap Videos = {}
BY CreditsAssumption DEF Worker

\* Who holds a slot after the row of one coroutine has changed.
LEMMA HoldingAfter ==
    ASSUME TypeOK, NEW w \in Worker, NEW r, worker' = [worker EXCEPT ![w] = r],
           NEW S \in SUBSET Worker
    PROVE  /\ r.phase # "idle" => Holding(S)' = IF w \in S THEN Holding(S) \cup {w} ELSE Holding(S)
           /\ r.phase = "idle" => Holding(S)' = Holding(S) \ {w}
<1>1. \A u \in Worker : worker'[u] = IF u = w THEN r ELSE worker[u]
  BY DEF TypeOK
<1> QED
  BY <1>1 DEF Holding

LEMMA HoldingFinite ==
    ASSUME PaidInv, NEW S \in SUBSET Worker
    PROVE  /\ IsFiniteSet(Holding(S)) /\ Cardinality(Holding(S)) \in Nat
           /\ Holding(S) \in SUBSET Worker
<1>1. Holding(S) \in SUBSET Holding(Worker)
  BY DEF Holding
<1>2. IsFiniteSet(Holding(S))
  BY <1>1, FS_Subset DEF PaidInv
<1> QED
  BY <1>1, <1>2, FS_CardinalityType DEF Holding

\* reserve_connection counts the coroutine that takes the slot.
LEMMA CountedUp ==
    ASSUME TypeOK, CountersExact, PaidInv, NEW w \in Worker, NEW r,
           worker[w].phase = "idle", r.phase # "idle", worker' = [worker EXCEPT ![w] = r],
           active' = [all |-> active.all + 1,
                      image |-> active.image + (IF w \in Images THEN 1 ELSE 0),
                      video |-> active.video + (IF w \in Videos THEN 1 ELSE 0)],
           reserved' = reserved + CostOf(w)
    PROVE  CountersExact' /\ IsFiniteSet(Holding(Worker)')
<1>1. ASSUME NEW S \in SUBSET Worker
      PROVE  /\ IsFiniteSet(Holding(S)')
             /\ Cardinality(Holding(S)') = Cardinality(Holding(S)) + (IF w \in S THEN 1 ELSE 0)
  <2>1. Holding(S)' = IF w \in S THEN Holding(S) \cup {w} ELSE Holding(S)
    BY HoldingAfter
  <2>2. w \notin Holding(S)
    BY DEF Holding
  <2>3. IsFiniteSet(Holding(S)) /\ Cardinality(Holding(S)) \in Nat
    BY HoldingFinite
  <2> HIDE DEF Holding
  <2>4. CASE w \in S
    BY <2>1, <2>2, <2>3, <2>4, FS_AddElement
  <2>5. CASE w \notin S
    BY <2>1, <2>3, <2>5
  <2> QED
    BY <2>4, <2>5
<1>2. /\ active'.all = Cardinality(Holding(Worker)')
      /\ active'.image = Cardinality(Holding(Images)')
      /\ active'.video = Cardinality(Holding(Videos)')
  BY <1>1, Kinds DEF CountersExact
<1>3. reserved' = CreditsOf(Holding(Worker)')
  <2>1. Holding(Worker)' = Holding(Worker) \cup {w} /\ w \notin Holding(Worker)
    BY HoldingAfter, Kinds DEF Holding
  <2>2. IsFiniteSet(Holding(Worker)) /\ Holding(Worker) \in SUBSET Worker
    BY HoldingFinite, Kinds
  <2>3. CreditsOf(Holding(Worker) \cup {w}) = CreditsOf(Holding(Worker)) + CostOf(w)
    BY <2>1, <2>2, CreditsAdd
  <2> QED
    BY <2>1, <2>3 DEF CountersExact
<1> QED
  BY <1>1, <1>2, <1>3, Kinds DEF CountersExact

\* release_connection uncounts it, and never meets a counter that is too low.
LEMMA CountedDown ==
    ASSUME TypeOK, CountersExact, PaidInv, NEW w \in Worker,
           worker[w].phase # "idle", Release(w)
    PROVE  CountersExact' /\ IsFiniteSet(Holding(Worker)')
<1> Idle.phase = "idle" /\ worker' = [worker EXCEPT ![w] = Idle]
  BY DEF Release, Idle
<1>1. ASSUME NEW S \in SUBSET Worker
      PROVE  /\ IsFiniteSet(Holding(S)') /\ Cardinality(Holding(S)) \in Nat
             /\ Cardinality(Holding(S)') = Cardinality(Holding(S)) - (IF w \in S THEN 1 ELSE 0)
             /\ Cardinality(Holding(S)') \in Nat
  <2>1. Holding(S)' = Holding(S) \ {w}
    BY HoldingAfter
  <2>2. w \in Holding(S) <=> w \in S
    BY DEF Holding
  <2>3. IsFiniteSet(Holding(S)) /\ Cardinality(Holding(S)) \in Nat
    BY HoldingFinite
  <2>4. IsFiniteSet(Holding(S) \ {w})
        /\ Cardinality(Holding(S) \ {w})
             = IF w \in Holding(S) THEN Cardinality(Holding(S)) - 1 ELSE Cardinality(Holding(S))
    BY <2>3, FS_RemoveElement
  <2>5. Cardinality(Holding(S) \ {w}) \in Nat
    BY <2>4, FS_CardinalityType
  <2> QED
    BY <2>1, <2>2, <2>3, <2>4, <2>5
<1>2. /\ active'.all = Cardinality(Holding(Worker)')
      /\ active'.image = Cardinality(Holding(Images)')
      /\ active'.video = Cardinality(Holding(Videos)')
  BY <1>1, Kinds DEF CountersExact, Release, Down
<1>3. reserved' = CreditsOf(Holding(Worker)')
  <2>1. Holding(Worker)' = Holding(Worker) \ {w} /\ w \in Holding(Worker)
    BY HoldingAfter, Kinds DEF Holding
  <2>2. IsFiniteSet(Holding(Worker)) /\ Holding(Worker) \in SUBSET Worker
    BY HoldingFinite, Kinds
  <2>3. CreditsOf(Holding(Worker) \ {w}) = CreditsOf(Holding(Worker)) - CostOf(w)
    BY <2>1, <2>2, CreditsRemove
  <2>4. IsFiniteSet(Holding(Worker) \ {w}) /\ CreditsOf(Holding(Worker) \ {w}) \in Nat
    BY <2>2, FS_RemoveElement, CreditsType
  <2> QED
    BY <2>1, <2>2, <2>3, <2>4, CreditsType, Costs DEF CountersExact, Release, Down
<1>4. active' = [all |-> active'.all, image |-> active'.image, video |-> active'.video]
  BY DEF Release
<1> QED
  BY <1>1, <1>2, <1>3, <1>4, Kinds DEF CountersExact

-----------------------------------------------------------------------------
(* The books: actions of the coroutines.                                   *)

\* Who relies on a balance after the row of one coroutine has changed.
LEMMA RowsAfter ==
    ASSUME TypeOK, NEW w \in Worker, NEW r, worker' = [worker EXCEPT ![w] = r]
    PROVE  /\ \A u \in Worker : worker'[u] = IF u = w THEN r ELSE worker[u]
           /\ \A b : Promised(b)' = IF w \in Videos /\ r.phase = "holding" /\ r.basis = b
                                    THEN Promised(b) \cup {w} ELSE Promised(b) \ {w}
           /\ \A b : PayingFrom(b)' = IF w \in Videos /\ r.phase = "paying" /\ r.basis = b
                                      THEN PayingFrom(b) \cup {w} ELSE PayingFrom(b) \ {w}
           /\ Paying' = IF r.phase = "paying" THEN Paying \cup {w} ELSE Paying \ {w}
<1>1. \A u \in Worker : worker'[u] = IF u = w THEN r ELSE worker[u]
  BY DEF TypeOK
<1>2. \A b : Promised(b)' = IF w \in Videos /\ r.phase = "holding" /\ r.basis = b
                            THEN Promised(b) \cup {w} ELSE Promised(b) \ {w}
  BY <1>1, Kinds DEF Promised
<1>3. \A b : PayingFrom(b)' = IF w \in Videos /\ r.phase = "paying" /\ r.basis = b
                              THEN PayingFrom(b) \cup {w} ELSE PayingFrom(b) \ {w}
  BY <1>1, Kinds DEF PayingFrom
<1>4. Paying' = IF r.phase = "paying" THEN Paying \cup {w} ELSE Paying \ {w}
  BY <1>1 DEF Paying
<1> QED
  BY <1>1, <1>2, <1>3, <1>4

LEMMA PartsFinite ==
    ASSUME PaidInv, NEW b
    PROVE  /\ IsFiniteSet(Promised(b)) /\ Promised(b) \in SUBSET Worker
           /\ IsFiniteSet(PayingFrom(b)) /\ PayingFrom(b) \in SUBSET Worker
           /\ IsFiniteSet(Paying) /\ Paying \in SUBSET Worker
           /\ CreditsOf(Promised(b)) \in Nat /\ CreditsOf(PayingFrom(b)) \in Nat
           /\ Cardinality(Paying) \in Nat
           /\ Promised(b) \cup PayingFrom(b) \in SUBSET Holding(Worker)
           /\ Promised(b) \cap PayingFrom(b) = {}
<1>1. /\ Promised(b) \in SUBSET Holding(Worker) /\ PayingFrom(b) \in SUBSET Holding(Worker)
      /\ Paying \in SUBSET Holding(Worker) /\ Holding(Worker) \in SUBSET Worker
  BY Kinds DEF Promised, PayingFrom, Paying, Holding
<1>2. IsFiniteSet(Promised(b)) /\ IsFiniteSet(PayingFrom(b)) /\ IsFiniteSet(Paying)
  BY <1>1, FS_Subset DEF PaidInv
<1>3. Promised(b) \cap PayingFrom(b) = {}
  BY DEF Promised, PayingFrom
<1>4. CreditsOf(Promised(b)) \in Nat /\ CreditsOf(PayingFrom(b)) \in Nat
  BY <1>1, <1>2, CreditsType
<1> QED
  BY <1>1, <1>2, <1>3, <1>4, FS_CardinalityType

\* What is promised and being paid on one balance is part of what is reserved.
LEMMA PartReserved ==
    ASSUME PaidInv, CountersExact, NEW b
    PROVE  CreditsOf(Promised(b)) + CreditsOf(PayingFrom(b)) <= reserved
<1>1. CreditsOf(Promised(b) \cup PayingFrom(b)) = CreditsOf(Promised(b)) + CreditsOf(PayingFrom(b))
  BY PartsFinite, CreditsSplit
<1>2. IsFiniteSet(Holding(Worker)) /\ Holding(Worker) \in SUBSET Worker
  BY HoldingFinite, Kinds
<1>3. CreditsOf(Promised(b) \cup PayingFrom(b)) <= CreditsOf(Holding(Worker))
  BY <1>2, PartsFinite, CreditsSubset
<1> QED
  BY <1>1, <1>3 DEF CountersExact

LEMMA ReserveBooks ==
    ASSUME IInv, NEW w \in Worker, Reserve(w)
    PROVE  Books'
<1> DEFINE r == [phase |-> "holding", object |-> live,
                 basis |-> IF w \in Videos THEN conn[live].credits ELSE Unknown]
<1>1. /\ worker[w] = Idle /\ worker[w].phase = "idle" /\ live \in Object
      /\ worker' = [worker EXCEPT ![w] = r]
      /\ UNCHANGED <<live, opened, conn, switching, refresh, reads, drawn, paid>>
  BY DEF IInv, TypeOK, Books, WorkerInv, Reserve
<1>2. /\ w \in Videos <=> r.basis # Unknown
      /\ r.basis \in Known \cup {Unknown}
      /\ r.basis # Unknown => r.basis = conn[live].credits
  BY <1>1 DEF IInv, TypeOK, Books, VisibleInv, Reserve, CanReserve
<1>3. \A b : w \notin Promised(b) /\ w \notin PayingFrom(b) /\ w \notin Paying
  BY <1>1 DEF Promised, PayingFrom, Paying
<1>4. /\ \A u \in Worker : worker'[u] = IF u = w THEN r ELSE worker[u]
      /\ \A b : PayingFrom(b)' = PayingFrom(b)
      /\ \A b : Promised(b)' = IF w \in Videos /\ r.basis = b THEN Promised(b) \cup {w}
                                                              ELSE Promised(b)
      /\ Paying' = Paying
  <2>1. r.phase = "holding"
    OBVIOUS
  <2> HIDE DEF r
  <2>2. /\ \A u \in Worker : worker'[u] = IF u = w THEN r ELSE worker[u]
        /\ \A b : Promised(b)' = IF w \in Videos /\ r.phase = "holding" /\ r.basis = b
                                 THEN Promised(b) \cup {w} ELSE Promised(b) \ {w}
        /\ \A b : PayingFrom(b)' = IF w \in Videos /\ r.phase = "paying" /\ r.basis = b
                                   THEN PayingFrom(b) \cup {w} ELSE PayingFrom(b) \ {w}
        /\ Paying' = IF r.phase = "paying" THEN Paying \cup {w} ELSE Paying \ {w}
    BY <1>1, RowsAfter DEF IInv
  <2> QED
    BY <1>3, <2>1, <2>2
<1> HIDE DEF r
<1>5. AnswerInv'
  <2>1. ASSUME NEW b, Unused(b), b # Unknown
        PROVE  Unused(b)'
    BY <1>1, <1>2, <1>4, <2>1 DEF Unused
  <2>2. \A b \in Balance : b # Unknown
    BY Numbers
  <2> QED
    BY <1>1, <2>1, <2>2 DEF IInv, Books, AnswerInv, Known
<1>6. VisibleInv'
  BY <1>1, <1>2, <1>4 DEF IInv, Books, VisibleInv, Known, r
<1>7. BalanceOfThisIdentity'
  BY <1>1 DEF IInv, Books, BalanceOfThisIdentity
<1>8. WorkerInv'
  BY <1>1, <1>2, <1>4 DEF IInv, Books, WorkerInv, Known, r
<1>9. CountersExact' /\ IsFiniteSet(Holding(Worker)')
  <2>1. r.phase # "idle"
    BY DEF r
  <2> QED
    BY <1>1, <2>1, CountedUp DEF IInv, Books, Reserve
<1>10. PaidInv'
  BY <1>1, <1>4, <1>9 DEF IInv, Books, PaidInv
<1>11. BalanceNotReused'
  <2> SUFFICES ASSUME NEW b \in 1..Len(reads)
               PROVE  drawn[b] + CreditsOf(Promised(b)') <= reads[b].amount
    BY <1>1 DEF BalanceNotReused
  <2>1. CASE w \in Videos /\ r.basis = b
    <3>1. b = conn[live].credits /\ reads[b].amount - reserved >= Cost[w]
      BY <1>2, <2>1, Numbers DEF Reserve, CanReserve, Unknown
    <3>2. drawn[b] <= CreditsOf(PayingFrom(b))
      BY <1>1, <1>2, <2>1, <3>1 DEF IInv, Books, VisibleInv
    <3>3. CreditsOf(Promised(b)) + CreditsOf(PayingFrom(b)) <= reserved
      BY PartReserved DEF IInv, Books
    <3>4. CreditsOf(Promised(b)') = CreditsOf(Promised(b)) + Cost[w]
      <4>1. Promised(b)' = Promised(b) \cup {w} /\ CostOf(w) = Cost[w]
        BY <1>4, <2>1 DEF CostOf
      <4> QED
        BY <1>3, <4>1, PartsFinite, CreditsAdd DEF IInv, Books
    <3>5. /\ drawn[b] \in Nat /\ reads[b].amount \in Nat /\ reserved \in Nat /\ Cost[w] \in Nat
          /\ CreditsOf(Promised(b)) \in Nat /\ CreditsOf(PayingFrom(b)) \in Nat
      <4>1. b \in Balance /\ reads[b].amount \in Nat
        BY Readings DEF Known
      <4>2. drawn[b] \in Nat /\ reserved \in Nat /\ Cost[w] \in Nat
        BY <2>1, <4>1, CreditsAssumption DEF IInv, TypeOK
      <4> QED
        BY <4>1, <4>2, PartsFinite DEF IInv, Books
    <3> DEFINE p == CreditsOf(Promised(b))
               q == CreditsOf(PayingFrom(b))
               n == CreditsOf(Promised(b)')
               a == reads[b].amount
               d == drawn[b]
               c == Cost[w]
    <3>6. a - reserved >= c /\ d <= q /\ p + q <= reserved /\ n = p + c
      BY <3>1, <3>2, <3>3, <3>4
    <3>7. d \in Nat /\ a \in Nat /\ reserved \in Nat /\ c \in Nat /\ p \in Nat /\ q \in Nat
      BY <3>5
    <3> HIDE DEF p, q, n, a, d, c
    <3>8. d + n <= a
      BY <3>6, <3>7
    <3> QED
      BY <3>8 DEF n, a, d
  <2>2. CASE ~(w \in Videos /\ r.basis = b)
    BY <1>4, <2>2 DEF IInv, Books, BalanceNotReused
  <2> QED
    BY <2>1, <2>2
<1> QED
  BY <1>5, <1>6, <1>7, <1>8, <1>9, <1>10, <1>11 DEF Books

LEMMA LeaveBooks ==
    ASSUME IInv, NEW w \in Worker, Leave(w)
    PROVE  Books'
<1>1. /\ worker[w].phase = "holding" /\ worker' = [worker EXCEPT ![w] = Idle]
      /\ Idle.phase = "idle" /\ Idle.basis = Unknown
      /\ UNCHANGED <<live, opened, conn, switching, refresh, reads, drawn, paid>>
  BY DEF Leave, Release, Idle
<1>2. /\ \A u \in Worker : worker'[u] = IF u = w THEN Idle ELSE worker[u]
      /\ \A b : Promised(b)' = Promised(b) \ {w}
      /\ \A b : PayingFrom(b)' = PayingFrom(b)
      /\ Paying' = Paying
  <2>1. \A b : w \notin PayingFrom(b) /\ w \notin Paying
    BY <1>1 DEF PayingFrom, Paying
  <2>2. /\ \A u \in Worker : worker'[u] = IF u = w THEN Idle ELSE worker[u]
        /\ \A b : Promised(b)' = IF w \in Videos /\ Idle.phase = "holding" /\ Idle.basis = b
                                 THEN Promised(b) \cup {w} ELSE Promised(b) \ {w}
        /\ \A b : PayingFrom(b)' = IF w \in Videos /\ Idle.phase = "paying" /\ Idle.basis = b
                                   THEN PayingFrom(b) \cup {w} ELSE PayingFrom(b) \ {w}
        /\ Paying' = IF Idle.phase = "paying" THEN Paying \cup {w} ELSE Paying \ {w}
    BY <1>1, RowsAfter DEF IInv
  <2> QED
    BY <1>1, <2>1, <2>2
<1>3. AnswerInv'
  <2>1. ASSUME NEW b, Unused(b), b # Unknown
        PROVE  Unused(b)'
    BY <1>1, <1>2, <2>1 DEF Unused
  <2>2. \A b \in Balance : b # Unknown
    BY Numbers
  <2> QED
    BY <1>1, <2>1, <2>2 DEF IInv, Books, AnswerInv, Known
<1>4. VisibleInv'
  BY <1>1, <1>2 DEF IInv, Books, VisibleInv, Known
<1>5. BalanceOfThisIdentity'
  BY <1>1 DEF IInv, Books, BalanceOfThisIdentity
<1>6. WorkerInv'
  BY <1>1, <1>2 DEF IInv, Books, WorkerInv, Known
<1>7. CountersExact' /\ IsFiniteSet(Holding(Worker)')
  <2>1. Release(w)
    BY DEF Leave
  <2> QED
    BY <1>1, <2>1, CountedDown DEF IInv, Books
<1>8. PaidInv'
  BY <1>1, <1>2, <1>7 DEF IInv, Books, PaidInv
<1>9. BalanceNotReused'
  <2> SUFFICES ASSUME NEW b \in 1..Len(reads)
               PROVE  drawn[b] + CreditsOf(Promised(b)') <= reads[b].amount
    BY <1>1 DEF BalanceNotReused
  <2>1. drawn[b] + CreditsOf(Promised(b)) <= reads[b].amount
    BY DEF IInv, Books, BalanceNotReused
  <2>2. Promised(b)' \in SUBSET Promised(b)
    BY <1>2
  <2>3. /\ CreditsOf(Promised(b)') <= CreditsOf(Promised(b))
        /\ CreditsOf(Promised(b)') \in Nat /\ CreditsOf(Promised(b)) \in Nat
    <3>1. IsFiniteSet(Promised(b)) /\ Promised(b) \in SUBSET Worker
      BY PartsFinite DEF IInv, Books
    <3>2. IsFiniteSet(Promised(b)') /\ Promised(b)' \in SUBSET Worker
      BY <2>2, <3>1, FS_Subset
    <3> QED
      BY <2>2, <3>1, <3>2, CreditsSubset, CreditsType
  <2>4. drawn[b] \in Nat /\ reads[b].amount \in Nat
    BY Readings DEF IInv, TypeOK, Known
  <2> QED
    BY <2>1, <2>3, <2>4
<1> QED
  BY <1>3, <1>4, <1>5, <1>6, <1>7, <1>8, <1>9 DEF Books

LEMMA SendPaidBooks ==
    ASSUME IInv, NEW w \in Worker, SendPaid(w)
    PROVE  Books'
<1> DEFINE r == [worker[w] EXCEPT !.phase = "paying"]
           k == worker[w].basis
<1>1. /\ w \in Videos /\ worker[w].phase = "holding" /\ worker' = [worker EXCEPT ![w] = r]
      /\ UNCHANGED <<live, opened, conn, switching, refresh, active, reserved, reads>>
      /\ paid' = [paid EXCEPT !.sent = @ + 1] /\ drawn' = [drawn EXCEPT ![k] = @ + Cost[w]]
  BY DEF SendPaid
<1>2. /\ r.phase = "paying" /\ r.basis = k /\ r.object = worker[w].object
      /\ k \in Known /\ k \in Balance /\ k # Unknown /\ r.object \in Object
      /\ Cost[w] \in Nat /\ CostOf(w) = Cost[w]
  <2>1. r.phase = "paying" /\ r.basis = k /\ r.object = worker[w].object
    BY DEF IInv, TypeOK
  <2>2. k \in Known /\ k # Unknown /\ worker[w].object \in Object
    BY <1>1, Readings DEF IInv, Books, WorkerInv
  <2>3. Cost[w] \in Nat /\ CostOf(w) = Cost[w]
    BY <1>1, CreditsAssumption DEF CostOf
  <2> QED
    BY <2>1, <2>2, <2>3, Readings
<1> HIDE DEF r
<1>3. /\ \A u \in Worker : worker'[u] = IF u = w THEN r ELSE worker[u]
      /\ \A b : Promised(b)' = Promised(b) \ {w}
      /\ \A b : PayingFrom(b)' = IF b = k THEN PayingFrom(b) \cup {w} ELSE PayingFrom(b)
      /\ Paying' = Paying \cup {w} /\ w \notin Paying
      /\ w \in Promised(k) /\ w \notin PayingFrom(k)
  <2>1. /\ \A u \in Worker : worker'[u] = IF u = w THEN r ELSE worker[u]
        /\ \A b : Promised(b)' = IF w \in Videos /\ r.phase = "holding" /\ r.basis = b
                                 THEN Promised(b) \cup {w} ELSE Promised(b) \ {w}
        /\ \A b : PayingFrom(b)' = IF w \in Videos /\ r.phase = "paying" /\ r.basis = b
                                   THEN PayingFrom(b) \cup {w} ELSE PayingFrom(b) \ {w}
        /\ Paying' = IF r.phase = "paying" THEN Paying \cup {w} ELSE Paying \ {w}
    BY <1>1, RowsAfter DEF IInv
  <2>2. w \notin Paying /\ w \in Promised(k) /\ \A b : w \notin PayingFrom(b)
    BY <1>1 DEF Paying, PayingFrom, Promised
  <2>3. \A b : k # b => w \notin Promised(b)
    BY DEF Promised
  <2> HIDE DEF k
  <2> QED
    BY <1>1, <1>2, <2>1, <2>2, <2>3
<1>4. \A b \in Balance : drawn'[b] = IF b = k THEN drawn[b] + Cost[w] ELSE drawn[b]
  BY <1>1 DEF IInv, TypeOK
<1> HIDE DEF k
<1>5. AnswerInv'
  <2>1. ASSUME NEW b \in Balance, Unused(b)
        PROVE  Unused(b)'
    <3>1. b # k
      BY <2>1 DEF Unused, k
    <3> QED
      BY <1>1, <1>2, <1>3, <1>4, <2>1, <3>1 DEF Unused
  <2>2. \A b \in Known : b \in Balance
    BY Readings
  <2> QED
    BY <1>1, <2>1, <2>2 DEF IInv, Books, AnswerInv, Known
<1>6. VisibleInv'
  <2> SUFFICES ASSUME NEW o \in Object, conn[o].credits # Unknown, NEW c, c = conn[o].credits
               PROVE  /\ c \in Known
                      /\ \A q \in Object : conn[q].credits = c => q = o
                      /\ \A u \in Worker : worker'[u].basis = c => worker'[u].object = o
                      /\ drawn'[c] <= CreditsOf(PayingFrom(c)')
    BY <1>1 DEF VisibleInv, Known
  <2>1. /\ c \in Known
        /\ \A q \in Object : conn[q].credits = c => q = o
        /\ \A u \in Worker : worker[u].basis = c => worker[u].object = o
        /\ drawn[c] <= CreditsOf(PayingFrom(c))
    BY DEF IInv, Books, VisibleInv
  <2>2. \A u \in Worker : worker'[u].basis = c => worker'[u].object = o
    BY <1>2, <1>3, <2>1 DEF k
  <2>3. drawn'[c] <= CreditsOf(PayingFrom(c)')
    <3>1. c \in Balance
      BY <2>1, Readings
    <3>2. CASE c = k
      <4>1. CreditsOf(PayingFrom(k) \cup {w}) = CreditsOf(PayingFrom(k)) + Cost[w]
        BY <1>2, <1>3, PartsFinite, CreditsAdd DEF IInv, Books
      <4>2. drawn[k] \in Nat /\ CreditsOf(PayingFrom(k)) \in Nat
        BY <1>2, PartsFinite DEF IInv, TypeOK, Books
      <4>3. PayingFrom(c)' = PayingFrom(k) \cup {w} /\ drawn'[c] = drawn[k] + Cost[w]
        BY <1>2, <1>3, <1>4, <3>2
      <4> QED
        BY <1>2, <2>1, <3>2, <4>1, <4>2, <4>3
    <3>3. CASE c # k
      BY <1>3, <1>4, <2>1, <3>1, <3>3
    <3> QED
      BY <3>2, <3>3
  <2> QED
    BY <2>1, <2>2, <2>3
<1>7. BalanceOfThisIdentity'
  BY <1>1 DEF IInv, Books, BalanceOfThisIdentity
<1>8. WorkerInv'
  BY <1>1, <1>2, <1>3 DEF IInv, Books, WorkerInv, Known, k
<1>9. /\ Holding(Worker)' = Holding(Worker) /\ Holding(Images)' = Holding(Images)
      /\ Holding(Videos)' = Holding(Videos)
  BY <1>1, <1>2, <1>3, Kinds DEF Holding
<1>10. CountersExact'
  BY <1>1, <1>9 DEF IInv, Books, CountersExact
<1>11. PaidInv'
  <2>1. Cardinality(Paying \cup {w}) = Cardinality(Paying) + 1
    BY <1>3, PartsFinite, FS_AddElement DEF IInv, Books
  <2>2. paid'.sent = paid.sent + 1 /\ paid'.finished = paid.finished
    BY <1>1 DEF IInv, TypeOK
  <2>3. paid.finished \in Nat /\ paid.sent \in Nat
    BY Numbers DEF IInv, TypeOK
  <2> QED
    BY <1>3, <1>9, <2>1, <2>2, <2>3, PartsFinite DEF IInv, Books, PaidInv
<1>12. BalanceNotReused'
  <2> SUFFICES ASSUME NEW b \in 1..Len(reads)
               PROVE  drawn'[b] + CreditsOf(Promised(b)') <= reads[b].amount
    BY <1>1 DEF BalanceNotReused
  <2>1. drawn[b] + CreditsOf(Promised(b)) <= reads[b].amount /\ b \in Balance
    BY Readings DEF IInv, Books, BalanceNotReused, Known
  <2>2. CASE b = k
    <3>1. CreditsOf(Promised(b) \ {w}) = CreditsOf(Promised(b)) - Cost[w]
      BY <1>2, <1>3, <2>2, PartsFinite, CreditsRemove DEF IInv, Books
    <3>2. drawn[b] \in Nat /\ CreditsOf(Promised(b)) \in Nat /\ reads[b].amount \in Nat
      BY <2>1, PartsFinite, Readings DEF IInv, TypeOK, Books, Known
    <3>3. Promised(b)' = Promised(b) \ {w} /\ drawn'[b] = drawn[b] + Cost[w]
      BY <1>3, <1>4, <2>1, <2>2
    <3> QED
      BY <1>2, <2>1, <3>1, <3>2, <3>3
  <2>3. CASE b # k
    <3>1. w \notin Promised(b)
      BY <2>3 DEF Promised, k
    <3> QED
      BY <1>3, <1>4, <2>1, <2>3, <3>1
  <2> QED
    BY <2>2, <2>3
<1> QED
  BY <1>5, <1>6, <1>7, <1>8, <1>10, <1>11, <1>12 DEF Books

LEMMA FinishPaidBooks ==
    ASSUME IInv, NEW w \in Worker, FinishPaid(w)
    PROVE  Books'
<1> DEFINE x == worker[w].object
<1>1. /\ worker[w].phase = "paying" /\ worker' = [worker EXCEPT ![w] = Idle]
      /\ Idle.phase = "idle" /\ Idle.basis = Unknown
      /\ conn' = [conn EXCEPT ![x].credits = Unknown]
      /\ paid' = [paid EXCEPT !.finished = @ + 1]
      /\ UNCHANGED <<live, opened, switching, reads, drawn>>
  BY DEF FinishPaid, Release, Idle
<1>2. w \in Videos /\ x \in Object
  BY <1>1 DEF IInv, Books, WorkerInv
<1>3. \A o \in Object : /\ conn'[o].credits = IF o = x THEN Unknown ELSE conn[o].credits
                        /\ conn'[o].generation = conn[o].generation
  BY <1>1, <1>2 DEF IInv, TypeOK, Connection
<1>4. /\ \A u \in Worker : worker'[u] = IF u = w THEN Idle ELSE worker[u]
      /\ \A b : Promised(b)' = Promised(b)
      /\ \A b : PayingFrom(b)' = PayingFrom(b) \ {w}
      /\ Paying' = Paying \ {w} /\ w \in Paying
  <2>1. /\ \A u \in Worker : worker'[u] = IF u = w THEN Idle ELSE worker[u]
        /\ \A b : Promised(b)' = IF w \in Videos /\ Idle.phase = "holding" /\ Idle.basis = b
                                 THEN Promised(b) \cup {w} ELSE Promised(b) \ {w}
        /\ \A b : PayingFrom(b)' = IF w \in Videos /\ Idle.phase = "paying" /\ Idle.basis = b
                                   THEN PayingFrom(b) \cup {w} ELSE PayingFrom(b) \ {w}
        /\ Paying' = IF Idle.phase = "paying" THEN Paying \cup {w} ELSE Paying \ {w}
    BY <1>1, RowsAfter DEF IInv
  <2>2. w \in Paying /\ \A b : w \notin Promised(b)
    BY <1>1 DEF Paying, Promised
  <2> QED
    BY <1>1, <2>1, <2>2
<1>5. /\ refresh'.phase \in {"read", "answered"} => refresh' = refresh
      /\ \A b : Unused(b) /\ b # Unknown => Unused(b)'
  <2>1. refresh'.phase \in {"read", "answered"} => refresh' = refresh
    BY DEF FinishPaid, Schedule, Asleep, NoRefresh
  <2>2. \A b : Unused(b) /\ b # Unknown => Unused(b)'
    BY <1>1, <1>3, <1>4 DEF Unused
  <2> QED
    BY <2>1, <2>2
<1> HIDE DEF x
<1>6. AnswerInv'
  <2>1. \A b \in Balance : b # Unknown
    BY Numbers
  <2> QED
    BY <1>1, <1>5, <2>1 DEF IInv, Books, AnswerInv, Known
<1>7. VisibleInv'
  <2> SUFFICES ASSUME NEW o \in Object, conn'[o].credits # Unknown, NEW c, c = conn'[o].credits
               PROVE  /\ c \in Known
                      /\ \A q \in Object : conn'[q].credits = c => q = o
                      /\ \A u \in Worker : worker'[u].basis = c => worker'[u].object = o
                      /\ drawn[c] <= CreditsOf(PayingFrom(c)')
    BY <1>1 DEF VisibleInv, Known
  <2>1. o # x /\ conn[o].credits = c
    BY <1>3
  <2>2. /\ c \in Known
        /\ \A q \in Object : conn[q].credits = c => q = o
        /\ \A u \in Worker : worker[u].basis = c => worker[u].object = o
        /\ drawn[c] <= CreditsOf(PayingFrom(c))
    BY <2>1 DEF IInv, Books, VisibleInv
  <2>3. w \notin PayingFrom(c)
    BY <2>1, <2>2 DEF PayingFrom, x
  <2>4. PayingFrom(c)' = PayingFrom(c)
    BY <1>4, <2>3
  <2>5. \A q \in Object : conn'[q].credits = c => q = o
    BY <1>3, <2>2
  <2>6. \A u \in Worker : worker'[u].basis = c => worker'[u].object = o
    BY <1>1, <1>4, <2>2
  <2> QED
    BY <2>2, <2>4, <2>5, <2>6
<1>8. BalanceOfThisIdentity'
  BY <1>1, <1>3 DEF IInv, Books, BalanceOfThisIdentity
<1>9. WorkerInv'
  BY <1>1, <1>4 DEF IInv, Books, WorkerInv, Known
<1>10. CountersExact' /\ IsFiniteSet(Holding(Worker)')
  <2>1. Release(w)
    BY DEF FinishPaid
  <2> QED
    BY <1>1, <2>1, CountedDown DEF IInv, Books
<1>11. PaidInv'
  <2>1. Cardinality(Paying \ {w}) = Cardinality(Paying) - 1
    BY <1>4, PartsFinite, FS_RemoveElement DEF IInv, Books
  <2>2. paid'.finished = paid.finished + 1 /\ paid'.sent = paid.sent
    BY <1>1 DEF IInv, TypeOK
  <2>3. paid.finished \in Nat /\ paid.sent \in Nat
    BY Numbers DEF IInv, TypeOK
  <2> QED
    BY <1>4, <1>10, <2>1, <2>2, <2>3, PartsFinite DEF IInv, Books, PaidInv
<1>12. BalanceNotReused'
  BY <1>1, <1>4 DEF IInv, Books, BalanceNotReused
<1> QED
  BY <1>6, <1>7, <1>8, <1>9, <1>10, <1>11, <1>12 DEF Books

-----------------------------------------------------------------------------
(* The books: the connector and the refresh task.                          *)

\* What no coroutine of a worker does leaves the slots and the totals alone.
LEMMA SlotsKept ==
    ASSUME IInv, UNCHANGED <<worker, active, reserved, drawn, paid>>
    PROVE  /\ PaidInv' /\ CountersExact'
           /\ \A b : Promised(b)' = Promised(b) /\ PayingFrom(b)' = PayingFrom(b)
<1>1. \A S : Holding(S)' = Holding(S)
  BY DEF Holding
<1>2. Paying' = Paying
  BY DEF Paying
<1>3. \A b : Promised(b)' = Promised(b) /\ PayingFrom(b)' = PayingFrom(b)
  BY DEF Promised, PayingFrom
<1> QED
  BY <1>1, <1>2, <1>3 DEF IInv, Books, PaidInv, CountersExact

\* Forgetting a balance, or an answer, never hurts.
LEMMA Forgotten ==
    ASSUME IInv, UNCHANGED <<worker, active, reserved, reads, drawn, paid>>,
           \A o \in Object : \/ conn'[o].credits = Unknown
                             \/ /\ conn'[o].credits = conn[o].credits
                                /\ conn'[o].generation = conn[o].generation,
           refresh'.phase \in {"read", "answered"} =>
             /\ refresh.phase \in {"read", "answered"} /\ refresh'.balance = refresh.balance
             /\ refresh'.generation = refresh.generation
    PROVE  Books'
<1>1. \A b : Unused(b) /\ b # Unknown => Unused(b)'
  BY DEF Unused
<1>2. AnswerInv'
  <2>1. \A b \in Balance : b # Unknown
    BY Numbers
  <2> QED
    BY <1>1, <2>1 DEF IInv, Books, AnswerInv, Known
<1>3. VisibleInv'
  BY SlotsKept DEF IInv, Books, VisibleInv, Known
<1>4. BalanceOfThisIdentity'
  BY DEF IInv, Books, BalanceOfThisIdentity
<1>5. WorkerInv'
  BY DEF IInv, Books, WorkerInv, Known
<1>6. BalanceNotReused'
  BY SlotsKept DEF IInv, Books, BalanceNotReused
<1> QED
  BY <1>2, <1>3, <1>4, <1>5, <1>6, SlotsKept DEF Books

LEMMA BalanceReadBooks ==
    ASSUME IInv, BalanceRead
    PROVE  Books'
<1> DEFINE n == Len(reads) + 1
<1>1. PICK amount \in Amounts :
        reads' = Append(reads, [amount |-> amount, object |-> live,
                                generation |-> refresh.generation, finished |-> paid.finished])
  BY DEF BalanceRead
<1>2. /\ Len(reads') = n /\ n \in Balance /\ n # Unknown /\ Len(reads) \in Nat
      /\ \A b \in Known : reads'[b] = reads[b]
      /\ reads'[n].amount = amount /\ amount \in Nat
      /\ reads'[n].generation = refresh.generation /\ reads'[n].object = live
  <2> DEFINE R == [amount: Amounts, object: Object, generation: 0..MaxGen, finished: Nat]
             e == [amount |-> amount, object |-> live,
                   generation |-> refresh.generation, finished |-> paid.finished]
  <2>1. Len(reads) \in Nat /\ Len(reads) < MaxReads /\ MaxReads \in Nat
    BY Readings, Numbers DEF BalanceRead
  <2>2. reads \in Seq(R)
    BY DEF IInv, TypeOK
  <2>3. e \in R
    BY Numbers DEF IInv, TypeOK, Session, TaskInv, BalanceRead
  <2>4. e.amount = amount /\ e.generation = refresh.generation /\ e.object = live
    OBVIOUS
  <2> HIDE DEF R, e
  <2>5. reads' = Append(reads, e)
    BY <1>1 DEF e
  <2>6. /\ Len(reads') = n /\ reads'[n] = e
        /\ \A b \in 1..Len(reads) : reads'[b] = reads[b]
    BY <2>2, <2>3, <2>5, AppendProperties
  <2> QED
    BY <2>1, <2>4, <2>6, CreditsAssumption DEF Known, Balance, Unknown
<1>3. /\ UNCHANGED <<live, opened, conn, switching, worker, active, reserved, drawn, paid>>
      /\ refresh'.phase = "read" /\ refresh'.balance = n
      /\ refresh'.generation = refresh.generation
  BY <1>2 DEF BalanceRead, RefreshOnly, IInv, TypeOK
<1> HIDE DEF n
<1>4. /\ Known' = Known \cup {n}
      /\ Unused(n)
      /\ \A b : Unused(b)' <=> Unused(b)
  <2>1. Known' = Known \cup {n}
    BY <1>2 DEF Known, n
  <2>2. Unused(n)
    <3>1. n > Len(reads)
      BY <1>2 DEF n
    <3> QED
      BY <1>2, <3>1 DEF IInv, Books, AnswerInv
  <2>3. \A b : Unused(b)' <=> Unused(b)
    BY <1>3 DEF Unused
  <2> QED
    BY <2>1, <2>2, <2>3
<1>5. AnswerInv'
  <2>1. \A b \in Balance : b > Len(reads') => b > Len(reads)
    BY <1>2, Numbers DEF n, Balance
  <2> QED
    BY <1>2, <1>3, <1>4, <2>1 DEF IInv, Books, AnswerInv
<1>6. VisibleInv'
  BY <1>3, <1>4, SlotsKept DEF IInv, Books, VisibleInv
<1>7. BalanceOfThisIdentity'
  <2>1. \A o \in Object : conn[o].credits # Unknown => conn[o].credits \in Known
    BY DEF IInv, Books, VisibleInv
  <2> QED
    BY <1>2, <1>3, <2>1 DEF IInv, Books, BalanceOfThisIdentity
<1>8. WorkerInv'
  BY <1>3, <1>4 DEF IInv, Books, WorkerInv
<1>9. BalanceNotReused'
  <2> SUFFICES ASSUME NEW b \in Known \cup {n}
               PROVE  drawn[b] + CreditsOf(Promised(b)) <= reads'[b].amount
    BY <1>3, <1>4, SlotsKept DEF BalanceNotReused, Known
  <2>1. CASE b = n
    <3>1. Promised(n) = {}
      BY <1>4, Kinds DEF Unused, Promised
    <3>2. drawn[n] = 0
      BY <1>4 DEF Unused
    <3>3. CreditsOf(Promised(n)) = 0
      BY <3>1, CreditsEmpty
    <3> QED
      BY <1>2, <2>1, <3>2, <3>3
  <2>2. CASE b \in Known
    BY <1>2, <2>2 DEF IInv, Books, BalanceNotReused, Known
  <2> QED
    BY <2>1, <2>2
<1> QED
  BY <1>3, <1>5, <1>6, <1>7, <1>8, <1>9, SlotsKept DEF Books

LEMMA RefreshSucceedsBooks ==
    ASSUME IInv, RefreshSucceeds
    PROVE  Books'
<1> DEFINE k == refresh.balance
<1>1. /\ live \in Object /\ refresh.generation = conn[live].generation
      /\ refresh'.phase = "acking"
      /\ conn' = [conn EXCEPT ![live].credits = k, ![live].tier = TRUE]
      /\ UNCHANGED <<worker, active, reserved, reads, drawn, paid>>
  BY DEF RefreshSucceeds, SameSession, RefreshOnly, IInv, TypeOK
<1>2. /\ k # Unknown /\ k \in Known /\ k \in Balance
      /\ reads[k].generation = refresh.generation /\ Unused(k)
  BY Readings DEF RefreshSucceeds, IInv, Books, AnswerInv
<1>3. \A o \in Object : /\ conn'[o].credits = IF o = live THEN k ELSE conn[o].credits
                        /\ conn'[o].generation = conn[o].generation
  BY <1>1 DEF IInv, TypeOK, Connection
<1> HIDE DEF k
<1>4. AnswerInv'
  <2>1. ASSUME NEW b \in Balance, b > Len(reads), Unused(b)
        PROVE  Unused(b)'
    <3>1. b # k
      BY <1>2, <2>1, Readings DEF Known
    <3>2. \A o \in Object : conn'[o].credits # b
      BY <1>3, <2>1, <3>1 DEF Unused
    <3> QED
      BY <1>1, <2>1, <3>2 DEF Unused
  <2> QED
    BY <1>1, <2>1 DEF IInv, Books, AnswerInv
<1>5. VisibleInv'
  <2> SUFFICES ASSUME NEW o \in Object, conn'[o].credits # Unknown, NEW c, c = conn'[o].credits
               PROVE  /\ c \in Known
                      /\ \A q \in Object : conn'[q].credits = c => q = o
                      /\ \A u \in Worker : worker[u].basis = c => worker[u].object = o
                      /\ drawn[c] <= CreditsOf(PayingFrom(c))
    BY <1>1, SlotsKept DEF VisibleInv, Known
  <2>1. CASE o = live
    <3>1. c = k /\ drawn[k] = 0
      BY <1>2, <1>3, <2>1 DEF Unused
    <3>2. CreditsOf(PayingFrom(k)) \in Nat
      BY PartsFinite DEF IInv, Books
    <3> QED
      BY <1>2, <1>3, <2>1, <3>1, <3>2 DEF Unused
  <2>2. CASE o # live
    <3>1. c = conn[o].credits /\ c # k
      BY <1>2, <1>3, <2>2 DEF Unused
    <3> QED
      BY <1>3, <3>1 DEF IInv, Books, VisibleInv
  <2> QED
    BY <2>1, <2>2
<1>6. BalanceOfThisIdentity'
  <2> SUFFICES ASSUME NEW o \in Object, conn'[o].credits # Unknown,
                      reads[conn'[o].credits].object = o
               PROVE  reads[conn'[o].credits].generation = conn'[o].generation
    BY <1>1 DEF BalanceOfThisIdentity
  <2>1. CASE o = live
    BY <1>1, <1>2, <1>3, <2>1
  <2>2. CASE o # live
    BY <1>3, <2>2 DEF IInv, Books, BalanceOfThisIdentity
  <2> QED
    BY <2>1, <2>2
<1>7. WorkerInv'
  BY <1>1 DEF IInv, Books, WorkerInv, Known
<1>8. BalanceNotReused'
  BY <1>1, SlotsKept DEF IInv, Books, BalanceNotReused
<1> QED
  BY <1>1, <1>4, <1>5, <1>6, <1>7, <1>8, SlotsKept DEF Books

\* Every action keeps the books.
LEMMA BooksStep ==
    ASSUME IInv, [Next]_vars
    PROVE  Books'
<1>1. ASSUME UNCHANGED conn, UNCHANGED <<worker, active, reserved, reads, drawn, paid>>,
             refresh'.phase \in {"read", "answered"} =>
               /\ refresh.phase \in {"read", "answered"} /\ refresh'.balance = refresh.balance
               /\ refresh'.generation = refresh.generation
      PROVE  Books'
  BY <1>1, Forgotten
<1>2. CASE Register \/ Disconnect
  <2>1. UNCHANGED conn /\ UNCHANGED <<worker, active, reserved, reads, drawn, paid>>
    BY <1>2 DEF Register, Disconnect
  <2>2. refresh' = refresh \/ refresh' = [refresh EXCEPT !.phase = "broken"]
    BY <1>2 DEF Register, Disconnect, BreakRequest
  <2>3. [refresh EXCEPT !.phase = "broken"].phase = "broken"
    BY DEF IInv, TypeOK
  <2>4. refresh'.phase \in {"read", "answered"} => refresh' = refresh
    BY <2>2, <2>3
  <2> QED
    BY <1>1, <2>1, <2>4
<1>3. CASE (\E o \in Object : RestartRefresh(o)) \/ ApiKeyChanged
  BY <1>1, <1>3 DEF RestartRefresh, ApiKeyChanged, Schedule, Asleep, NoRefresh
<1>4. CASE BalanceDelivered
  <2>1. /\ refresh.phase = "read"
        /\ refresh'.balance = refresh.balance /\ refresh'.generation = refresh.generation
    BY <1>4 DEF BalanceDelivered, IInv, TypeOK
  <2>2. UNCHANGED conn /\ UNCHANGED <<worker, active, reserved, reads, drawn, paid>>
    BY <1>4 DEF BalanceDelivered, RefreshOnly
  <2> QED
    BY <1>1, <2>1, <2>2
<1>5. CASE RefreshDropped \/ RefreshDecides
  BY <1>1, <1>5 DEF RefreshDropped, RefreshDecides, RefreshOnly, Asleep, NoRefresh
<1>6. CASE AuthAvailable \/ UserInfo \/ InvalidateAuth
  <2>1. /\ UNCHANGED <<refresh, worker, active, reserved, reads, drawn, paid>>
        /\ live \in Object
    BY <1>6 DEF AuthAvailable, UserInfo, InvalidateAuth, IInv, TypeOK
  <2>2. \A o \in Object : \/ conn'[o].credits = Unknown
                          \/ /\ conn'[o].credits = conn[o].credits
                             /\ conn'[o].generation = conn[o].generation
    <3>1. conn \in [Object -> Connection] /\ conn[live] \in Connection
      BY <2>1 DEF IInv, TypeOK
    <3>2. CASE AuthAvailable
      BY <2>1, <3>1, <3>2 DEF AuthAvailable
    <3>3. CASE UserInfo
      BY <2>1, <3>1, <3>3 DEF UserInfo, Connection
    <3>4. CASE InvalidateAuth
      BY <2>1, <3>1, <3>4 DEF InvalidateAuth, Invalid, Connection
    <3> QED
      BY <1>6, <3>2, <3>3, <3>4
  <2> QED
    BY <2>1, <2>2, Forgotten
<1>7. CASE RefreshWakes
  <2>1. /\ UNCHANGED <<worker, active, reserved, reads, drawn, paid>>
        /\ refresh'.phase \notin {"read", "answered"}
    <3>1. refresh' = NoRefresh \/ \E phase \in {"asked", "acking"} :
            refresh' = [refresh EXCEPT !.phase = phase, !.generation = conn[live].generation]
      BY <1>7 DEF RefreshWakes
    <3>2. refresh \in [phase: RefreshPhase, generation: 0..MaxGen, balance: Balance \cup {Unknown}]
      BY DEF IInv, TypeOK
    <3>3. \A phase, g : [refresh EXCEPT !.phase = phase, !.generation = g].phase = phase
      BY <3>2
    <3>4. refresh' = NoRefresh => refresh'.phase = "none"
      BY DEF NoRefresh
    <3>5. ASSUME NEW phase \in {"asked", "acking"},
                 refresh' = [refresh EXCEPT !.phase = phase, !.generation = conn[live].generation]
          PROVE  refresh'.phase \notin {"read", "answered"}
      <4>1. refresh'.phase = phase
        BY <3>3, <3>5
      <4> QED
        BY <3>5, <4>1
    <3>6. refresh'.phase \notin {"read", "answered"}
      BY <3>1, <3>4, <3>5
    <3>7. UNCHANGED <<live, opened, switching, worker, active, reserved, drawn, paid>>
          /\ UNCHANGED reads
      BY <1>7, Zenon DEF RefreshWakes, RefreshOnly
    <3> QED
      BY <3>6, <3>7
  <2>2. \A o \in Object : \/ conn'[o].credits = Unknown
                          \/ conn'[o] = conn[o]
    BY <1>7 DEF RefreshWakes, IInv, TypeOK, Connection
  <2> QED
    BY <2>1, <2>2, Forgotten
<1>8. CASE RefreshFails
  <2>1. PICK c \in {conn[live], [conn[live] EXCEPT !.credits = Unknown, !.tier = FALSE],
                    Invalid(conn[live])} : conn' = [conn EXCEPT ![live] = c]
    BY <1>8 DEF RefreshFails
  <2>2. /\ UNCHANGED <<worker, active, reserved, reads, drawn, paid>>
        /\ refresh'.phase \notin {"read", "answered"} /\ live \in Object
    BY <1>8 DEF RefreshFails, RefreshOnly, SameSession, IInv, TypeOK
  <2>3. conn[live] \in Connection
    BY <2>2 DEF IInv, TypeOK
  <2>4. c.credits = Unknown \/ c = conn[live]
    BY <2>1, <2>3 DEF Invalid, Connection
  <2>5. \A o \in Object : \/ conn'[o].credits = Unknown
                          \/ conn'[o] = conn[o]
    BY <2>1, <2>2, <2>4 DEF IInv, TypeOK
  <2> QED
    BY <2>2, <2>5, Forgotten
<1>9. CASE UNCHANGED vars
  BY <1>1, <1>9 DEF vars
<1>10. CASE \E w \in Worker : Reserve(w) \/ Leave(w) \/ SendPaid(w) \/ FinishPaid(w)
  BY <1>10, ReserveBooks, LeaveBooks, SendPaidBooks, FinishPaidBooks
<1> QED
  BY <1>2, <1>3, <1>4, <1>5, <1>6, <1>7, <1>8, <1>9, <1>10, BalanceReadBooks, RefreshSucceedsBooks
     DEF Next

-----------------------------------------------------------------------------
(* Types.                                                                  *)

\* A connection stays one.
LEMMA ConnType ==
    ASSUME IInv, [Next]_vars
    PROVE  conn' \in [Object -> Connection]
<1>1. \A o \in Object : conn[o] \in Connection
  BY DEF IInv, TypeOK
<1>2. ASSUME NEW c \in Connection
      PROVE  /\ [c EXCEPT !.credits = Unknown] \in Connection
             /\ [c EXCEPT !.email = TRUE] \in Connection
             /\ [c EXCEPT !.credits = Unknown, !.tier = FALSE] \in Connection
             /\ Invalid(c) \in Connection
             /\ \A b \in Balance : [c EXCEPT !.credits = b, !.tier = TRUE] \in Connection
  BY <1>2 DEF Connection, Invalid
<1>3. ASSUME NEW o \in Object \cup {0}, NEW c, o \in Object => c \in Connection,
             conn' = [conn EXCEPT ![o] = c]
      PROVE  conn' \in [Object -> Connection]
  BY <1>3, Numbers DEF IInv, TypeOK
<1>4. live \in Object \cup {0} /\ \A w \in Worker : worker[w].object \in Object \cup {0}
  BY DEF IInv, TypeOK
<1>5. ASSUME NEW w \in Worker, FinishPaid(w)
      PROVE  conn' \in [Object -> Connection]
  <2>1. conn' = [conn EXCEPT ![worker[w].object] = [conn[worker[w].object] EXCEPT !.credits = Unknown]]
    BY <1>5 DEF FinishPaid
  <2> QED
    BY <1>1, <1>2, <1>3, <1>4, <2>1
<1>6. CASE AuthAvailable
  <2>1. conn[live].generation + 1 \in 0..MaxGen
    <3>1. conn[live].generation \in 0..MaxGen /\ conn[live].generation < MaxGen
      BY <1>1, <1>4, <1>6 DEF AuthAvailable, Connection
    <3> QED
      BY <3>1, Numbers
  <2>2. [flow_key |-> TRUE, email |-> FALSE, tier |-> FALSE,
         generation |-> conn[live].generation + 1, credits |-> Unknown] \in Connection
    BY <2>1 DEF Connection
  <2> QED
    BY <1>3, <1>4, <1>6, <2>2 DEF AuthAvailable
<1>7. CASE UserInfo
  <2>1. conn' = [conn EXCEPT ![live] = [conn[live] EXCEPT !.email = TRUE]]
    BY <1>7 DEF UserInfo
  <2> QED
    BY <1>1, <1>2, <1>3, <1>4, <2>1
<1>8. CASE InvalidateAuth
  BY <1>1, <1>2, <1>3, <1>4, <1>8 DEF InvalidateAuth
<1>9. CASE RefreshWakes
  <2>1. \/ UNCHANGED conn
        \/ conn' = [conn EXCEPT ![live] = [conn[live] EXCEPT !.credits = Unknown]]
    BY <1>9 DEF RefreshWakes
  <2> QED
    BY <1>1, <1>2, <1>3, <1>4, <2>1 DEF IInv, TypeOK
<1>10. CASE RefreshSucceeds
  <2>1. refresh.balance \in Balance
    BY <1>10, Readings DEF RefreshSucceeds, IInv, Books, AnswerInv
  <2>2. conn' = [conn EXCEPT ![live] = [conn[live] EXCEPT !.credits = refresh.balance, !.tier = TRUE]]
    BY <1>10 DEF RefreshSucceeds
  <2> QED
    BY <1>1, <1>2, <1>3, <1>4, <2>1, <2>2
<1>11. CASE RefreshFails
  BY <1>1, <1>2, <1>3, <1>4, <1>11 DEF RefreshFails
<1>12. CASE UNCHANGED conn
  BY <1>12 DEF IInv, TypeOK
<1> QED
  BY <1>5, <1>6, <1>7, <1>8, <1>9, <1>10, <1>11, <1>12
     DEF Next, vars, Reserve, Leave, SendPaid, Register, Disconnect, RestartRefresh, ApiKeyChanged,
         BalanceRead, BalanceDelivered, RefreshDropped, RefreshDecides

Task == [phase: RefreshPhase, generation: 0..MaxGen, balance: Balance \cup {Unknown}]

LEMMA TaskType ==
    ASSUME IInv, [Next]_vars
    PROVE  refresh' \in Task
<1>1. /\ NoRefresh \in Task /\ Asleep \in Task
      /\ \A p \in RefreshPhase : [refresh EXCEPT !.phase = p] \in Task
      /\ refresh \in Task
  <2>1. 0 \in 0..MaxGen
    BY Numbers
  <2>2. NoRefresh \in Task /\ Asleep \in Task
    BY <2>1 DEF Task, NoRefresh, Asleep, RefreshPhase
  <2>3. refresh \in Task /\ \A p \in RefreshPhase : [refresh EXCEPT !.phase = p] \in Task
    BY DEF IInv, TypeOK, Task
  <2> QED
    BY <2>2, <2>3
<1>2. CASE RefreshWakes
  <2>1. CASE live = 0 \/ ~conn[live].flow_key
    BY <1>1, <1>2, <2>1 DEF RefreshWakes
  <2>2. CASE ~(live = 0 \/ ~conn[live].flow_key)
    <3>1. conn[live].generation \in 0..MaxGen
      BY <2>2 DEF IInv, TypeOK, Connection
    <3>2. \A p \in RefreshPhase, g \in 0..MaxGen :
            [refresh EXCEPT !.phase = p, !.generation = g] \in Task
      BY DEF IInv, TypeOK, Task
    <3>3. PICK p \in RefreshPhase :
            refresh' = [refresh EXCEPT !.phase = p, !.generation = conn[live].generation]
      BY <1>2, <2>2 DEF RefreshWakes, RefreshPhase
    <3> QED
      BY <3>1, <3>2, <3>3
  <2> QED
    BY <2>1, <2>2
<1>3. CASE BalanceRead
  <2>1. refresh' = [refresh EXCEPT !.phase = "read", !.balance = Len(reads')]
    BY <1>3 DEF BalanceRead
  <2>2. Len(reads') \in Balance
    <3>1. reads \in Seq([amount: Amounts, object: Object, generation: 0..MaxGen, finished: Nat])
      BY DEF IInv, TypeOK
    <3>2. Len(reads') = Len(reads) + 1
      BY <1>3, <3>1 DEF BalanceRead
    <3> QED
      BY <1>3, <3>2, Readings, Numbers DEF BalanceRead, Balance
  <2> QED
    BY <2>1, <2>2 DEF IInv, TypeOK, Task, RefreshPhase
<1>4. CASE UNCHANGED refresh
  BY <1>1, <1>4
<1>5. CASE \/ \E w \in Worker : FinishPaid(w)
           \/ Register \/ Disconnect \/ (\E o \in Object : RestartRefresh(o)) \/ ApiKeyChanged
           \/ BalanceDelivered \/ RefreshDropped \/ RefreshSucceeds \/ RefreshFails \/ RefreshDecides
  BY <1>1, <1>5
     DEF FinishPaid, Register, Disconnect, RestartRefresh, ApiKeyChanged, BalanceDelivered,
         RefreshDropped, RefreshSucceeds, RefreshFails, RefreshDecides, Schedule, BreakRequest,
         RefreshPhase
<1> QED
  BY <1>2, <1>3, <1>4, <1>5
     DEF Next, vars, Reserve, Leave, SendPaid, AuthAvailable, UserInfo, InvalidateAuth

LEMMA RowType ==
    ASSUME IInv, [Next]_vars
    PROVE  worker' \in [Worker -> [phase: {"idle", "holding", "paying"}, object: Object \cup {0},
                                   basis: Balance \cup {Unknown}]]
<1> DEFINE Row == [phase: {"idle", "holding", "paying"}, object: Object \cup {0},
                   basis: Balance \cup {Unknown}]
<1>1. worker \in [Worker -> Row]
  BY DEF IInv, TypeOK
<1>2. ASSUME NEW w \in Worker, Reserve(w)
      PROVE  worker' \in [Worker -> Row]
  <2>1. live \in Object /\ conn[live].credits \in Balance \cup {Unknown}
    BY <1>2 DEF Reserve, IInv, TypeOK, Connection
  <2> QED
    BY <1>1, <1>2, <2>1 DEF Reserve
<1>3. ASSUME NEW w \in Worker, Leave(w) \/ FinishPaid(w)
      PROVE  worker' \in [Worker -> Row]
  BY <1>1, <1>3 DEF Leave, FinishPaid, Release, Idle
<1>4. ASSUME NEW w \in Worker, SendPaid(w)
      PROVE  worker' \in [Worker -> Row]
  BY <1>1, <1>4 DEF SendPaid
<1>5. CASE UNCHANGED worker
  BY <1>1, <1>5
<1> QED
  BY <1>2, <1>3, <1>4, <1>5
     DEF Next, vars, Register, Disconnect, AuthAvailable, RestartRefresh, UserInfo, ApiKeyChanged,
         InvalidateAuth, RefreshWakes, BalanceRead, BalanceDelivered, RefreshDropped,
         RefreshSucceeds, RefreshFails, RefreshDecides, RefreshOnly

\* A balance that has just been read says which connection it was read on.
LEMMA ReadsType ==
    ASSUME IInv, [Next]_vars
    PROVE  /\ reads' \in Seq([amount: Amounts, object: Object, generation: 0..MaxGen, finished: Nat])
           /\ Len(reads') <= MaxReads
<1> DEFINE R == [amount: Amounts, object: Object, generation: 0..MaxGen, finished: Nat]
<1>1. reads \in Seq(R) /\ Len(reads) <= MaxReads
  BY DEF IInv, TypeOK
<1>2. CASE BalanceRead
  <2>1. live \in Object
    BY <1>2 DEF BalanceRead, IInv, TypeOK, Session, TaskInv
  <2>2. refresh.generation \in 0..MaxGen /\ paid.finished \in Nat
    BY Numbers DEF IInv, TypeOK
  <2>3. PICK amount \in Amounts :
          reads' = Append(reads, [amount |-> amount, object |-> live,
                                  generation |-> refresh.generation, finished |-> paid.finished])
    BY <1>2 DEF BalanceRead
  <2> DEFINE r == [amount |-> amount, object |-> live,
                   generation |-> refresh.generation, finished |-> paid.finished]
  <2>4. r \in R /\ reads' = Append(reads, r) /\ Len(reads) < MaxReads
    BY <1>2, <2>1, <2>2, <2>3 DEF BalanceRead
  <2>5. Len(reads) \in Nat /\ MaxReads \in Nat
    BY <1>1, Numbers
  <2> HIDE DEF r, R
  <2> QED
    BY <1>1, <2>4, <2>5, AppendProperties DEF R
<1>3. CASE UNCHANGED reads
  BY <1>1, <1>3
<1> QED
  BY <1>2, <1>3, Zenon
     DEF Next, vars, Reserve, Leave, SendPaid, FinishPaid, Register, Disconnect, AuthAvailable,
         RestartRefresh, UserInfo, ApiKeyChanged, InvalidateAuth, RefreshWakes, BalanceDelivered,
         RefreshDropped, RefreshSucceeds, RefreshFails, RefreshDecides

\* The counters are numbers because they count.
LEMMA CountersType ==
    ASSUME CountersExact, PaidInv
    PROVE  active \in [all: Nat, image: Nat, video: Nat] /\ reserved \in Nat
<1>1. /\ Cardinality(Holding(Worker)) \in Nat /\ Cardinality(Holding(Images)) \in Nat
      /\ Cardinality(Holding(Videos)) \in Nat
  BY HoldingFinite, Kinds
<1>2. IsFiniteSet(Holding(Worker)) /\ Holding(Worker) \in SUBSET Worker
  BY HoldingFinite, Kinds
<1> QED
  BY <1>1, <1>2, CreditsType DEF CountersExact

\* What was drawn and paid: an attempt is finished by the coroutine that sent it.
LEMMA PaidType ==
    ASSUME IInv, [Next]_vars, PaidInv'
    PROVE  drawn' \in [Balance -> Nat] /\ paid' \in [sent: 0..MaxPaid, finished: 0..MaxPaid]
<1>1. drawn \in [Balance -> Nat] /\ paid \in [sent: 0..MaxPaid, finished: 0..MaxPaid]
  BY DEF IInv, TypeOK
<1>2. ASSUME NEW w \in Worker, SendPaid(w)
      PROVE  drawn' \in [Balance -> Nat] /\ paid' \in [sent: 0..MaxPaid, finished: 0..MaxPaid]
  <2>1. Cost[w] \in Nat
    BY <1>2, CreditsAssumption DEF SendPaid
  <2>2. \A b \in Balance : drawn[b] + Cost[w] \in Nat
    BY <1>1, <2>1
  <2>3. drawn' \in [Balance -> Nat]
    BY <1>1, <1>2, <2>2 DEF SendPaid
  <2>4. paid.sent + 1 \in 0..MaxPaid
    BY <1>1, <1>2, Numbers DEF SendPaid
  <2> QED
    BY <1>1, <1>2, <2>3, <2>4 DEF SendPaid
<1>3. ASSUME NEW w \in Worker, FinishPaid(w)
      PROVE  drawn' \in [Balance -> Nat] /\ paid' \in [sent: 0..MaxPaid, finished: 0..MaxPaid]
  <2>1. drawn' = drawn /\ paid' = [paid EXCEPT !.finished = paid.finished + 1]
    BY <1>3 DEF FinishPaid
  <2>2. IsFiniteSet(Paying) /\ Cardinality(Paying) \in Nat /\ w \in Paying
    BY <1>3, PartsFinite DEF IInv, Books, FinishPaid, Paying
  <2>3. Cardinality(Paying) # 0
    BY <2>2, FS_EmptySet
  <2>4. paid.sent = paid.finished + Cardinality(Paying)
    BY DEF IInv, Books, PaidInv
  <2>5. paid.finished + 1 \in 0..MaxPaid
    BY <1>1, <2>2, <2>3, <2>4, Numbers
  <2> QED
    BY <1>1, <2>1, <2>5
<1>4. CASE UNCHANGED <<drawn, paid>>
  BY <1>1, <1>4
<1> QED
  BY <1>2, <1>3, <1>4, Zenon
     DEF Next, vars, Reserve, Leave, Register, Disconnect, AuthAvailable, RestartRefresh, UserInfo,
         ApiKeyChanged, InvalidateAuth, RefreshWakes, BalanceRead, BalanceDelivered,
         RefreshDropped, RefreshSucceeds, RefreshFails, RefreshDecides, RefreshOnly

\* The sockets.
LEMMA SocketsType ==
    ASSUME IInv, [Next]_vars
    PROVE  /\ live' \in Object \cup {0} /\ opened' \in 0..MaxObjects /\ switching' \subseteq Object
<1>1. live \in Object \cup {0} /\ opened \in 0..MaxObjects /\ switching \subseteq Object
  BY DEF IInv, TypeOK
<1>2. CASE Register
  BY <1>1, <1>2, Numbers DEF Register, Object
<1>3. CASE Disconnect
  BY <1>1, <1>3 DEF Disconnect
<1>4. CASE AuthAvailable
  BY <1>1, <1>4 DEF AuthAvailable
<1>5. ASSUME NEW o \in Object, RestartRefresh(o)
      PROVE  /\ live' \in Object \cup {0} /\ opened' \in 0..MaxObjects /\ switching' \subseteq Object
  BY <1>1, <1>5 DEF RestartRefresh
<1>6. CASE UNCHANGED <<live, opened, switching>>
  BY <1>1, <1>6
<1> QED
  BY <1>2, <1>3, <1>4, <1>5, <1>6, Zenon
     DEF Next, vars, Reserve, Leave, SendPaid, FinishPaid, UserInfo, ApiKeyChanged, InvalidateAuth,
         RefreshWakes, BalanceRead, BalanceDelivered, RefreshDropped, RefreshSucceeds,
         RefreshFails, RefreshDecides, RefreshOnly

-----------------------------------------------------------------------------
(* The theorems.                                                           *)

LEMMA Initially == Init => IInv
<1> SUFFICES ASSUME Init PROVE IInv
  OBVIOUS
<1>1. Len(reads) = 0 /\ Len(reads) <= MaxReads /\ Known = {}
  BY Numbers DEF Init, Known
<1>2. \A S \in SUBSET Worker : Holding(S) = {}
  BY DEF Init, Holding, Idle
<1>3. Paying = {} /\ \A b : Promised(b) = {} /\ PayingFrom(b) = {}
  BY Kinds DEF Init, Paying, Promised, PayingFrom, Idle
<1>4. TypeOK
  <2>1. 0 \in 0..MaxObjects /\ 0 \in 0..MaxGen /\ 0 \in 0..MaxPaid
    BY Numbers
  <2>2. live \in Object \cup {0} /\ opened \in 0..MaxObjects /\ switching \subseteq Object
    BY <2>1 DEF Init
  <2>3. conn \in [Object -> Connection]
    BY <2>1 DEF Init, Connection
  <2>4. refresh \in [phase: RefreshPhase, generation: 0..MaxGen, balance: Balance \cup {Unknown}]
    BY <2>1 DEF Init, NoRefresh, RefreshPhase
  <2>5. worker \in [Worker -> [phase: {"idle", "holding", "paying"}, object: Object \cup {0},
                              basis: Balance \cup {Unknown}]]
    BY DEF Init, Idle
  <2>6. /\ active \in [all: Nat, image: Nat, video: Nat] /\ reserved \in Nat
        /\ drawn \in [Balance -> Nat] /\ paid \in [sent: 0..MaxPaid, finished: 0..MaxPaid]
    BY <2>1 DEF Init
  <2>7. reads \in Seq([amount: Amounts, object: Object, generation: 0..MaxGen, finished: Nat])
    BY DEF Init
  <2> QED
    BY <2>2, <2>3, <2>4, <2>5, <2>6, <2>7 DEF TypeOK
<1>5. Session
  BY DEF Init, Session, ObjectInv, TaskInv, RefreshPending, NoRefresh
<1>6. \A b \in Balance : Unused(b)
  BY Numbers DEF Init, Unused, Idle
<1>7. AnswerInv /\ VisibleInv /\ BalanceOfThisIdentity /\ BalanceNotReused
  BY <1>1, <1>6 DEF Init, AnswerInv, VisibleInv, BalanceOfThisIdentity, BalanceNotReused, NoRefresh,
                    Known
<1>8. WorkerInv
  BY DEF Init, WorkerInv, Idle
<1>9. PaidInv /\ CountersExact
  <2>1. Holding(Worker) = {} /\ Holding(Images) = {} /\ Holding(Videos) = {}
    BY <1>2, Kinds
  <2>2. IsFiniteSet({}) /\ Cardinality({}) = 0
    BY FS_EmptySet
  <2> QED
    BY <1>3, <2>1, <2>2, CreditsEmpty DEF Init, PaidInv, CountersExact
<1> QED
  BY <1>1, <1>4, <1>5, <1>7, <1>8, <1>9 DEF IInv, Books

LEMMA Inductive == IInv /\ [Next]_vars => IInv'
<1> SUFFICES ASSUME IInv, [Next]_vars PROVE IInv'
  OBVIOUS
<1>1. Session' /\ Books'
  BY SessionStep, BooksStep
<1>2. CountersExact' /\ PaidInv'
  BY <1>1 DEF Books
<1>3. active' \in [all: Nat, image: Nat, video: Nat] /\ reserved' \in Nat
  <2>1. CountersExact /\ PaidInv => active \in [all: Nat, image: Nat, video: Nat] /\ reserved \in Nat
    BY CountersType
  <2>2. (CountersExact /\ PaidInv => active \in [all: Nat, image: Nat, video: Nat]
                                      /\ reserved \in Nat)'
    BY CountersType, PTL
  <2> QED
    BY <1>2, <2>2
<1>4. TypeOK'
  BY <1>2, <1>3, SocketsType, ConnType, TaskType, RowType, ReadsType, PaidType DEF TypeOK, Task
<1> QED
  BY <1>1, <1>4, ReadsType DEF IInv

\* The inductive invariant holds in every reachable state.
THEOREM Invariant == Spec => []IInv
BY Initially, Inductive, PTL DEF Spec

\* The type invariant.
THEOREM TypeCorrect == Spec => []TypeOK
<1>1. IInv => TypeOK
  BY DEF IInv
<1> QED
  BY <1>1, Invariant, PTL

\* Runtime.reserve_connection and release_connection: the counters kept under the
\* connection id count the coroutines that hold a slot, and their credits.
THEOREM SlotsCounted == Spec => []CountersExact
<1>1. IInv => CountersExact
  BY DEF IInv, Books
<1> QED
  BY <1>1, Invariant, PTL

\* can_reserve: what was sent and what may still be sent on the strength of one
\* balance stays within it, whatever the sockets and the refreshes do meanwhile.
THEOREM BalancesNotReused == Spec => []BalanceNotReused
<1>1. IInv => BalanceNotReused
  BY DEF IInv, Books
<1> QED
  BY <1>1, Invariant, PTL

\* FlowBridge.refresh_account compares generations before it stores the balance: a
\* balance read on a socket is of the identity the socket has now.
THEOREM BalancesOfThisIdentity == Spec => []BalanceOfThisIdentity
<1>1. IInv => BalanceOfThisIdentity
  BY DEF IInv, Books
<1> QED
  BY <1>1, Invariant, PTL

\* schedule_account_refresh and its runner: a connection that has a key and no
\* balance has a refresh that will look at it again.
THEOREM RefreshIsPending == Spec => []RefreshPending
<1>1. IInv => RefreshPending
  BY DEF IInv, Session
<1> QED
  BY <1>1, Invariant, PTL

-----------------------------------------------------------------------------
(* The ledger.                                                             *)

\* What a step may do to a balance: its state s and amount m become t and n.
BalanceMove(s, t, m, n) ==
    \/ s = "unread" /\ t = "fetched" /\ n \in Nat
    \/ /\ n = m
       /\ \/ t = s
          \/ s = "fetched" /\ t = "offered"
          \/ s \in {"fetched", "offered"} /\ t = "gone"

\* A balance that is fetched is not shown, and the ones to come are neither.
LEMMA LedgerFacts ==
    ASSUME IInv, NEW b \in Balance
    PROVE  /\ b # Unknown /\ b > 0
           /\ Shown(b) => ~Fetched(b) /\ b <= Len(reads)
           /\ Fetched(b) => b <= Len(reads)
<1>1. b # Unknown /\ b \in Nat /\ b > 0 /\ Len(reads) \in Nat
  BY Numbers, Readings DEF Balance, Unknown
<1>2. Fetched(b) => Unused(b) /\ b <= Len(reads)
  BY <1>1 DEF IInv, Books, AnswerInv, Fetched, Known
<1>3. b > Len(reads) => Unused(b)
  BY DEF IInv, Books, AnswerInv
<1>4. Shown(b) => ~Unused(b)
  BY DEF IInv, TypeOK, Shown, Unused
<1> QED
  BY <1>1, <1>2, <1>3, <1>4

\* Steps that read nothing, offer nothing and fetch nothing.
LEMMA OnlyDrops ==
    ASSUME IInv, NEW b \in Balance, UNCHANGED reads,
           Shown(b)' => Shown(b), Fetched(b)' => Fetched(b)
    PROVE  BalanceMove(StateOf(b), StateOf(b)', AmountOf(b), AmountOf(b)')
BY LedgerFacts DEF BalanceMove, StateOf, AmountOf

LEMMA BalanceMoves ==
    ASSUME IInv, [Next]_vars, NEW b \in Balance
    PROVE  BalanceMove(StateOf(b), StateOf(b)', AmountOf(b), AmountOf(b)')
<1>0. b # Unknown /\ b \in Nat
  BY LedgerFacts DEF Balance
<1>1. ASSUME UNCHANGED <<reads, live, conn, refresh>>
      PROVE  BalanceMove(StateOf(b), StateOf(b)', AmountOf(b), AmountOf(b)')
  BY <1>1, OnlyDrops DEF Shown, Fetched
<1>2. ASSUME NEW w \in Worker, FinishPaid(w)
      PROVE  BalanceMove(StateOf(b), StateOf(b)', AmountOf(b), AmountOf(b)')
  <2>1. Shown(b)' => Shown(b)
    BY <1>0, <1>2 DEF FinishPaid, Shown, IInv, TypeOK, Connection
  <2>2. Fetched(b)' => Fetched(b)
    BY <1>2 DEF FinishPaid, Schedule, Asleep, NoRefresh, Fetched
  <2> QED
    BY <1>2, <2>1, <2>2, OnlyDrops DEF FinishPaid
<1>3. CASE Register
  <2>1. live' \in Object /\ live' > opened /\ UNCHANGED <<conn, reads>>
    BY <1>3, Numbers DEF Register, Object, IInv, TypeOK
  <2>2. ~Shown(b)'
    BY <1>0, <2>1 DEF Shown, IInv, Session, ObjectInv
  <2>3. Fetched(b)' => Fetched(b)
    BY <1>3 DEF Register, BreakRequest, Fetched
  <2> QED
    BY <2>1, <2>2, <2>3, OnlyDrops
<1>4. CASE Disconnect
  BY <1>4, OnlyDrops DEF Disconnect, BreakRequest, Shown, Fetched
<1>5. CASE AuthAvailable
  <2>1. ~Shown(b)'
    BY <1>0, <1>5 DEF AuthAvailable, Shown, IInv, TypeOK
  <2> QED
    BY <1>5, <2>1, OnlyDrops DEF AuthAvailable, Fetched
<1>6. ASSUME NEW o \in Object, RestartRefresh(o)
      PROVE  BalanceMove(StateOf(b), StateOf(b)', AmountOf(b), AmountOf(b)')
  BY <1>6, OnlyDrops DEF RestartRefresh, Asleep, NoRefresh, Shown, Fetched
<1>7. CASE UserInfo
  <2>1. Shown(b)' => Shown(b)
    BY <1>7 DEF UserInfo, Shown, IInv, TypeOK, Connection
  <2> QED
    BY <1>7, <2>1, OnlyDrops DEF UserInfo, Fetched
<1>8. CASE ApiKeyChanged
  BY <1>8, OnlyDrops DEF ApiKeyChanged, Schedule, Asleep, NoRefresh, Shown, Fetched
<1>9. CASE InvalidateAuth
  <2>1. ~Shown(b)'
    BY <1>0, <1>9 DEF InvalidateAuth, Invalid, Shown, IInv, TypeOK, Connection
  <2> QED
    BY <1>9, <2>1, OnlyDrops DEF InvalidateAuth, Fetched
<1>10. CASE RefreshWakes
  <2>1. Shown(b)' => Shown(b)
    BY <1>0, <1>10 DEF RefreshWakes, RefreshOnly, Shown, IInv, TypeOK, Connection
  <2>2. ~Fetched(b)'
    <3>1. CASE refresh' = NoRefresh
      BY <3>1 DEF NoRefresh, Fetched
    <3>2. ASSUME NEW phase \in {"asked", "acking"}, NEW n,
                 refresh' = [refresh EXCEPT !.phase = phase, !.generation = n]
          PROVE  ~Fetched(b)'
      BY <3>2 DEF Fetched, IInv, TypeOK
    <3> QED
      BY <1>10, <3>1, <3>2 DEF RefreshWakes
  <2> QED
    BY <1>10, <2>1, <2>2, OnlyDrops DEF RefreshWakes
<1>11. CASE BalanceRead
  <2>0. PICK amount \in Amounts :
          reads' = Append(reads, [amount |-> amount, object |-> live,
                                  generation |-> refresh.generation, finished |-> paid.finished])
    BY <1>11 DEF BalanceRead
  <2> DEFINE r == [amount |-> amount, object |-> live,
                   generation |-> refresh.generation, finished |-> paid.finished]
  <2>1. /\ r.amount \in Nat /\ reads' = Append(reads, r) /\ live # 0
        /\ refresh'.balance = Len(reads') /\ ~Fetched(b)
    BY <1>11, <2>0, CreditsAssumption DEF BalanceRead, IInv, TypeOK, Session, TaskInv, Fetched
  <2>2. Len(reads) \in Nat /\ Len(reads') = Len(reads) + 1
    BY <2>1 DEF IInv, TypeOK
  <2>3. /\ b <= Len(reads) => reads'[b] = reads[b]
        /\ b = Len(reads) + 1 => reads'[b] = r
    <3> DEFINE R == [amount: Amounts, object: Object, generation: 0..MaxGen, finished: Nat]
    <3>1. reads \in Seq(R) /\ r \in R
      BY <2>1 DEF IInv, TypeOK
    <3>2. b \in Nat /\ b > 0
      BY <1>0, LedgerFacts
    <3> HIDE DEF R
    <3> QED
      BY <2>1, <2>2, <3>1, <3>2, AppendProperties
  <2>4. (Shown(b)' <=> Shown(b)) /\ (Fetched(b)' <=> b = Len(reads) + 1)
    BY <1>11, <2>1, <2>2 DEF BalanceRead, RefreshOnly, Shown, Fetched, IInv, TypeOK
  <2>5. Shown(b) => b <= Len(reads)
    BY LedgerFacts
  <2>6. CASE b <= Len(reads)
    <3>1. ~(b > Len(reads)) /\ ~(b > Len(reads')) /\ ~(b = Len(reads) + 1)
      BY <1>0, <2>2, <2>6
    <3>2. StateOf(b)' = StateOf(b)
      BY <2>1, <2>4, <3>1 DEF StateOf
    <3>3. AmountOf(b)' = AmountOf(b)
      BY <2>3, <2>6, <3>1 DEF AmountOf
    <3> QED
      BY <3>2, <3>3 DEF BalanceMove
  <2>7. CASE b = Len(reads) + 1
    <3>1. StateOf(b) = "unread"
      BY <1>0, <2>2, <2>7 DEF StateOf
    <3>2. StateOf(b)' = "fetched"
      BY <1>0, <2>2, <2>4, <2>5, <2>7 DEF StateOf
    <3>3. AmountOf(b)' = r.amount
      BY <1>0, <2>2, <2>3, <2>7 DEF AmountOf
    <3> QED
      BY <2>1, <3>1, <3>2, <3>3 DEF BalanceMove
  <2>8. CASE b > Len(reads) + 1
    BY <1>0, <2>1, <2>2, <2>4, <2>8 DEF BalanceMove, StateOf, AmountOf
  <2> QED
    BY <1>0, <2>2, <2>6, <2>7, <2>8
<1>12. CASE BalanceDelivered
  BY <1>12, OnlyDrops DEF BalanceDelivered, RefreshOnly, Shown, Fetched
<1>13. CASE RefreshDropped
  BY <1>13, OnlyDrops DEF RefreshDropped, RefreshOnly, NoRefresh, Shown, Fetched
<1>14. CASE RefreshSucceeds
  <2>1. (Shown(b)' <=> Fetched(b)) /\ ~Fetched(b)' /\ UNCHANGED reads
    BY <1>14 DEF RefreshSucceeds, RefreshOnly, SameSession, Shown, Fetched, IInv, TypeOK, Connection
  <2> QED
    BY <2>1, LedgerFacts DEF BalanceMove, StateOf, AmountOf
<1>15. CASE RefreshFails
  <2>1. Shown(b)' => Shown(b)
    <3>1. PICK c \in {conn[live], [conn[live] EXCEPT !.credits = Unknown, !.tier = FALSE],
                      Invalid(conn[live])} : conn' = [conn EXCEPT ![live] = c]
      BY <1>15 DEF RefreshFails
    <3>2. live \in Object /\ conn[live] \in Connection /\ UNCHANGED live
      BY <1>15 DEF RefreshFails, RefreshOnly, SameSession, IInv, TypeOK
    <3>3. c.credits \in {conn[live].credits, Unknown}
      BY <3>1, <3>2 DEF Invalid, Connection
    <3>4. conn'[live].credits = c.credits
      BY <3>1, <3>2 DEF IInv, TypeOK
    <3> QED
      BY <1>0, <3>2, <3>3, <3>4 DEF Shown
  <2>2. ~Fetched(b)' /\ UNCHANGED reads
    BY <1>15 DEF RefreshFails, Fetched, IInv, TypeOK
  <2> QED
    BY <2>1, <2>2, OnlyDrops
<1>16. CASE RefreshDecides
  BY <1>16, OnlyDrops DEF RefreshDecides, RefreshOnly, Asleep, NoRefresh, Shown, Fetched
<1>17. ASSUME NEW w \in Worker, Reserve(w) \/ Leave(w) \/ SendPaid(w)
      PROVE  BalanceMove(StateOf(b), StateOf(b)', AmountOf(b), AmountOf(b)')
  BY <1>1, <1>17 DEF Reserve, Leave, SendPaid
<1>18. CASE UNCHANGED vars
  BY <1>1, <1>18 DEF vars
<1> QED
  BY <1>2, <1>3, <1>4, <1>5, <1>6, <1>7, <1>8, <1>9, <1>10, <1>11, <1>12, <1>13, <1>14,
     <1>15, <1>16, <1>17, <1>18 DEF Next

\* What the ledger has lent is what the counters still promise.
LEMMA Borrowed ==
    ASSUME IInv, NEW b \in Balance
    PROVE  {v \in Videos : LenderOf(v) = b} = Promised(b)
BY LedgerFacts DEF LenderOf, Promised, Unknown

LEMMA SameCredits ==
    ASSUME NEW S \in SUBSET Videos
    PROVE  Ledger!Credits(S) = CreditsOf(S)
<1>1. \A v \in S : {v} \X (1..Cost[v]) = {v} \X (1..CostOf(v))
  BY DEF CostOf
<1>2. {{v} \X (1..Cost[v]) : v \in S} = {{v} \X (1..CostOf(v)) : v \in S}
  BY <1>1
<1>3. Cardinality(UNION {{v} \X (1..Cost[v]) : v \in S})
        = Cardinality(UNION {{v} \X (1..CostOf(v)) : v \in S})
  BY <1>2
<1> QED
  BY <1>3 DEF CreditsOf, Ledger!Credits, Ledger!Cardinality, Cardinality

\* A video borrows from the balance on offer, which bears it.
LEMMA ReserveLends ==
    ASSUME IInv, IInv', NEW w \in Worker, Reserve(w)
    PROVE  \/ UNCHANGED drawn /\ \A v \in Videos : LenderOf(v)' = LenderOf(v)
           \/ w \in Videos /\ \E b \in Balance :
                /\ StateOf(b) = "offered" /\ LenderOf(w) = 0
                /\ drawn[b] + CreditsOf(Promised(b) \cup {w}) <= AmountOf(b)
                /\ \A v \in Videos : LenderOf(v)' = IF v = w THEN b ELSE LenderOf(v)
                /\ UNCHANGED drawn
<1> DEFINE b == conn[live].credits
           r == [phase |-> "holding", object |-> live,
                 basis |-> IF w \in Videos THEN b ELSE Unknown]
<1>1. /\ live # 0 /\ live \in Object /\ worker[w].phase = "idle" /\ worker' = [worker EXCEPT ![w] = r]
      /\ UNCHANGED <<live, conn, reads, drawn>>
  BY DEF Reserve, IInv, TypeOK
<1>2. \A v \in Videos : v \in Worker
  BY Kinds
<1> HIDE DEF r
<1>3. /\ worker'[w] = r
      /\ \A v \in Videos : v # w => worker'[v] = worker[v] /\ LenderOf(v)' = LenderOf(v)
  BY <1>1, <1>2 DEF LenderOf, IInv, TypeOK
<1>4. CASE w \notin Videos
  BY <1>1, <1>3, <1>4
<1>5. CASE w \in Videos
  <2>1. b # Unknown
    BY <1>5 DEF Reserve, CanReserve
  <2>2. b \in Known
    BY <1>1, <2>1 DEF IInv, Books, VisibleInv
  <2>3. b \in Balance /\ ~(b > Len(reads))
    BY <2>2, Readings DEF Known
  <2>4. StateOf(b) = "offered" /\ AmountOf(b) = reads[b].amount
    BY <1>1, <2>3 DEF StateOf, Shown, AmountOf
  <2>5. LenderOf(w) = 0
    BY <1>1 DEF LenderOf
  <2>6. worker'[w].phase = "holding" /\ worker'[w].basis = b /\ LenderOf(w)' = b
    BY <1>3, <1>5 DEF LenderOf, r
  <2>8. drawn[b] + CreditsOf(Promised(b) \cup {w}) <= AmountOf(b)
    <3>1. PICK k \in Known : k = b
      BY <2>2
    <3>2. BalanceNotReused'
      BY DEF IInv, Books
    <3>3. drawn'[k] + CreditsOf(Promised(k)') <= reads'[k].amount
      BY <1>1, <3>2 DEF BalanceNotReused, Known, CreditsOf, CostOf
    <3>4. Promised(k)' = Promised(k) \cup {w}
      <4> HIDE DEF b
      <4> QED
        BY <1>3, <1>5, <2>6, <3>1 DEF Promised
    <3> QED
      BY <1>1, <2>4, <3>1, <3>3, <3>4
  <2> HIDE DEF b
  <2> QED
    BY <1>1, <1>3, <1>5, <2>3, <2>4, <2>5, <2>6, <2>8
<1> QED
  BY <1>4, <1>5

\* An unused loan is returned, and a paid request spends one.
LEMMA LeaveReturns ==
    ASSUME IInv, NEW w \in Worker, Leave(w)
    PROVE  /\ UNCHANGED drawn
           /\ \A v \in Videos : LenderOf(v)' = IF v = w THEN 0 ELSE LenderOf(v)
           /\ w \in Videos => LenderOf(w) # 0
<1>1. /\ worker[w].phase = "holding" /\ worker' = [worker EXCEPT ![w] = Idle]
      /\ UNCHANGED drawn
  BY DEF Leave, Release
<1>2. \A v \in Videos : v \in Worker
  BY Kinds
<1>3. \A v \in Videos : LenderOf(v)' = IF v = w THEN 0 ELSE LenderOf(v)
  BY <1>1, <1>2 DEF LenderOf, Idle, IInv, TypeOK
<1>4. w \in Videos => LenderOf(w) # 0
  BY <1>1 DEF LenderOf, IInv, Books, WorkerInv, Unknown
<1> QED
  BY <1>1, <1>3, <1>4

LEMMA SendPaidSpends ==
    ASSUME IInv, NEW w \in Worker, SendPaid(w)
    PROVE  /\ w \in Videos /\ LenderOf(w) # 0
           /\ drawn' = [drawn EXCEPT ![LenderOf(w)] = @ + Cost[w]]
           /\ \A v \in Videos : LenderOf(v)' = IF v = w THEN 0 ELSE LenderOf(v)
<1>1. /\ w \in Videos /\ worker[w].phase = "holding"
      /\ worker' = [worker EXCEPT ![w].phase = "paying"]
      /\ drawn' = [drawn EXCEPT ![worker[w].basis] = @ + Cost[w]]
  BY DEF SendPaid
<1>2. \A v \in Videos : v \in Worker
  BY Kinds
<1>3. \A v \in Videos : LenderOf(v)' = IF v = w THEN 0 ELSE LenderOf(v)
  BY <1>1, <1>2 DEF LenderOf, IInv, TypeOK
<1>4. LenderOf(w) # 0
  BY <1>1 DEF LenderOf, IInv, Books, WorkerInv, Unknown
<1> QED
  BY <1>1, <1>3, <1>4 DEF LenderOf

\* The other steps lend nothing: a coroutine that pays has no loan any more.
LEMMA LoansKept ==
    ASSUME IInv, [Next]_vars, \A w \in Worker : ~Reserve(w) /\ ~Leave(w) /\ ~SendPaid(w)
    PROVE  UNCHANGED drawn /\ \A v \in Videos : LenderOf(v)' = LenderOf(v)
<1>1. ASSUME UNCHANGED <<worker, drawn>>
      PROVE  UNCHANGED drawn /\ \A v \in Videos : LenderOf(v)' = LenderOf(v)
  BY <1>1 DEF LenderOf
<1>2. ASSUME NEW w \in Worker, FinishPaid(w)
      PROVE  UNCHANGED drawn /\ \A v \in Videos : LenderOf(v)' = LenderOf(v)
  BY <1>2, Kinds DEF FinishPaid, Release, Idle, LenderOf, IInv, TypeOK
<1>3. CASE Register \/ Disconnect \/ AuthAvailable \/ (\E o \in Object : RestartRefresh(o))
           \/ UserInfo \/ ApiKeyChanged \/ InvalidateAuth
  BY <1>1, <1>3 DEF Register, Disconnect, AuthAvailable, RestartRefresh, UserInfo, ApiKeyChanged,
                    InvalidateAuth
<1>4. CASE RefreshWakes \/ BalanceRead \/ BalanceDelivered \/ RefreshDropped \/ RefreshSucceeds
           \/ RefreshFails \/ RefreshDecides
  BY <1>1, <1>4 DEF RefreshWakes, BalanceRead, BalanceDelivered, RefreshDropped, RefreshSucceeds,
                    RefreshFails, RefreshDecides, RefreshOnly
<1>5. CASE UNCHANGED vars
  BY <1>1, <1>5 DEF vars
<1> QED
  BY <1>2, <1>3, <1>4, <1>5 DEF Next

\* KeepsLedger: whatever sockets, identities, refreshes and coroutines do, the account's
\* balances are read, offered, lent and spent as the ledger allows.
THEOREM Implements == Spec => KeepsLedger
<1> DEFINE state == [b \in Balance |-> StateOf(b)]
           amount == [b \in Balance |-> AmountOf(b)]
           lender == [v \in Videos |-> LenderOf(v)]
<1>1. Init => Ledger!Init
  <2> SUFFICES ASSUME Init PROVE Ledger!Init
    OBVIOUS
  <2>1. \A b \in Balance : b > Len(reads)
    BY Numbers DEF Init, Balance
  <2>2. \A v \in Videos : LenderOf(v) = 0
    BY Kinds DEF Init, LenderOf, Idle
  <2> QED
    BY <2>1, <2>2 DEF Init, Ledger!Init, StateOf, AmountOf
<1>2. IInv /\ [Next]_vars => [Ledger!Next]_<<state, amount, drawn, lender>>
  <2> SUFFICES ASSUME IInv, [Next]_vars PROVE [Ledger!Next]_<<state, amount, drawn, lender>>
    OBVIOUS
  <2>1. \A b \in Balance : BalanceMove(StateOf(b), StateOf(b)', AmountOf(b), AmountOf(b)')
    BY BalanceMoves
  <2>3. ASSUME \A v \in Videos : LenderOf(v)' = LenderOf(v), UNCHANGED drawn
        PROVE  Ledger!Next
    <3>1. lender' = lender
      BY <2>3
    <3> QED
      BY <2>1, <2>3, <3>1
         DEF BalanceMove, Ledger!Next, Ledger!Moves, Ledger!Read, Ledger!Offer, Ledger!Drop,
             Ledger!Keep, Ledger!Move
  <2>4. ASSUME NEW w \in Worker, Reserve(w) \/ Leave(w) \/ SendPaid(w)
        PROVE  UNCHANGED <<state, amount>>
    BY <2>4 DEF Reserve, Leave, SendPaid, StateOf, AmountOf, Shown, Fetched
  <2>5. ASSUME NEW w \in Worker, Reserve(w)
        PROVE  Ledger!Next
    <3>1. CASE UNCHANGED drawn /\ \A v \in Videos : LenderOf(v)' = LenderOf(v)
      BY <2>3, <3>1
    <3>2. ASSUME w \in Videos, NEW b \in Balance,
                 StateOf(b) = "offered", LenderOf(w) = 0,
                 drawn[b] + CreditsOf(Promised(b) \cup {w}) <= AmountOf(b),
                 \A v \in Videos : LenderOf(v)' = IF v = w THEN b ELSE LenderOf(v),
                 UNCHANGED drawn
          PROVE  Ledger!Next
      <4>1. lender' = [lender EXCEPT ![w] = b]
        BY <3>2
      <4>2. Ledger!Borrowers(b) = Promised(b)
        BY Borrowed DEF Ledger!Borrowers
      <4>3. Ledger!Credits(Promised(b) \cup {w}) = CreditsOf(Promised(b) \cup {w})
        <5>1. Promised(b) \cup {w} \in SUBSET Videos
          BY <3>2 DEF Promised
        <5> QED
          BY <5>1, SameCredits
      <4>4. Ledger!Lend(w, b)
        <5>1. UNCHANGED <<state, amount>>
          BY <2>4, <2>5
        <5>2. state[b] = "offered" /\ lender[w] = 0 /\ amount[b] = AmountOf(b)
          BY <3>2
        <5> QED
          BY <3>2, <4>1, <4>2, <4>3, <5>1, <5>2 DEF Ledger!Lend
      <4> QED
        BY <3>2, <4>4 DEF Ledger!Next
    <3>3. IInv'
      BY Inductive
    <3> QED
      BY <2>5, <3>1, <3>2, <3>3, ReserveLends
  <2>6. ASSUME NEW w \in Worker, Leave(w)
        PROVE  Ledger!Next
    <3>1. /\ UNCHANGED drawn
          /\ \A v \in Videos : LenderOf(v)' = IF v = w THEN 0 ELSE LenderOf(v)
          /\ w \in Videos => LenderOf(w) # 0
      BY <2>6, LeaveReturns
    <3>2. CASE w \notin Videos
      BY <2>3, <3>1, <3>2
    <3>3. CASE w \in Videos
      <4>1. lender' = [lender EXCEPT ![w] = 0]
        BY <3>1, <3>3
      <4>2. lender[w] # 0
        BY <3>1, <3>3
      <4>3. UNCHANGED <<state, amount>>
        BY <2>4, <2>6
      <4> QED
        BY <3>1, <3>3, <4>1, <4>2, <4>3 DEF Ledger!Next, Ledger!Return
    <3> QED
      BY <3>2, <3>3
  <2>7. ASSUME NEW w \in Worker, SendPaid(w)
        PROVE  Ledger!Next
    <3>1. /\ w \in Videos /\ LenderOf(w) # 0
          /\ drawn' = [drawn EXCEPT ![LenderOf(w)] = @ + Cost[w]]
          /\ \A v \in Videos : LenderOf(v)' = IF v = w THEN 0 ELSE LenderOf(v)
      BY <2>7, SendPaidSpends
    <3>2. lender' = [lender EXCEPT ![w] = 0] /\ lender[w] = LenderOf(w)
      BY <3>1
    <3>3. UNCHANGED <<state, amount>>
      BY <2>4, <2>7
    <3> QED
      BY <3>1, <3>2, <3>3 DEF Ledger!Next, Ledger!Spend
  <2>8. CASE \A w \in Worker : ~Reserve(w) /\ ~Leave(w) /\ ~SendPaid(w)
    BY <2>3, <2>8, LoansKept
  <2> QED
    BY <2>5, <2>6, <2>7, <2>8
<1> QED
  BY <1>1, <1>2, Invariant, PTL DEF Spec, KeepsLedger, Ledger!Spec, Ledger!vars
=============================================================================
