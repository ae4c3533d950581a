------------------------ MODULE AssetRetentionProofs ------------------------
(***************************************************************************)
(* Theorems about AssetRetention, for any images, characters and jobs, any *)
(* retention and batch size, and any number of crashes and failed sweeps.  *)
(***************************************************************************)
EXTENDS AssetRetention, FiniteSetTheorems, WellFoundedInduction, TLAPS

-----------------------------------------------------------------------------
(* The inductive invariant.                                                *)

\* The calls a handler may still have to make: the ends of the programs.
Stage == {<<"write", "record">>, <<"record">>,
          <<"write", "record", "touch", "enqueue">>, <<"record", "touch", "enqueue">>,
          <<"touch", "enqueue">>, <<"enqueue">>,
          <<"resolve", "look", "check", "touch", "insert">>, <<"look", "check", "touch", "insert">>,
          <<"check", "touch", "insert">>, <<"touch", "insert">>, <<"insert">>,
          <<"snapshot", "enqueue">>, <<"enqueue media">>}

\* A handler that runs is at a stage, with an image.
HandlerType ==
    handler = Quiet \/ /\ handler.todo \in Stage /\ handler.image \in Image
                       /\ handler.refs \subseteq Image
                       /\ handler = [todo |-> handler.todo, image |-> handler.image,
                                     refs |-> handler.refs]

\* Between the file and the row of an inline image no sweep runs, and from then on
\* the image is too young to be swept until the job is there.
Recording == At("record")
Pending == handler.todo = <<"touch", "enqueue">> \/ (handler.todo = <<"enqueue">> /\ handler.refs = {})

HandlerInv ==
    /\ Recording => sweep.phase = "idle" /\ handler.image \in file
    /\ Pending => /\ handler.image \in file /\ handler.image \notin sweep.doomed
                  /\ asset[handler.image].orphaned < Retention

\* What the sweep is about to delete was not referenced when it looked, and nobody
\* can refer to it meanwhile.
SweepInv ==
    /\ sweep.left \subseteq sweep.doomed
    /\ sweep.doomed \cap Referenced = {}
    /\ sweep.phase = "idle" => sweep = NoSweep

IInv == TypeOK /\ HandlerType /\ HandlerInv /\ SweepInv /\ InlineInputsKept

-----------------------------------------------------------------------------
(* What the helpers return.                                                *)

LEMMA Numbers ==
    /\ Images \in Nat /\ MaxFaults \in Nat
    /\ Retention \in Nat /\ Retention # 0 /\ BatchSize \in Nat /\ BatchSize # 0
    /\ Image \subseteq Nat \ {0}
    /\ NotOrphaned \in NotOrphaned..Retention /\ 0 \in NotOrphaned..Retention
    /\ NotOrphaned < Retention /\ 0 < Retention
BY AssetAssumption DEF Image, NotOrphaned

\* Numbers up to a bound have a largest one, and Max returns it.
LEMMA MaxAmong ==
    ASSUME NEW n \in Nat, NEW S \in SUBSET (1..n), S # {}
    PROVE  Max(S) \in S
<1> DEFINE U == {u \in 0..n : \A x \in S : x <= u}
           T == {1..u : u \in U}
           N == 1..n
<1>1. n \in U
  OBVIOUS
<1>2. PICK u \in U : \A v \in U : u <= v
  <2>1. IsFiniteSet(N)
    BY FS_Interval
  <2>2. T \subseteq FiniteSubsetsOf(N) /\ T # {}
    <3>1. ASSUME NEW v \in U
          PROVE  1..v \in FiniteSubsetsOf(N)
      <4>1. 1..v \subseteq N
        OBVIOUS
      <4> QED
        BY <4>1, <2>1, FS_Subset DEF FiniteSubsetsOf
    <3> QED
      BY <3>1, <1>1
  <2> DEFINE A == FiniteSubsetsOf(N)
             R == StrictSubsetOrdering(N)
  <2>3. IsWellFoundedOn(R, A)
    BY FS_StrictSubsetOrderingWellFounded
  <2>4. PICK t \in T : \A s \in T : ~(<<s, t>> \in R)
    <3> HIDE DEF A, R, T, N
    <3> QED
      BY <2>2, <2>3, WFMin DEF A
  <2>5. PICK u \in U : t = 1..u
    OBVIOUS
  <2>6. ASSUME NEW v \in U, v < u
        PROVE  FALSE
    <3>1. 1..v \subseteq 1..u /\ 1..v # 1..u /\ 1..u \subseteq N
      BY <2>6
    <3>2. 1..v \in T /\ <<1..v, t>> \in R
      BY <3>1, <2>5 DEF StrictSubsetOrdering
    <3> QED
      BY <2>4, <3>2
  <2>7. \A v \in U : v \in Int
    OBVIOUS
  <2> HIDE DEF U
  <2> QED
    BY <2>6, <2>7
<1>3. u \in S
  <2> SUFFICES ASSUME u \notin S
               PROVE  FALSE
    OBVIOUS
  <2>1. u \in 0..n /\ \A x \in S : x <= u
    OBVIOUS
  <2>2. \A x \in S : x \in 1..n /\ x <= u - 1
    BY <2>1
  <2>3. u - 1 \in 0..n
    <3>1. PICK x \in S : x \in 1..n
      OBVIOUS
    <3> QED
      BY <2>1, <2>2, <3>1
  <2>4. u - 1 \in U
    BY <2>2, <2>3
  <2> QED
    BY <1>2, <2>1, <2>4
<1>4. \E x \in S : \A y \in S : x >= y
  BY <1>3
<1> QED
  BY <1>4 DEF Max

\* The cursor is an image of the batch, or the start.
LEMMA CursorType ==
    ASSUME sweep.batch \in SUBSET Image
    PROVE  NextCursor \in 0..Images
<1>1. CASE Cardinality(sweep.batch) < BatchSize
  BY <1>1, Numbers DEF NextCursor
<1>2. CASE ~(Cardinality(sweep.batch) < BatchSize)
  <2>1. sweep.batch # {}
    BY <1>2, FS_EmptySet, Numbers
  <2>2. Max(sweep.batch) \in Image
    BY <2>1, MaxAmong, Numbers DEF Image
  <2> QED
    BY <1>2, <2>2, Numbers DEF NextCursor, Image
<1> QED
  BY <1>1, <1>2

LEMMA ReferencedKept ==
    ASSUME UNCHANGED <<mapping, character, job>>
    PROVE  Referenced' = Referenced /\ Named' = Named
BY DEF Referenced, Named

\* What follows what in the programs.
Follows(s) ==
    /\ s # <<>>
    /\ Tail(s) # <<>> => Tail(s) \in Stage
    /\ Tail(s) # <<>> /\ Head(Tail(s)) = "record" => Head(s) = "write"
    /\ Tail(s) = <<"touch", "enqueue">> => Head(s) = "record"
    /\ Tail(s) = <<"enqueue">> => s = <<"touch", "enqueue">> \/ Head(s) = "snapshot"
    /\ Head(s) = "snapshot" => Tail(s) = <<"enqueue">>
    /\ Head(s) \in {"enqueue", "enqueue media"} => Tail(s) = <<>>
    /\ Head(s) = "enqueue" => s = <<"enqueue">>
    /\ s = <<"touch", "enqueue">> => Head(s) = "touch"
    /\ s = <<"enqueue">> => Head(s) = "enqueue"

LEMMA Stages == \A s \in Stage : Follows(s)
<1> USE DEF Follows
<1>1. /\ Follows(<<"record">>) /\ Follows(<<"write", "record">>)
  BY DEF Stage
<1>2. /\ Follows(<<"enqueue">>) /\ Follows(<<"touch", "enqueue">>)
      /\ Follows(<<"record", "touch", "enqueue">>)
      /\ Follows(<<"write", "record", "touch", "enqueue">>)
  BY DEF Stage
<1>3. /\ Follows(<<"insert">>) /\ Follows(<<"touch", "insert">>)
      /\ Follows(<<"check", "touch", "insert">>)
      /\ Follows(<<"look", "check", "touch", "insert">>)
      /\ Follows(<<"resolve", "look", "check", "touch", "insert">>)
  BY DEF Stage
<1>4. Follows(<<"snapshot", "enqueue">>) /\ Follows(<<"enqueue media">>)
  BY DEF Stage
<1> HIDE DEF Follows
<1> QED
  BY <1>1, <1>2, <1>3, <1>4 DEF Stage

\* How the programs start.
LEMMA Programs ==
    /\ Head(Upload) = "write" /\ Head(Inline) = "write" /\ Head(Catalog) = "resolve"
    /\ Head(Generate) = "snapshot" /\ Head(Reference) = "enqueue media"
<1>1. Head(Upload) = "write" /\ Head(Inline) = "write"
  BY DEF Upload, Inline
<1>2. Head(Catalog) = "resolve"
  BY DEF Catalog
<1>3. Head(Generate) = "snapshot"
  BY DEF Generate
<1>4. Head(Reference) = "enqueue media"
  BY DEF Reference
<1> QED
  BY <1>1, <1>2, <1>3, <1>4

\* GoOnIf leaves the handler at its next call, or done.
LEMMA GoesOn ==
    ASSUME HandlerType, handler.todo # <<>>, NEW condition, GoOnIf(condition)
    PROVE  /\ HandlerType'
           /\ \/ handler' = Quiet
              \/ /\ Tail(handler.todo) # <<>> /\ handler'.todo = Tail(handler.todo)
                 /\ handler'.image = handler.image /\ handler'.refs = handler.refs
<1>1. /\ handler.todo \in Stage /\ handler.image \in Image /\ handler.refs \subseteq Image
      /\ handler = [todo |-> handler.todo, image |-> handler.image, refs |-> handler.refs]
  BY DEF HandlerType, Quiet
<1>2. CASE condition /\ Tail(handler.todo) # <<>>
  <2>1. handler' = [todo |-> Tail(handler.todo), image |-> handler.image, refs |-> handler.refs]
    BY <1>1, <1>2 DEF GoOnIf
  <2>2. Tail(handler.todo) \in Stage
    BY <1>1, <1>2, Stages DEF Follows
  <2> QED
    BY <1>1, <1>2, <2>1, <2>2 DEF HandlerType
<1>3. CASE ~(condition /\ Tail(handler.todo) # <<>>)
  BY <1>3 DEF GoOnIf, HandlerType
<1> QED
  BY <1>2, <1>3

\* A handler at rest has nothing to record or to enqueue.
LEMMA AtRest ==
    ASSUME handler = Quiet
    PROVE  ~Recording /\ ~Pending
BY DEF Quiet, Recording, Pending, At

-----------------------------------------------------------------------------
(* Types.                                                                  *)

LEMMA HandlerTypeStep ==
    ASSUME IInv, [Next]_vars
    PROVE  HandlerType'
<1>1. HandlerType
  BY DEF IInv
<1>2. ASSUME NEW program \in {Upload, Inline, Catalog, Generate, Reference}, NEW a \in Image,
             Begin(program, a)
      PROVE  HandlerType'
  <2>1. handler' = [todo |-> program, image |-> a, refs |-> {}]
    BY <1>2 DEF Begin, Quiet
  <2>2. program \in Stage
    BY DEF Stage, Upload, Inline, Catalog, Generate, Reference
  <2> QED
    BY <2>1, <2>2 DEF HandlerType
<1>3. CASE WriteFile \/ RecordAsset \/ Resolve \/ Look \/ Check \/ Touch
           \/ (\E c \in Character : Insert(c))
           \/ (\E j \in Job : EnqueueInline(j) \/ EnqueueCharacter(j) \/ EnqueueReference(j))
  <2>1. handler.todo # <<>> /\ \E condition \in BOOLEAN : GoOnIf(condition)
    <3>1. \A condition : GoOnIf(condition) => \E b \in BOOLEAN : GoOnIf(b)
      BY DEF GoOnIf
    <3>2. handler.todo # <<>> /\ \E condition : GoOnIf(condition)
      BY <1>3, Zenon
         DEF WriteFile, RecordAsset, Resolve, Look, Check, Touch, Insert, EnqueueInline,
             EnqueueCharacter, EnqueueReference, EnqueueJob, At
    <3> QED
      BY <3>1, <3>2
  <2> QED
    BY <1>1, <2>1, GoesOn
<1>4. ASSUME NEW c \in Character, Snapshot(c)
      PROVE  HandlerType'
  <2>1. handler.todo \in Stage /\ handler.image \in Image /\ Head(handler.todo) = "snapshot"
        /\ handler = [todo |-> handler.todo, image |-> handler.image, refs |-> handler.refs]
    BY <1>1, <1>4 DEF Snapshot, At, HandlerType, Quiet
  <2>2. Tail(handler.todo) = <<"enqueue">> /\ <<"enqueue">> \in Stage
    BY <2>1, Stages DEF Stage, Follows
  <2>3. character[c] \subseteq Image
    BY DEF IInv, TypeOK
  <2>4. \/ handler' = Quiet
        \/ handler' = [todo |-> Tail(handler.todo), image |-> handler.image, refs |-> character[c]]
    BY <1>4, <2>1 DEF Snapshot
  <2>5. CASE handler' = Quiet
    BY <2>5 DEF HandlerType
  <2>6. CASE handler' = [todo |-> Tail(handler.todo), image |-> handler.image, refs |-> character[c]]
    BY <2>1, <2>2, <2>3, <2>6 DEF HandlerType
  <2> QED
    BY <2>4, <2>5, <2>6
<1>5. CASE UNCHANGED handler
  BY <1>1, <1>5 DEF HandlerType
<1>6. CASE Crash
  BY <1>6 DEF Crash, HandlerType
<1> QED
  BY <1>2, <1>3, <1>4, <1>5, <1>6, Zenon
     DEF Next, vars, Handle, PutMedia, InvalidateMedia, SweepDeletes, DropCharacter, SettleJob,
         Tick, SweepStarts, SweepCommits, SweepFails

AssetRow == [status: {"none", "active", "deleted"}, orphaned: NotOrphaned..Retention]
JobRow == [active: BOOLEAN, inputs: SUBSET Image, sources: SUBSET Image, media: SUBSET Image]
Sweep == [phase: {"idle", "deleting"}, batch: SUBSET Image, doomed: SUBSET Image, left: SUBSET Image]

LEMMA Rows ==
    /\ Registered \in AssetRow
    /\ \A r \in AssetRow :
         /\ [r EXCEPT !.orphaned = Older(@)] \in AssetRow
         /\ [r EXCEPT !.status = "deleted"] \in AssetRow
         /\ [r EXCEPT !.orphaned = NotOrphaned] \in AssetRow
         /\ [r EXCEPT !.orphaned = 0] \in AssetRow
<1>1. \A n \in NotOrphaned..Retention : Older(n) \in NotOrphaned..Retention
  BY Numbers DEF Older, NotOrphaned
<1> QED
  BY <1>1, Numbers DEF AssetRow, Registered

LEMMA AssetType ==
    ASSUME IInv, [Next]_vars
    PROVE  asset' \in [Image -> AssetRow]
<1>1. asset \in [Image -> AssetRow]
  BY DEF IInv, TypeOK, AssetRow
<1>2. CASE RecordAsset
  BY <1>1, <1>2, Rows DEF RecordAsset
<1>3. CASE Touch
  BY <1>1, <1>3, Rows DEF Touch
<1>4. CASE Tick
  BY <1>1, <1>4, Rows DEF Tick
<1>5. CASE SweepCommits
  <2>1. \A a \in Image : Swept(a) \in AssetRow
    BY <1>1, Rows DEF Swept
  <2> QED
    BY <1>1, <1>5, <2>1 DEF SweepCommits
<1>6. CASE UNCHANGED asset
  BY <1>1, <1>6
<1> QED
  BY <1>2, <1>3, <1>4, <1>5, <1>6, Zenon
     DEF Next, vars, Handle, Begin, WriteFile, Resolve, Look, Check, Insert, Snapshot, EnqueueInline,
         EnqueueCharacter, EnqueueReference, EnqueueJob, PutMedia, InvalidateMedia, SweepDeletes,
         DropCharacter, SettleJob, SweepStarts, SweepFails, Crash

LEMMA MappingType ==
    ASSUME IInv, [Next]_vars
    PROVE  mapping' \in [Image -> {"none", "active", "stale", "invalid"}]
<1>1. mapping \in [Image -> {"none", "active", "stale", "invalid"}]
  BY DEF IInv, TypeOK
<1>2. CASE Resolve \/ (\E a \in Image : PutMedia(a) \/ InvalidateMedia(a)) \/ Tick \/ SweepCommits
  BY <1>1, <1>2 DEF Resolve, PutMedia, InvalidateMedia, Tick, SweepCommits
<1>3. CASE UNCHANGED mapping
  BY <1>1, <1>3
<1> QED
  BY <1>2, <1>3, Zenon
     DEF Next, vars, Handle, Begin, WriteFile, RecordAsset, Look, Check, Touch, Insert, Snapshot,
         EnqueueInline, EnqueueCharacter, EnqueueReference, EnqueueJob, SweepDeletes,
         DropCharacter, SettleJob, SweepStarts, SweepFails, Crash

\* What refers to an image is a set of images.
LEMMA ReferencesType ==
    ASSUME IInv, [Next]_vars
    PROVE  character' \in [Character -> SUBSET Image] /\ job' \in [Job -> JobRow]
<1>1. character \in [Character -> SUBSET Image] /\ job \in [Job -> JobRow]
  BY DEF IInv, TypeOK, JobRow
<1>2. handler.todo # <<>> => handler.image \in Image /\ handler.refs \subseteq Image
  BY DEF IInv, HandlerType, Quiet
<1>3. ASSUME NEW c \in Character, Insert(c) \/ DropCharacter(c)
      PROVE  character' \in [Character -> SUBSET Image] /\ job' \in [Job -> JobRow]
  BY <1>1, <1>2, <1>3 DEF Insert, DropCharacter, At
<1>4. ASSUME NEW j \in Job, EnqueueInline(j) \/ EnqueueCharacter(j) \/ EnqueueReference(j)
      PROVE  character' \in [Character -> SUBSET Image] /\ job' \in [Job -> JobRow]
  <2>1. handler.image \in Image /\ handler.refs \subseteq Image
    BY <1>2, <1>4 DEF EnqueueInline, EnqueueCharacter, EnqueueReference, At
  <2>2. /\ [NoJob EXCEPT !.active = TRUE, !.inputs = {handler.image}] \in JobRow
        /\ [NoJob EXCEPT !.active = TRUE, !.sources = handler.refs] \in JobRow
        /\ [NoJob EXCEPT !.active = TRUE, !.media = {handler.image}] \in JobRow
    BY <2>1 DEF NoJob, JobRow
  <2>3. PICK row \in JobRow : EnqueueJob(j, row)
    BY <1>4, <2>2, Zenon DEF EnqueueInline, EnqueueCharacter, EnqueueReference
  <2> QED
    BY <1>1, <2>3 DEF EnqueueJob
<1>5. ASSUME NEW j \in Job, SettleJob(j)
      PROVE  character' \in [Character -> SUBSET Image] /\ job' \in [Job -> JobRow]
  BY <1>1, <1>5 DEF SettleJob, NoJob, JobRow
<1>6. CASE UNCHANGED <<character, job>>
  BY <1>1, <1>6
<1> QED
  BY <1>3, <1>4, <1>5, <1>6, Zenon
     DEF Next, vars, Handle, Begin, WriteFile, RecordAsset, Resolve, Look, Check, Touch, Snapshot,
         PutMedia, InvalidateMedia, SweepDeletes, Tick, SweepStarts, SweepCommits, SweepFails, Crash

LEMMA SweepType ==
    ASSUME IInv, [Next]_vars
    PROVE  sweep' \in Sweep /\ cursor' \in 0..Images /\ faults' \in 0..MaxFaults
<1>1. sweep \in Sweep /\ cursor \in 0..Images /\ faults \in 0..MaxFaults
  BY DEF IInv, TypeOK, Sweep
<1>2. NoSweep \in Sweep
  BY DEF NoSweep, Sweep
<1>3. CASE SweepStarts
  <2>1. Batch \in SUBSET Image
    BY DEF Batch, Candidates
  <2>2. sweep' = [phase |-> "deleting", batch |-> Batch,
                  doomed |-> {a \in Batch \ Referenced : asset[a].orphaned >= Retention},
                  left |-> {a \in Batch \ Referenced : asset[a].orphaned >= Retention}]
    BY <1>3 DEF SweepStarts
  <2> HIDE DEF Batch
  <2> QED
    BY <1>1, <1>3, <2>1, <2>2 DEF SweepStarts, Sweep
<1>4. ASSUME NEW a \in Image, SweepDeletes(a)
      PROVE  sweep' \in Sweep /\ cursor' \in 0..Images /\ faults' \in 0..MaxFaults
  BY <1>1, <1>4 DEF SweepDeletes, Sweep
<1>5. CASE SweepCommits
  <2>1. sweep.batch \in SUBSET Image
    BY <1>1 DEF Sweep
  <2> QED
    BY <1>1, <1>2, <1>5, <2>1, CursorType DEF SweepCommits
<1>6. CASE SweepFails \/ Crash
  <2>1. faults + 1 \in 0..MaxFaults /\ 0 \in 0..Images
    BY <1>1, <1>6, Numbers DEF SweepFails, Crash
  <2> QED
    BY <1>1, <1>2, <1>6, <2>1 DEF SweepFails, Crash
<1>7. CASE UNCHANGED <<sweep, cursor, faults>>
  BY <1>1, <1>7
<1> QED
  BY <1>3, <1>4, <1>5, <1>6, <1>7, Zenon
     DEF Next, vars, Handle, Begin, WriteFile, RecordAsset, Resolve, Look, Check, Touch, Insert,
         Snapshot, EnqueueInline, EnqueueCharacter, EnqueueReference, EnqueueJob, PutMedia,
         InvalidateMedia, DropCharacter, SettleJob, Tick

LEMMA FileType ==
    ASSUME IInv, [Next]_vars
    PROVE  file' \subseteq Image
<1>1. file \subseteq Image
  BY DEF IInv, TypeOK
<1>2. CASE WriteFile
  BY <1>1, <1>2 DEF WriteFile, At, IInv, HandlerType, Quiet
<1>3. CASE \E a \in Image : SweepDeletes(a)
  BY <1>1, <1>3 DEF SweepDeletes
<1>4. CASE UNCHANGED file
  BY <1>1, <1>4
<1> QED
  BY <1>2, <1>3, <1>4, Zenon
     DEF Next, vars, Handle, Begin, RecordAsset, Resolve, Look, Check, Touch, Insert, Snapshot,
         EnqueueInline, EnqueueCharacter, EnqueueReference, EnqueueJob, PutMedia, InvalidateMedia,
         DropCharacter, SettleJob, Tick, SweepStarts, SweepCommits, SweepFails, Crash

-----------------------------------------------------------------------------
(* The handler and the sweep.                                              *)

LEMMA HandlerStep ==
    ASSUME IInv, [Next]_vars
    PROVE  HandlerInv'
<1> DEFINE a == handler.image
<1>1. /\ HandlerType /\ HandlerInv
      /\ asset \in [Image -> AssetRow] /\ asset' \in [Image -> AssetRow]
      /\ sweep.phase = "idle" => sweep.doomed = {} /\ sweep.left = {}
      /\ sweep.left \subseteq sweep.doomed
  BY AssetType DEF IInv, TypeOK, AssetRow, SweepInv, NoSweep
<1>2. handler # Quiet => handler.todo \in Stage /\ a \in Image
  BY <1>1 DEF HandlerType
<1>3. Recording \/ Pending => a \in Image
  BY <1>2, AtRest
<1>4. CASE handler' = Quiet
  <2>1. ~Recording' /\ ~Pending'
    BY <1>4 DEF Quiet, Recording, Pending, At
  <2> QED
    BY <2>1 DEF HandlerInv
<1>5. ASSUME NEW program \in {Upload, Inline, Catalog, Generate, Reference}, NEW i \in Image,
             Begin(program, i)
      PROVE  HandlerInv'
  <2>1. handler'.todo = program
    BY <1>5 DEF Begin, Quiet
  <2>2. Head(program) \in {"write", "resolve", "snapshot", "enqueue media"}
    BY Programs
  <2>3. Head(<<"touch", "enqueue">>) = "touch" /\ Head(<<"enqueue">>) = "enqueue"
    OBVIOUS
  <2>4. ~Recording' /\ ~Pending'
    BY <2>1, <2>2, <2>3 DEF Recording, Pending, At
  <2> QED
    BY <2>4 DEF HandlerInv
<1>6. ASSUME handler.todo # <<>>, NEW condition, GoOnIf(condition), StoreFree, UNCHANGED sweep,
             Head(handler.todo) # "snapshot",
             Head(handler.todo) = "write" => handler.image \in file',
             Head(handler.todo) = "record" => file' = file /\ asset'[a] = Registered,
             handler.todo = <<"touch", "enqueue">> =>
               file' = file /\ asset'[a].orphaned < Retention
      PROVE  HandlerInv'
  <2>1. handler.todo \in Stage /\ a \in Image
    BY <1>2, <1>6 DEF Quiet
  <2>2. Follows(handler.todo)
    BY <2>1, Stages
  <2>3. CASE handler'.todo = Tail(handler.todo) /\ Tail(handler.todo) # <<>>
             /\ handler'.image = a /\ handler'.refs = handler.refs
    <3>1. Recording' => a \in file' /\ sweep'.phase = "idle"
      BY <1>6, <2>2, <2>3 DEF Recording, At, Follows, StoreFree
    <3>2. ASSUME Pending'
          PROVE  a \in file' /\ a \notin sweep'.doomed /\ asset'[a].orphaned < Retention
      <4>1. a \notin sweep'.doomed
        BY <1>1, <1>6 DEF StoreFree
      <4>2. CASE Tail(handler.todo) = <<"touch", "enqueue">>
        <5>1. Recording
          BY <1>6, <2>2, <4>2 DEF Follows, Recording, At
        <5>2. Head(handler.todo) = "record"
          BY <5>1 DEF Recording, At
        <5> QED
          BY <1>1, <1>6, <4>1, <5>1, <5>2, Numbers DEF HandlerInv, Registered
      <4>3. CASE handler.todo = <<"touch", "enqueue">>
        BY <1>1, <1>6, <4>1, <4>3 DEF HandlerInv, Pending
      <4> QED
        BY <1>6, <2>2, <2>3, <3>2, <4>2, <4>3 DEF Follows, Pending
    <3> QED
      BY <2>3, <3>1, <3>2 DEF HandlerInv
  <2> QED
    BY <1>1, <1>4, <1>6, <2>3, GoesOn
<1>7. CASE WriteFile
  <2>1. handler.todo # <<>> /\ Head(handler.todo) = "write" /\ handler.image \in file'
    BY <1>7 DEF WriteFile, At
  <2>2. handler.todo = <<"touch", "enqueue">> => Head(handler.todo) = "touch"
    OBVIOUS
  <2> QED
    BY <1>6, <1>7, <2>1, <2>2 DEF WriteFile
<1>8. CASE RecordAsset
  <2>1. handler.todo # <<>> /\ Head(handler.todo) = "record"
    BY <1>8 DEF RecordAsset, At
  <2>2. asset' = [asset EXCEPT ![a] = Registered] /\ file' = file
    BY <1>8 DEF RecordAsset
  <2>3. asset'[a] = Registered
    BY <1>1, <1>2, <2>1, <2>2 DEF Quiet
  <2>4. handler.todo = <<"touch", "enqueue">> => Head(handler.todo) = "touch"
    OBVIOUS
  <2> QED
    BY <1>6, <1>8, <2>1, <2>2, <2>3, <2>4 DEF RecordAsset
<1>9. CASE Touch
  <2>1. handler.todo # <<>> /\ Head(handler.todo) = "touch" /\ a \in Image
    BY <1>2, <1>9 DEF Touch, At, Quiet
  <2>2. \/ asset'[a] = asset[a] \/ asset'[a] = Registered
    BY <1>1, <1>9, <2>1 DEF Touch
  <2>3. handler.todo = <<"touch", "enqueue">> => asset'[a].orphaned < Retention
    BY <1>1, <2>2, Numbers DEF HandlerInv, Pending, Registered
  <2> QED
    BY <1>6, <1>9, <2>1, <2>3 DEF Touch
<1>10. CASE Resolve \/ Check \/ (\E c \in Character : Insert(c))
            \/ (\E j \in Job : EnqueueInline(j) \/ EnqueueCharacter(j) \/ EnqueueReference(j))
  <2>1. /\ handler.todo # <<>> /\ StoreFree /\ UNCHANGED sweep
        /\ Head(handler.todo) \in {"resolve", "check", "insert", "enqueue", "enqueue media"}
        /\ \E condition : GoOnIf(condition)
    BY <1>10, Zenon
       DEF Resolve, Check, Insert, EnqueueInline, EnqueueCharacter, EnqueueReference, EnqueueJob, At
  <2>2. handler.todo = <<"touch", "enqueue">> => Head(handler.todo) = "touch"
    OBVIOUS
  <2> QED
    BY <1>6, <2>1, <2>2
<1>11. CASE Look
  <2>1. handler.todo # <<>> /\ Head(handler.todo) = "look" /\ a \in Image
    BY <1>2, <1>11 DEF Look, At, Quiet
  <2>2. Follows(handler.todo)
    BY <1>2, <2>1, Stages DEF Quiet
  <2>3. handler' = Quiet \/ (handler'.todo = Tail(handler.todo) /\ Tail(handler.todo) # <<>>)
    BY <1>1, <1>11, <2>1, GoesOn DEF Look
  <2>4. ASSUME handler'.todo = Tail(handler.todo), Tail(handler.todo) # <<>>
        PROVE  ~Recording' /\ ~Pending'
    <3>1. handler.todo # <<"touch", "enqueue">>
      BY <2>1
    <3> QED
      BY <2>1, <2>2, <2>4, <3>1 DEF Follows, Recording, Pending, At
  <2> QED
    BY <1>4, <2>3, <2>4 DEF HandlerInv
<1>12. ASSUME NEW c \in Character, Snapshot(c)
       PROVE  HandlerInv'
  <2>1. handler.todo \in Stage /\ Head(handler.todo) = "snapshot"
        /\ handler = [todo |-> handler.todo, image |-> a, refs |-> handler.refs]
    BY <1>1, <1>12 DEF Snapshot, At, HandlerType, Quiet
  <2>2. handler.todo # <<>> /\ Tail(handler.todo) = <<"enqueue">>
    BY <2>1, Stages DEF Follows
  <2>3. CASE character[c] # {}
    <3>1. handler'.todo = <<"enqueue">> /\ handler'.refs # {}
      BY <1>12, <2>1, <2>2, <2>3 DEF Snapshot
    <3>2. ~Recording' /\ ~Pending'
      BY <3>1 DEF Recording, Pending, At
    <3> QED
      BY <3>2 DEF HandlerInv
  <2> QED
    BY <1>4, <1>12, <2>3 DEF Snapshot
<1>13. CASE (\E i \in Image : PutMedia(i) \/ InvalidateMedia(i))
            \/ (\E c \in Character : DropCharacter(c)) \/ (\E j \in Job : SettleJob(j)) \/ Tick
  <2>1. handler = Quiet /\ UNCHANGED handler
    BY <1>13 DEF PutMedia, InvalidateMedia, DropCharacter, SettleJob, Tick, EventLoopFree
  <2> QED
    BY <1>4, <2>1
<1>14. CASE SweepStarts
  <2>1. ~Recording /\ UNCHANGED <<file, asset, handler>>
    BY <1>14 DEF SweepStarts, SweepMayStart, Recording
  <2>2. \A i \in sweep'.doomed : asset[i].orphaned >= Retention
    BY <1>14 DEF SweepStarts
  <2>3. ASSUME Pending
        PROVE  a \notin sweep'.doomed
    <3>1. asset[a] \in AssetRow /\ asset[a].orphaned < Retention
      BY <1>1, <1>3, <2>3 DEF HandlerInv
    <3>2. asset[a].orphaned \in Int
      BY <3>1, Numbers DEF AssetRow, NotOrphaned
    <3> QED
      BY <2>2, <3>1, <3>2, Numbers
  <2>4. ~Recording' /\ (Pending' <=> Pending)
    BY <2>1 DEF Recording, Pending, At
  <2> QED
    BY <1>1, <2>1, <2>3, <2>4 DEF HandlerInv
<1>15. ASSUME NEW i \in Image, SweepDeletes(i)
       PROVE  HandlerInv'
  <2>1. /\ i \in sweep.left /\ file' = file \ {i} /\ UNCHANGED <<asset, handler>>
        /\ sweep'.doomed = sweep.doomed
    BY <1>15 DEF SweepDeletes, IInv, TypeOK
  <2>2. sweep.phase # "idle"
    BY <1>1, <2>1
  <2>3. (Recording' <=> Recording) /\ (Pending' <=> Pending)
    BY <2>1 DEF Recording, Pending, At
  <2> QED
    BY <1>1, <2>1, <2>2, <2>3 DEF HandlerInv
<1>16. CASE SweepCommits
  <2>1. /\ sweep.phase # "idle" /\ sweep'.doomed = {} /\ UNCHANGED <<file, handler>>
        /\ asset' = [i \in Image |-> IF i \in sweep.batch THEN Swept(i) ELSE asset[i]]
    BY <1>16 DEF SweepCommits, NoSweep
  <2>2. (Recording' <=> Recording) /\ (Pending' <=> Pending)
    BY <2>1 DEF Recording, Pending, At
  <2>3. ASSUME Pending
        PROVE  asset'[a].orphaned < Retention
    <3>1. asset[a] \in AssetRow /\ asset[a].orphaned < Retention /\ a \in Image
      BY <1>1, <1>3, <2>3 DEF HandlerInv
    <3>2. Swept(a).orphaned < Retention
      BY <3>1, Numbers DEF Swept, AssetRow
    <3> QED
      BY <2>1, <3>1, <3>2
  <2> QED
    BY <1>1, <2>1, <2>2, <2>3 DEF HandlerInv
<1>17. CASE SweepFails
  <2>1. sweep.phase # "idle" /\ sweep'.doomed = {} /\ UNCHANGED <<file, asset, handler>>
    BY <1>17 DEF SweepFails, NoSweep
  <2>2. (Recording' <=> Recording) /\ (Pending' <=> Pending)
    BY <2>1 DEF Recording, Pending, At
  <2> QED
    BY <1>1, <2>1, <2>2 DEF HandlerInv
<1>18. CASE Crash
  BY <1>4, <1>18 DEF Crash
<1>19. CASE UNCHANGED vars
  BY <1>1, <1>19 DEF vars, HandlerInv, Recording, Pending, At
<1> QED
  BY <1>5, <1>7, <1>8, <1>9, <1>10, <1>11, <1>12, <1>13, <1>14, <1>15, <1>16, <1>17, <1>18, <1>19,
     Zenon DEF Next, Handle

LEMMA SweepStep ==
    ASSUME IInv, [Next]_vars
    PROVE  SweepInv'
<1>1. SweepInv /\ sweep \in Sweep
  BY DEF IInv, TypeOK, Sweep
<1>2. CASE UNCHANGED <<sweep, mapping, character, job>>
  BY <1>1, <1>2, ReferencedKept DEF SweepInv
<1>3. CASE UNCHANGED sweep /\ sweep.phase = "idle"
  BY <1>1, <1>3 DEF SweepInv, NoSweep
<1>4. CASE SweepStarts
  <2>1. sweep'.phase = "deleting" /\ sweep'.left = sweep'.doomed /\ sweep'.doomed \cap Referenced = {}
    BY <1>4 DEF SweepStarts
  <2>2. Referenced' = Referenced
    BY <1>4, ReferencedKept DEF SweepStarts
  <2> QED
    BY <2>1, <2>2 DEF SweepInv
<1>5. ASSUME NEW a \in Image, SweepDeletes(a)
      PROVE  SweepInv'
  <2>1. /\ sweep'.left = sweep.left \ {a} /\ sweep'.doomed = sweep.doomed
        /\ sweep'.phase = sweep.phase /\ a \in sweep.left
    BY <1>1, <1>5 DEF SweepDeletes, Sweep
  <2>2. sweep.phase # "idle"
    BY <1>1, <2>1 DEF SweepInv, NoSweep
  <2>3. Referenced' = Referenced
    BY <1>5, ReferencedKept DEF SweepDeletes
  <2> QED
    BY <1>1, <2>1, <2>2, <2>3 DEF SweepInv
<1>6. CASE SweepCommits \/ SweepFails \/ Crash
  <2>1. sweep' = NoSweep
    BY <1>6 DEF SweepCommits, SweepFails, Crash
  <2> QED
    BY <2>1 DEF SweepInv, NoSweep
<1> QED
  BY <1>2, <1>3, <1>4, <1>5, <1>6, Zenon
     DEF Next, vars, Handle, Begin, WriteFile, RecordAsset, Resolve, Look, Check, Touch, Insert,
         Snapshot, EnqueueInline, EnqueueCharacter, EnqueueReference, EnqueueJob, PutMedia,
         InvalidateMedia, DropCharacter, SettleJob, Tick, EventLoopFree, StoreFree

\* A job gets an inline image that is on disk, and no sweep takes it from it.
LEMMA InputsStep ==
    ASSUME IInv, [Next]_vars
    PROVE  InlineInputsKept'
<1>1. InlineInputsKept /\ SweepInv /\ job \in [Job -> JobRow]
  BY DEF IInv, TypeOK, JobRow
<1>2. ASSUME NEW j \in Job, EnqueueInline(j)
      PROVE  InlineInputsKept'
  <2>1. handler.todo # <<>> /\ Head(handler.todo) = "enqueue" /\ handler.refs = {}
    BY <1>2 DEF EnqueueInline, At
  <2>2. handler.todo \in Stage
    BY <2>1 DEF IInv, HandlerType, Quiet
  <2>3. Pending
    BY <2>1, <2>2, Stages DEF Follows, Pending
  <2>4. handler.image \in file
    BY <2>3 DEF IInv, HandlerInv
  <2>5. /\ job' = [job EXCEPT ![j] = [NoJob EXCEPT !.active = TRUE, !.inputs = {handler.image}]]
        /\ file' = file
    BY <1>2 DEF EnqueueInline, EnqueueJob
  <2> QED
    BY <1>1, <2>4, <2>5 DEF InlineInputsKept, NoJob
<1>3. ASSUME NEW j \in Job, EnqueueCharacter(j) \/ EnqueueReference(j) \/ SettleJob(j)
      PROVE  InlineInputsKept'
  <2>1. \E row : job' = [job EXCEPT ![j] = row] /\ row.inputs = {}
    <3>1. CASE EnqueueCharacter(j)
      <4> WITNESS [NoJob EXCEPT !.active = TRUE, !.sources = handler.refs]
      <4> QED
        BY <3>1 DEF EnqueueCharacter, EnqueueJob, NoJob
    <3>2. CASE EnqueueReference(j)
      <4> WITNESS [NoJob EXCEPT !.active = TRUE, !.media = {handler.image}]
      <4> QED
        BY <3>2 DEF EnqueueReference, EnqueueJob, NoJob
    <3>3. CASE SettleJob(j)
      <4> WITNESS NoJob
      <4> QED
        BY <3>3 DEF SettleJob, NoJob
    <3> QED
      BY <1>3, <3>1, <3>2, <3>3
  <2>2. file' = file
    BY <1>3 DEF EnqueueCharacter, EnqueueReference, SettleJob, EnqueueJob
  <2> QED
    BY <1>1, <2>1, <2>2 DEF InlineInputsKept
<1>4. ASSUME NEW a \in Image, SweepDeletes(a)
      PROVE  InlineInputsKept'
  <2>1. a \notin Referenced /\ file' = file \ {a} /\ job' = job
    BY <1>1, <1>4 DEF SweepDeletes, SweepInv
  <2>2. \A j \in Job : job[j].inputs \subseteq Referenced
    <3> DEFINE W == UNION {job[k].inputs \cup job[k].sources : k \in Job}
    <3>1. \A j \in Job : job[j].inputs \subseteq W
      OBVIOUS
    <3>2. W \subseteq Referenced
      BY DEF Referenced
    <3> QED
      BY <3>1, <3>2
  <2> QED
    BY <1>1, <2>1, <2>2 DEF InlineInputsKept
<1>5. CASE file \subseteq file' /\ UNCHANGED job
  BY <1>1, <1>5 DEF InlineInputsKept
<1>6. CASE WriteFile
  BY <1>5, <1>6 DEF WriteFile
<1>7. CASE UNCHANGED <<file, job>>
  BY <1>5, <1>7
<1> QED
  BY <1>2, <1>3, <1>4, <1>6, <1>7, Zenon
     DEF Next, vars, Handle, Begin, RecordAsset, Resolve, Look, Check, Touch, Insert, Snapshot,
         PutMedia, InvalidateMedia, DropCharacter, Tick, SweepStarts, SweepCommits, SweepFails, Crash

-----------------------------------------------------------------------------
(* The theorems.                                                           *)

LEMMA Initially == Init => IInv
<1> SUFFICES ASSUME Init PROVE IInv
  OBVIOUS
<1>1. TypeOK
  BY Numbers DEF Init, TypeOK, Registered, NoJob, NoSweep
<1>2. HandlerType
  BY DEF Init, HandlerType
<1>3. HandlerInv
  BY AtRest DEF Init, HandlerInv
<1>4. SweepInv
  BY DEF Init, SweepInv, NoSweep
<1>5. InlineInputsKept
  BY DEF Init, InlineInputsKept, NoJob
<1> QED
  BY <1>1, <1>2, <1>3, <1>4, <1>5 DEF IInv

LEMMA Inductive == IInv /\ [Next]_vars => IInv'
<1> SUFFICES ASSUME IInv, [Next]_vars PROVE IInv'
  OBVIOUS
<1>1. TypeOK'
  BY AssetType, MappingType, ReferencesType, SweepType, FileType
     DEF TypeOK, AssetRow, JobRow, Sweep
<1> QED
  BY <1>1, HandlerTypeStep, HandlerStep, SweepStep, InputsStep DEF IInv

\* The inductive invariant holds in every reachable state.
THEOREM Invariant == Spec => []IInv
BY Initially, Inductive, PTL DEF Spec

\* The type invariant, the cursor of the sweep included.
THEOREM TypeCorrect == Spec => []TypeOK
<1>1. IInv => TypeOK
  BY DEF IInv
<1> QED
  BY <1>1, Invariant, PTL

\* persist_asset, touch_assets and enqueue_job against ProjectStore.prune: a job that
\* is not settled finds the bytes of its inline image.
THEOREM InputsKept == Spec => []InlineInputsKept
<1>1. IInv => InlineInputsKept
  BY DEF IInv
<1> QED
  BY <1>1, Invariant, PTL

\* ProjectStore.prune: what a character or a job refers to when a file goes is not
\* the image that goes, and a mapping that a job names stays.
THEOREM ReferencedSpared == Spec => SweepSparesReferenced
<1> DEFINE Spares == /\ (file \ file') \cap Referenced' = {}
                     /\ \A a \in Named : mapping[a] # "none" => mapping'[a] # "none"
<1>1. ASSUME IInv, [Next]_vars
      PROVE  [Spares]_vars
  <2>1. (file \ file') \cap Referenced' = {}
    <3>1. ASSUME NEW a \in Image, SweepDeletes(a)
          PROVE  (file \ file') \cap Referenced' = {}
      <4>1. a \notin Referenced /\ file' = file \ {a}
        BY <1>1, <3>1 DEF SweepDeletes, IInv, SweepInv
      <4>2. Referenced' = Referenced
        BY <3>1, ReferencedKept DEF SweepDeletes
      <4> QED
        BY <4>1, <4>2
    <3>2. CASE file \subseteq file'
      BY <3>2
    <3>3. CASE WriteFile
      BY <3>2, <3>3 DEF WriteFile
    <3>4. CASE UNCHANGED file
      BY <3>2, <3>4
    <3> QED
      BY <1>1, <3>1, <3>3, <3>4, Zenon
         DEF Next, vars, Handle, Begin, RecordAsset, Resolve, Look, Check, Touch, Insert, Snapshot,
             EnqueueInline, EnqueueCharacter, EnqueueReference, EnqueueJob, PutMedia,
             InvalidateMedia, DropCharacter, SettleJob, Tick, SweepStarts, SweepCommits,
             SweepFails, Crash
  <2>2. ASSUME NEW a \in Named, mapping[a] # "none"
        PROVE  mapping'[a] # "none"
    <3>1. a \in Image /\ mapping \in [Image -> {"none", "active", "stale", "invalid"}]
      <4>1. PICK j \in Job : a \in job[j].media
        BY DEF Named
      <4>2. job[j].media \subseteq Image
        BY <1>1 DEF IInv, TypeOK
      <4> QED
        BY <1>1, <4>1, <4>2 DEF IInv, TypeOK
    <3>2. CASE Resolve \/ (\E i \in Image : PutMedia(i) \/ InvalidateMedia(i)) \/ Tick
      BY <2>2, <3>1, <3>2 DEF Resolve, PutMedia, InvalidateMedia, Tick
    <3>3. CASE SweepCommits
      BY <2>2, <3>1, <3>3 DEF SweepCommits
    <3>4. CASE UNCHANGED mapping
      BY <2>2, <3>4
    <3> QED
      BY <1>1, <3>2, <3>3, <3>4, Zenon
         DEF Next, vars, Handle, Begin, WriteFile, RecordAsset, Look, Check, Touch, Insert, Snapshot,
             EnqueueInline, EnqueueCharacter, EnqueueReference, EnqueueJob, SweepDeletes,
             DropCharacter, SettleJob, SweepStarts, SweepFails, Crash
  <2> QED
    BY <2>1, <2>2
<1> QED
  BY <1>1, Invariant, PTL DEF Spec, SweepSparesReferenced
=============================================================================
