--------------------------- MODULE AssetRetention ---------------------------
(***************************************************************************)
(* Source images: the files of AssetStore (app/assets.py), the             *)
(* provider_assets, provider_media and provider_characters tables of       *)
(* ProjectStore (app/projects.py), the handlers that persist and reference *)
(* images, and the sweep of ProjectStore.prune.                            *)
(*                                                                         *)
(* The sweep runs in a thread of its own (JobWorker.run_maintenance) and   *)
(* holds the store's lock from its first read to its commit.  A handler    *)
(* runs on the event loop without an await, so there is one at a time, but *)
(* each of its store calls takes the lock anew, and it looks at files      *)
(* without the lock.  A crash loses uncommitted writes, not deletions.     *)
(* A request carries one image; an image and its digest are one number.    *)
(***************************************************************************)
EXTENDS Integers, Sequences, FiniteSets, FiniteSetsExt

CONSTANTS
    Images,          \* bound: images, numbered in the order of their digests
    Character, Job,  \* bound: catalog entries, and jobs that are alive at once
    Retention,       \* asset_retention_days
    BatchSize,       \* maintenance_batch_size
    MaxFaults        \* bound: crashes and failed sweeps

Image == 1..Images

ASSUME AssetAssumption ==
    /\ {Images, MaxFaults} \subseteq Nat
    /\ {Retention, BatchSize} \subseteq Nat \ {0}

VARIABLES
    file,        \* the images whose bytes are in the asset directory
    asset,       \* the provider_assets rows; orphaned is the time since orphaned_at
    mapping,     \* the provider_media row of each image
    character,   \* what each provider_characters row refers to, if it is not deleted
    job,         \* what each unsettled provider_jobs row refers to
    handler,     \* the handler that is running, and the store calls it has to make
    sweep,       \* the maintenance sweep
    cursor,      \* _prune_asset_cursor
    faults

vars == <<file, asset, mapping, character, job, handler, sweep, cursor, faults>>

NotOrphaned == -1
Registered == [status |-> "active", orphaned |-> NotOrphaned]

Quiet == [todo |-> <<>>, image |-> 0, refs |-> {}]
NoSweep == [phase |-> "idle", batch |-> {}, doomed |-> {}, left |-> {}]
NoJob == [active |-> FALSE, inputs |-> {}, sources |-> {}, media |-> {}]

Init ==
    /\ file = {}
    /\ asset = [a \in Image |-> [Registered EXCEPT !.status = "none"]]
    /\ mapping = [a \in Image |-> "none"]
    /\ character = [c \in Character |-> {}]
    /\ job = [j \in Job |-> NoJob]
    /\ handler = Quiet
    /\ sweep = NoSweep
    /\ cursor = 0
    /\ faults = 0

-----------------------------------------------------------------------------
(* Request handlers, as the store calls they make.                         *)

Upload    == <<"write", "record">>                             \* upload_image, up to Flow
Inline    == <<"write", "record", "touch", "enqueue">>         \* generate_image, generate_video
Catalog   == <<"resolve", "look", "check", "touch", "insert">> \* create_, update_character
Generate  == <<"snapshot", "enqueue">>                         \* generate_character_image, _video
Reference == <<"enqueue media">>                               \* a request with media ids

Enqueues(program) == program \in {Inline, Generate, Reference}

Begin(program, a) ==
    /\ handler = Quiet
    /\ Enqueues(program) => \E j \in Job : ~job[j].active
    /\ handler' = [Quiet EXCEPT !.todo = program, !.image = a]
    /\ UNCHANGED <<file, asset, mapping, character, job, sweep, cursor, faults>>

At(step) == handler.todo # <<>> /\ Head(handler.todo) = step

\* The next call, or an error response.
GoOnIf(condition) ==
    handler' = IF condition /\ Tail(handler.todo) # <<>>
               THEN [handler EXCEPT !.todo = Tail(@)] ELSE Quiet

\* Mutant: store calls do not wait for the sweep.
Unlocked == TRUE

StoreFree == sweep.phase = "idle"

\* persist_asset, first half: put_base64, under the lock.
WriteFile ==
    /\ At("write") /\ StoreFree
    /\ file' = file \cup {handler.image}
    /\ GoOnIf(TRUE)
    /\ UNCHANGED <<asset, mapping, character, job, sweep, cursor, faults>>

\* persist_asset, second half: record_asset, under the same lock.
RecordAsset ==
    /\ At("record") /\ StoreFree
    /\ asset' = [asset EXCEPT ![handler.image] = Registered]
    /\ GoOnIf(TRUE)
    /\ UNCHANGED <<file, mapping, character, job, sweep, cursor, faults>>

\* _validate_media: get_media_by_google_id, or CHARACTER_MEDIA_UNKNOWN.
Resolve ==
    /\ At("resolve") /\ StoreFree
    /\ GoOnIf(mapping[handler.image] \in {"active", "stale"})
    /\ mapping' = [mapping EXCEPT ![handler.image] = IF @ = "stale" THEN "active" ELSE @]
    /\ UNCHANGED <<file, asset, character, job, sweep, cursor, faults>>

\* _validate_media: path_for takes no lock.
Look ==
    /\ At("look")
    /\ GoOnIf(handler.image \in file)
    /\ UNCHANGED <<file, asset, mapping, character, job, sweep, cursor, faults>>

\* _validate_media: get_asset_mime, or CHARACTER_ASSET_MISSING.
Check ==
    /\ At("check") /\ StoreFree
    /\ GoOnIf(asset[handler.image].status = "active")
    /\ UNCHANGED <<file, asset, mapping, character, job, sweep, cursor, faults>>

\* touch_assets does not look at the file again.
Touch ==
    /\ At("touch") /\ StoreFree
    /\ asset' = [asset EXCEPT ![handler.image] = IF @.status = "none" THEN @ ELSE Registered]
    /\ GoOnIf(TRUE)
    /\ UNCHANGED <<file, mapping, character, job, sweep, cursor, faults>>

\* create_character, or update_character with new references.
Insert(c) ==
    /\ At("insert") /\ StoreFree
    /\ character' = [character EXCEPT ![c] = {handler.image}]
    /\ GoOnIf(TRUE)
    /\ UNCHANGED <<file, asset, mapping, job, sweep, cursor, faults>>

\* get_character, whose references the job will carry.
Snapshot(c) ==
    /\ At("snapshot") /\ StoreFree
    /\ handler' = IF character[c] = {} THEN Quiet
                  ELSE [handler EXCEPT !.todo = Tail(@), !.refs = character[c]]
    /\ UNCHANGED <<file, asset, mapping, character, job, sweep, cursor, faults>>

\* enqueue_job.
EnqueueJob(j, row) ==
    /\ StoreFree /\ ~job[j].active
    /\ job' = [job EXCEPT ![j] = row]
    /\ GoOnIf(TRUE)
    /\ UNCHANGED <<file, asset, mapping, character, sweep, cursor, faults>>

EnqueueInline(j) ==
    /\ At("enqueue") /\ handler.refs = {}
    /\ EnqueueJob(j, [NoJob EXCEPT !.active = TRUE, !.inputs = {handler.image}])

EnqueueCharacter(j) ==
    /\ At("enqueue") /\ handler.refs # {}
    /\ EnqueueJob(j, [NoJob EXCEPT !.active = TRUE, !.sources = handler.refs])

EnqueueReference(j) ==
    /\ At("enqueue media")
    /\ EnqueueJob(j, [NoJob EXCEPT !.active = TRUE, !.media = {handler.image}])

-----------------------------------------------------------------------------
(* Other writers of the tables, and time.                                  *)

EventLoopFree == handler = Quiet /\ StoreFree

\* put_media, after an upload to Flow.
PutMedia(a) ==
    /\ EventLoopFree /\ asset[a].status # "none"
    /\ mapping' = [mapping EXCEPT ![a] = "active"]
    /\ UNCHANGED <<file, asset, character, job, handler, sweep, cursor, faults>>

\* invalidate_media, after Flow has answered 404.
InvalidateMedia(a) ==
    /\ EventLoopFree /\ mapping[a] # "none"
    /\ mapping' = [mapping EXCEPT ![a] = "invalid"]
    /\ UNCHANGED <<file, asset, character, job, handler, sweep, cursor, faults>>

\* soft_delete_character, or update_character with no references left.
DropCharacter(c) ==
    /\ EventLoopFree
    /\ character' = [character EXCEPT ![c] = {}]
    /\ UNCHANGED <<file, asset, mapping, job, handler, sweep, cursor, faults>>

\* The worker settles a job.
SettleJob(j) ==
    /\ EventLoopFree
    /\ job' = [job EXCEPT ![j] = NoJob]
    /\ UNCHANGED <<file, asset, mapping, character, handler, sweep, cursor, faults>>

Older(n) == IF n = NotOrphaned \/ n = Retention THEN n ELSE n + 1

\* A day.  Neither a handler nor a sweep lasts that long.
Tick ==
    /\ EventLoopFree
    /\ asset' = [a \in Image |-> [asset[a] EXCEPT !.orphaned = Older(@)]]
    /\ mapping' = [a \in Image |-> IF mapping[a] = "active" THEN "stale" ELSE mapping[a]]
    /\ UNCHANGED <<file, character, job, handler, sweep, cursor, faults>>

-----------------------------------------------------------------------------
(* ProjectStore.prune.                                                     *)

\* Google media ids that unsettled jobs name.
Named == UNION {job[j].media : j \in Job}

\* Images that live characters and unsettled jobs refer to, through a digest or
\* through a media id that is still mapped.
Referenced ==
    (UNION {character[c] : c \in Character})
    \cup (UNION {job[j].inputs \cup job[j].sources : j \in Job})
    \cup {a \in Named : mapping[a] # "none"}

\* The first active rows past the cursor, ORDER BY content_sha256 LIMIT.
Candidates == {a \in Image : a > cursor /\ asset[a].status = "active"}
Batch == {a \in Candidates : Cardinality({b \in Candidates : b < a}) < BatchSize}

\* Mutant: a sweep may start between the file of an image and its row.
SweepAnyTime == sweep.phase = "idle"

SweepMayStart == sweep.phase = "idle" /\ ~At("record")

SweepStarts ==
    /\ SweepMayStart
    /\ LET doomed == {a \in Batch \ Referenced : asset[a].orphaned >= Retention}
       IN sweep' = [phase |-> "deleting", batch |-> Batch, doomed |-> doomed, left |-> doomed]
    /\ UNCHANGED <<file, asset, mapping, character, job, handler, cursor, faults>>

\* AssetStore.delete.
SweepDeletes(a) ==
    /\ a \in sweep.left
    /\ file' = file \ {a}
    /\ sweep' = [sweep EXCEPT !.left = @ \ {a}]
    /\ UNCHANGED <<asset, mapping, character, job, handler, cursor, faults>>

\* Mutant: every sweep takes the first batch.
FirstBatchAgain == 0

NextCursor == IF Cardinality(sweep.batch) < BatchSize THEN 0 ELSE Max(sweep.batch)

\* Mutant: an asset whose bytes are gone gets the status of an invalidated mapping.
SweptAsMapping(a) ==
    IF a \in sweep.doomed THEN [asset[a] EXCEPT !.status = "invalid"]
    ELSE IF a \in Referenced THEN [asset[a] EXCEPT !.orphaned = NotOrphaned]
    ELSE IF asset[a].orphaned = NotOrphaned THEN [asset[a] EXCEPT !.orphaned = 0]
    ELSE asset[a]

\* The row of an image of the batch after the sweep.
Swept(a) ==
    IF a \in sweep.doomed THEN [asset[a] EXCEPT !.status = "deleted"]
    ELSE IF a \in Referenced THEN [asset[a] EXCEPT !.orphaned = NotOrphaned]
    ELSE IF asset[a].orphaned = NotOrphaned THEN [asset[a] EXCEPT !.orphaned = 0]
    ELSE asset[a]

\* One transaction; mappings rotate in batches of their own, so any of the expired go.
SweepCommits ==
    /\ sweep.phase = "deleting" /\ sweep.left = {}
    /\ asset' = [a \in Image |-> IF a \in sweep.batch THEN Swept(a) ELSE asset[a]]
    /\ \E gone \in SUBSET {a \in Image \ Named : mapping[a] \in {"stale", "invalid"}} :
         mapping' = [a \in Image |-> IF a \in gone THEN "none" ELSE mapping[a]]
    /\ cursor' = NextCursor
    /\ sweep' = NoSweep
    /\ UNCHANGED <<file, character, job, handler, faults>>

\* A file cannot be deleted, or the database refuses: the transaction is rolled back.
SweepFails ==
    /\ sweep.phase = "deleting" /\ faults < MaxFaults
    /\ sweep' = NoSweep
    /\ faults' = faults + 1
    /\ UNCHANGED <<file, asset, mapping, character, job, handler, cursor>>

Crash ==
    /\ faults < MaxFaults
    /\ handler' = Quiet /\ sweep' = NoSweep /\ cursor' = 0
    /\ faults' = faults + 1
    /\ UNCHANGED <<file, asset, mapping, character, job>>

Handle ==
    \/ WriteFile \/ RecordAsset \/ Resolve \/ Look \/ Check \/ Touch
    \/ \E c \in Character : Insert(c) \/ Snapshot(c)
    \/ \E j \in Job : EnqueueInline(j) \/ EnqueueCharacter(j) \/ EnqueueReference(j)

Next ==
    \/ \E program \in {Upload, Inline, Catalog, Generate, Reference}, a \in Image :
         Begin(program, a)
    \/ Handle
    \/ \E a \in Image : PutMedia(a) \/ InvalidateMedia(a) \/ SweepDeletes(a)
    \/ \E c \in Character : DropCharacter(c)
    \/ \E j \in Job : SettleJob(j)
    \/ Tick \/ SweepStarts \/ SweepCommits \/ SweepFails \/ Crash

Spec == Init /\ [][Next]_vars

\* Handlers return, days pass, and the maintenance lane keeps sweeping.  Handlers
\* and sweeps are far shorter than the gaps between them (a sweep follows the last
\* one by maintenance_interval_seconds), so that both rest again and again; who
\* waits for the store's lock gets it in the end.
Fairness == []<>EventLoopFree /\ SF_vars(Tick) /\ SF_vars(SweepStarts)

FairSpec == Spec /\ Fairness
-----------------------------------------------------------------------------
(* Properties.                                                             *)

TypeOK ==
    /\ file \subseteq Image
    /\ asset \in [Image -> [status: {"none", "active", "deleted"},
                            orphaned: NotOrphaned..Retention]]
    /\ mapping \in [Image -> {"none", "active", "stale", "invalid"}]
    /\ character \in [Character -> SUBSET Image]
    /\ job \in [Job -> [active: BOOLEAN, inputs: SUBSET Image, sources: SUBSET Image,
                        media: SUBSET Image]]
    /\ sweep \in [phase: {"idle", "deleting"}, batch: SUBSET Image, doomed: SUBSET Image,
                  left: SUBSET Image]
    /\ cursor \in 0..Images
    /\ faults \in 0..MaxFaults

\* "Source bytes used by durable jobs are stored in the content-addressed asset
\* store before enqueueing so a restart does not lose required input"
\* (docs/architecture.md): whatever sweeps and crashes come in between, an
\* unsettled job finds the bytes of its inline image.
InlineInputsKept == \A j \in Job : job[j].active => job[j].inputs \subseteq file

\* "Keep source bytes while any live Character or job still references them"
\* (projects.py): the sweep deletes no file that is referenced by then, even by a
\* request that arrived while it was running, and no mapping a job names.
SweepSparesReferenced ==
    [][/\ (file \ file') \cap Referenced' = {}
       /\ \A a \in Named : mapping[a] # "none" => mapping'[a] # "none"]_vars

\* "Candidate batches rotate past protected mappings" (docs/architecture.md), and
\* past protected assets: an image nobody refers to any more goes in the end.
OrphansSwept ==
    \A a \in Image :
        <>[](a \notin Referenced /\ handler.image # a) => []<>(asset[a].status # "active")

\* "Referenced source assets remain protected" (docs/architecture.md), "Character
\* reference bytes are retained in the configured asset store" (README.md).
CharacterSourcesKept == \A c \in Character : character[c] \subseteq file
=============================================================================
