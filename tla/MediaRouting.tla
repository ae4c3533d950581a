---------------------------- MODULE MediaRouting ----------------------------
(***************************************************************************)
(* Which Google Flow project and which media a generation request names:   *)
(* the managed project and the media transfer of app/services/flow.py, run *)
(* by _dispatch_job (app/workers/job_worker.py) and by POST /v1/media, over *)
(* the tables of app/projects.py that remember whose projects and media    *)
(* they are, under the locks of app/runtime.py.                            *)
(*                                                                         *)
(* A connection belongs to one installation, and the Google account signed *)
(* in there can change at any time; the backend learns of it by an         *)
(* auth_available frame and then a user_info frame.  The dispatches of one *)
(* event loop interleave at their awaits; an action is the code between    *)
(* two of them.  An id names its content and its project: ids of the same  *)
(* content in one project are not told apart.                              *)
(***************************************************************************)
EXTENDS Integers, FiniteSets

CONSTANTS
    Conn,             \* connection ids, one per installation
    Account, NoAccount,
    Job,              \* generation jobs and POST /v1/media requests
    Image,            \* contents of images, named by their SHA-256
    Bytes,            \* what a digest stands for; a generated image has a
                      \* made-up digest, here the job it comes from
    FirstAccount,     \* who is signed in where at the start
    Restless,         \* bound: connectors that reconnect, sync or change account
    NoKey, NoRow,
    MaxProjects,      \* bound: projects at Google Flow
    MaxPages,         \* pages a project lookup reads at most (20 in the code)
    MaxEvents         \* bound: account changes and reconnects

Digest == Image \cup Job
Project == 1..MaxProjects
Object == Conn \X (0..MaxEvents)        \* an ExtensionConnection
Key == Conn \X (Account \cup {NoAccount})   \* _account_key: the email may be missing
Id == [project: Project, content: Digest]
Row == [key: Key, project: Project, digest: Digest, id: Id]

ASSUME RoutingAssumption ==
    /\ NoAccount \notin Account
    /\ FirstAccount \in [Conn -> Account]
    /\ Restless \subseteq Conn
    /\ Bytes \in [Image \cup Job -> Image]
    /\ \A i \in Image : Bytes[i] = i
    /\ {MaxProjects, MaxEvents} \subseteq Nat
    /\ MaxPages \in Nat \ {0}
    /\ NoKey \notin Key /\ NoRow \notin Row

VARIABLES
    signed,    \* the account signed in at each connector
    live,      \* which object of a connector is registered
    email,     \* account_email of every object
    owner,     \* the account of each project Flow has
    maker,     \* the key it was created for, NoKey if by someone else
    stored,    \* provider_projects: the managed project of a key, 0 for none
    route,     \* provider_project_routes: the key a project is remembered for
    synced,    \* project_sync_sessions
    media,     \* the active rows of provider_media
    task,      \* one job or upload each
    events,    \* account changes and reconnects so far
    crossed    \* connectors with a dispatch that an account change fell into

flow == <<owner, maker>>
tables == <<stored, route, synced, media>>
sessions == <<signed, live, email, events, crossed>>
vars == <<sessions, flow, tables, task>>

Phase == {"new", "queued", "lockwait", "listing", "creating", "prepare", "moving",
          "waiting", "downloading", "uploading", "calling", "accepted", "done"}

NoObject == CHOOSE o \in Object : TRUE   \* what a task holds before it is dispatched

(* refs: the media the client named, and after StartMoves those of the ids *)
(* that nothing is known of; ids: media known to be in the project.  The   *)
(* request carries both.  at: the key a helper computed when it was        *)
(* entered; slot: the digest whose media lock is wanted or held; from: the *)
(* row being copied, if one is.                                            *)
Task == [phase: Phase, upload: BOOLEAN, locked: BOOLEAN, target: Key \cup {NoKey},
         asked: 0..MaxProjects, refs: SUBSET Id, todo: SUBSET Image, obj: Object \cup {NoObject},
         key: Key \cup {NoKey},
         project: 0..MaxProjects, found: SUBSET Project, pages: 0..MaxPages,
         at: Key \cup {NoKey}, moves: SUBSET Row, from: Row \cup {NoRow}, slot: Digest \cup {NoRow},
         ids: SUBSET Id, cached: SUBSET Image]

Rest(phase) ==
    [phase |-> phase, upload |-> FALSE, locked |-> FALSE, target |-> NoKey, asked |-> 0,
     refs |-> {}, todo |-> {}, obj |-> NoObject, key |-> NoKey, project |-> 0,
     found |-> {}, pages |-> 0, at |-> NoKey, moves |-> {}, from |-> NoRow, slot |-> NoRow,
     ids |-> {}, cached |-> {}]

Init ==
    /\ signed = FirstAccount
    /\ live = [c \in Conn |-> 0]
    /\ email = [o \in Object |-> IF o[2] = 0 THEN FirstAccount[o[1]] ELSE NoAccount]
    /\ owner = [p \in {} |-> NoAccount]
    /\ maker = [p \in {} |-> NoKey]
    /\ stored = [k \in Key |-> 0]
    /\ route = [p \in Project |-> NoKey]
    /\ synced = {}
    /\ media = {}
    /\ task = [j \in Job |-> Rest("new")]
    /\ events = 0
    /\ crossed = {}

-----------------------------------------------------------------------------
(* Keys, projects and rows.                                                *)

\* Mutant: installations stand for accounts.
InstallationOf(o) == <<o[1], NoAccount>>

\* _account_key.
KeyOf(o) == <<o[1], email[o]>>

\* Requests go by connection id, through whatever socket is registered.
Session(t) == signed[t.obj[1]]

Owned(a) == {p \in DOMAIN owner : owner[p] = a}

NewProject(a, k) ==
    LET p == Cardinality(DOMAIN owner) + 1
    IN  /\ p \in Project
        /\ owner' = [q \in 1..p |-> IF q = p THEN a ELSE owner[q]]
        /\ maker' = [q \in 1..p |-> IF q = p THEN k ELSE maker[q]]

\* get_media; put_media replaces the row of the same key, project and digest.
Rows(k, p, d) == {r \in media : r.key = k /\ r.project = p /\ r.digest = d}
Put(rows, k, p, d, m) ==
    {r \in rows : ~(r.key = k /\ r.project = p /\ r.digest = d)}
        \cup {[key |-> k, project |-> p, digest |-> d, id |-> m]}

Busy(t) == t.phase \notin {"new", "queued", "done"}
Waiting(t) == t.phase \in {"listing", "creating", "downloading", "uploading", "calling", "accepted"}

Goes(j, t) == task' = [task EXCEPT ![j] = t]
Ends(j) == Goes(j, Rest("done"))

-----------------------------------------------------------------------------
(* Connectors.                                                             *)

\* The user changes the account, or a cached bearer runs out and is fetched anew.
SwitchAccount(c, a) ==
    /\ events < MaxEvents /\ signed[c] # a
    /\ events' = events + 1
    /\ signed' = [signed EXCEPT ![c] = a]
    /\ crossed' = IF \E j \in Job : Busy(task[j]) /\ task[j].obj[1] = c
                  THEN crossed \cup {c} ELSE crossed
    /\ UNCHANGED <<live, email, flow, tables, task>>

\* auth_available forgets the identity, also when it has not changed.
AuthAvailable(c) ==
    /\ email[<<c, live[c]>>] # NoAccount
    /\ email' = [email EXCEPT ![<<c, live[c]>>] = NoAccount]
    /\ UNCHANGED <<signed, live, events, crossed, flow, tables, task>>

\* user_info; one that repeats what is known changes nothing.
UserInfo(c) ==
    /\ email[<<c, live[c]>>] # signed[c]
    /\ email' = [email EXCEPT ![<<c, live[c]>>] = signed[c]]
    /\ UNCHANGED <<signed, live, events, crossed, flow, tables, task>>

\* A new socket and object.  Requests pending on the old one have failed by then;
\* a dispatch that waits for a lock goes on with the old object.
Reconnect(c) ==
    /\ events < MaxEvents
    /\ events' = events + 1
    /\ \A j \in Job : task[j].obj[1] = c => ~Waiting(task[j])
    /\ live' = [live EXCEPT ![c] = @ + 1]
    /\ UNCHANGED <<signed, email, crossed, flow, tables, task>>

\* A project made by hand, or by a request that was given up on.
OtherProject(a) ==
    /\ NewProject(a, NoKey)
    /\ UNCHANGED <<sessions, tables, task>>

-----------------------------------------------------------------------------
(* Submission.  A client names media it has been told of and projects the  *)
(* Provider knows a route for (_validate_project_route).                   *)

Submit(j, t) == Goes(j, t) /\ UNCHANGED <<sessions, flow, tables>>

\* _generation_route with an explicit project: the job is locked to its owner.
SubmitExplicit(j, p, refs, inline) ==
    /\ route[p] # NoKey
    /\ Submit(j, [Rest("queued") EXCEPT !.locked = TRUE, !.asked = p, !.target = route[p],
                                        !.refs = refs, !.todo = inline])

\* ... with known media only: the route is inferred, and a preference.
SubmitInferred(j, r) ==
    Submit(j, [Rest("queued") EXCEPT !.asked = r.project, !.target = r.key, !.refs = {r.id}])

\* ... with inline images, or nothing that has a route.
SubmitManaged(j, refs, inline) ==
    /\ inline # {} \/ refs = {}
    /\ Submit(j, [Rest("queued") EXCEPT !.refs = refs, !.todo = inline])

\* POST /v1/media.
SubmitUpload(j, p, i) ==
    /\ p # 0 => route[p] # NoKey
    /\ Submit(j, [Rest("queued") EXCEPT !.upload = TRUE, !.locked = TRUE, !.asked = p,
                      !.target = IF p = 0 THEN NoKey ELSE route[p], !.todo = {i}])

-----------------------------------------------------------------------------
(* The managed project.                                                    *)

IsSynced(t) == <<t.obj, t.key>> \in synced

\* Mutant: the lookups of earlier sessions count for ever.
KeepSessions(t) == synced \cup {<<t.obj, t.key>>}

MarkSynced(t) == {s \in synced : s[1][1] # t.obj[1]} \cup {<<t.obj, t.key>>}

\* With its project, a dispatch enters _upload_inline_images, and computes the key again.
Enter(t, p) ==
    [t EXCEPT !.phase = "prepare", !.project = p, !.at = KeyOf(t.obj), !.found = {}, !.pages = 0]

\* The first check of _managed_project, before the lock.
Managed(t) ==
    IF stored[t.key] # 0 /\ IsSynced(t) THEN Enter(t, stored[t.key])
                                        ELSE [t EXCEPT !.phase = "lockwait"]

\* An account is chosen: its key is that of the target and of the project's owner,
\* or their bare installation; a job that is not locked may go anywhere instead.
\* An upload asks for the exact key.
Fits(t, k) ==
    /\ t.target \in {NoKey, k} \/ (~t.upload /\ t.target = <<k[1], NoAccount>>)
    /\ t.asked # 0 => \/ route[t.asked] = k
                      \/ ~t.upload /\ route[t.asked] = <<k[1], NoAccount>>

Select(j, c) ==
    LET o == <<c, live[c]>>
        k == KeyOf(o)
        t == [task[j] EXCEPT !.obj = o, !.key = k, !.locked = FALSE, !.target = NoKey, !.asked = 0]
        asked == task[j].asked
    IN  /\ task[j].phase = "queued"
        /\ email[o] # NoAccount
        /\ Fits(task[j], k) \/ ~task[j].locked
        /\ Goes(j, IF asked # 0 /\ route[asked] = k THEN Enter(t, asked) ELSE Managed(t))
        /\ crossed' = IF email[o] # signed[c] THEN crossed \cup {c} ELSE crossed
        /\ UNCHANGED <<signed, live, email, events, flow, tables>>

\* Mutant: the lookup runs without the lock.
NoProjectLock(j) == TRUE

\* project_lock: one dispatch of a key looks up, or creates, at a time.
ProjectLockFree(j) ==
    \A i \in Job \ {j} : task[i].phase \in {"listing", "creating"} => task[i].key # task[j].key

\* The second check, under the lock; then the first page is asked for.
LookUp(j) ==
    LET t == Managed(task[j])
    IN  /\ task[j].phase = "lockwait" /\ ProjectLockFree(j)
        /\ Goes(j, IF t.phase = "lockwait" THEN [t EXCEPT !.phase = "listing"] ELSE t)
        /\ UNCHANGED <<sessions, flow, tables>>

Remember(ps, k) == route' = [p \in Project |-> IF p \in ps THEN k ELSE route[p]]

\* A page of the account that is signed in now; each project on it is remembered.
ListPage(j, shown) ==
    LET t == task[j]
    IN  /\ t.phase = "listing" /\ t.pages + 1 < MaxPages
        /\ shown \subseteq Owned(Session(t))
        /\ Remember(shown, t.key)
        /\ Goes(j, [t EXCEPT !.found = @ \cup shown, !.pages = @ + 1])
        /\ UNCHANGED <<sessions, flow, stored, synced, media>>

\* projects.put, which also remembers the route, and mark_project_synced.
Adopt(j, t, p, ps) ==
    /\ stored' = [stored EXCEPT ![t.key] = p]
    /\ Remember(ps, t.key)
    /\ synced' = MarkSynced(t)
    /\ Goes(j, Enter(t, p))
    /\ UNCHANGED <<sessions, media>>

Newest(ps) == CHOOSE p \in ps : \A q \in ps : q <= p

\* The last page, or the last one that is read.
ListEnds(j, shown) ==
    LET t == task[j]
        all == Owned(Session(t))
        found == t.found \cup shown
    IN  /\ t.phase = "listing" /\ shown \subseteq all
        /\ all \subseteq found \/ t.pages + 1 = MaxPages
        /\ IF found # {}
           THEN Adopt(j, t, Newest(found), shown \cup {Newest(found)})
           ELSE /\ IF all = {}
                   THEN Goes(j, [t EXCEPT !.phase = "creating", !.pages = 0])
                   ELSE Ends(j)
                /\ UNCHANGED <<sessions, tables>>
        /\ UNCHANGED flow

\* Flow creates the project for whoever is signed in.
CreateAnswers(j) ==
    LET t == task[j]
        p == Cardinality(DOMAIN owner) + 1
    IN  /\ t.phase = "creating"
        /\ NewProject(Session(t), t.key)
        /\ Adopt(j, t, p, {p})

-----------------------------------------------------------------------------
(* Inline images and media of another account or project.                  *)

\* Without a cached row the media lock is asked for.
Want(j) ==
    LET t == task[j]
    IN  /\ t.phase = "prepare"
        /\ \E d \in t.todo :
             LET hit == Rows(t.at, t.project, d)
             IN  Goes(j, IF hit = {} \/ t.upload
                         THEN [t EXCEPT !.phase = "waiting", !.slot = d]
                         ELSE [t EXCEPT !.todo = @ \ {d}, !.cached = @ \cup {d},
                                        !.ids = @ \cup {r.id : r \in hit}])
        /\ UNCHANGED <<sessions, flow, tables>>

\* The ids that _known_media finds no active row for.
Strange(ids) == {m \in ids : \A r \in media : r.id # m}

\* _known_media: for each id the row that was used last; any of them here.
Picks(ids) ==
    {rs \in SUBSET {r \in media : r.id \in ids} :
        \A m \in ids \ Strange(ids) : Cardinality({r \in rs : r.id = m}) = 1}

Ready(k) == \E c \in Conn : email[<<c, live[c]>>] # NoAccount /\ KeyOf(<<c, live[c]>>) = k

\* Mutant: media of the same account are taken to be in the right project.
OtherAccount(r, t, k) == r.key # t.key /\ r.key # k

\* A row that has to be copied: neither the dispatch's key nor the key of now owns it here.
Foreign(r, t, k) == (r.key # t.key /\ r.key # k) \/ r.project # t.project

\* With nothing left to copy the generation request leaves.
Sends(t) ==
    IF t.phase = "moving" /\ t.moves = {} THEN [t EXCEPT !.phase = "calling", !.at = NoKey] ELSE t

\* _rehydrate_media_ids: every source must be readable, or its account connected.  An id
\* without an active row stays in the request as it came.
StartMoves(j) ==
    LET t == task[j]
        k == KeyOf(t.obj)
        all == t.ids \cup t.refs
    IN  /\ t.phase = "prepare" /\ t.todo = {} /\ ~t.upload
        /\ \E rs \in Picks(all) :
             LET moves == {r \in rs : Foreign(r, t, k)}
             IN  /\ \A r \in moves : r.digest \in Image \/ Ready(r.key)
                 /\ Goes(j, Sends([t EXCEPT !.phase = "moving", !.at = k, !.moves = moves,
                                            !.refs = Strange(all), !.ids = {r.id : r \in rs \ moves}]))
        /\ UNCHANGED <<sessions, flow, tables>>

NextMove(j) ==
    LET t == task[j]
    IN  /\ t.phase = "moving"
        /\ \E r \in t.moves : Goes(j, [t EXCEPT !.phase = "waiting", !.from = r, !.slot = r.digest])
        /\ UNCHANGED <<sessions, flow, tables>>

\* The row's media id is used; back to the loop the lock was taken in.
Resolved(t, ms) ==
    [t EXCEPT !.phase = IF t.upload THEN "done" ELSE IF t.from = NoRow THEN "prepare" ELSE "moving",
              !.ids = @ \cup ms, !.slot = NoRow, !.from = NoRow,
              !.todo = @ \ {t.slot}, !.moves = @ \ {t.from}]

Proceed(t) == IF t.phase = "done" THEN Rest("done") ELSE Sends(t)

Holds(t) == t.phase \in {"downloading", "uploading"}
SameSlot(s, t) == s.at = t.at /\ s.project = t.project /\ s.slot = t.slot
MediaLockFree(j) == \A i \in Job \ {j} : Holds(task[i]) => ~SameSlot(task[i], task[j])

\* Mutant: the cache is not read again once the lock is held.
NotReadAgain(t) == {}

\* The second look into the cache, under the lock.
ReadAgain(t) == Rows(t.at, t.project, t.slot)

\* Under the lock: a cached id, a stored asset to upload, or a download first.
UnderLock(j) ==
    LET t == task[j]
        hit == ReadAgain(t)
    IN  /\ t.phase = "waiting" /\ MediaLockFree(j)
        /\ IF hit # {}
           THEN Goes(j, Proceed([Resolved(t, {r.id : r \in hit})
                            EXCEPT !.cached = IF t.from = NoRow THEN @ \cup {t.slot} ELSE @]))
           ELSE \/ t.slot \in Image /\ Goes(j, [t EXCEPT !.phase = "uploading"])
                \/ t.from # NoRow /\ Goes(j, [t EXCEPT !.phase = "downloading"])
        /\ UNCHANGED <<sessions, flow, tables>>

\* download_media, then a third look: the content may be cached under its own digest.
DownloadAnswers(j) ==
    LET t == task[j]
        hit == Rows(t.at, t.project, Bytes[t.slot])
    IN  /\ t.phase = "downloading"
        /\ Goes(j, IF hit # {} THEN Proceed(Resolved(t, {r.id : r \in hit}))
                               ELSE [t EXCEPT !.phase = "uploading"])
        /\ UNCHANGED <<sessions, flow, tables>>

\* Mutant: the copy is recorded for the project it was copied from.
PutAtSource(t, m) ==
    Put(media, t.at, IF t.from = NoRow THEN t.project ELSE t.from.project, t.slot, m)

\* The row of the content, and for a copy the alias of the digest it was known by.
PutUpload(t, m) ==
    Put(Put(media, t.at, t.project, Bytes[t.slot], m), t.at, t.project, t.slot, m)

\* Flow takes an upload only into a project of the account that is signed in.
UploadAnswers(j) ==
    LET t == task[j]
        m == [project |-> t.project, content |-> Bytes[t.slot]]
    IN  /\ t.phase = "uploading" /\ owner[t.project] = Session(t)
        /\ media' = PutUpload(t, m)
        /\ IF t.upload THEN Remember({t.project}, KeyOf(t.obj)) ELSE UNCHANGED route
        /\ Goes(j, Proceed(Resolved(t, {m})))
        /\ UNCHANGED <<sessions, flow, stored, synced>>

\* A failed lookup, creation, transfer or upload; what Flow did of it, if anything,
\* is OtherProject's.
Fails(j) ==
    /\ \/ task[j].phase \in {"listing", "creating", "downloading", "uploading"}
       \/ task[j].phase = "prepare" /\ task[j].todo = {}
    /\ Ends(j)
    /\ UNCHANGED <<sessions, flow, tables>>

-----------------------------------------------------------------------------
(* The generation request.                                                 *)

FlowAccepts(j) ==
    LET t == task[j]
    IN  /\ t.phase = "calling" /\ owner[t.project] = Session(t)
        /\ Goes(j, [t EXCEPT !.phase = "accepted"])
        /\ UNCHANGED <<sessions, flow, tables>>

\* _remember_project_on_success and _remember_generated_media compute the key again.
Succeeds(j) ==
    LET t == task[j]
        k == KeyOf(t.obj)
    IN  /\ t.phase = "accepted"
        /\ Remember({t.project}, k)
        /\ media' = Put(media, k, t.project, j, [project |-> t.project, content |-> j])
        /\ Ends(j)
        /\ UNCHANGED <<sessions, flow, stored, synced>>

\* A 404 invalidates the rows that were served from the cache.
NotFound(j) ==
    LET t == task[j]
    IN  /\ t.phase = "calling"
        /\ media' = media \ UNION {Rows(t.key, t.project, d) : d \in t.cached}
        /\ Ends(j)
        /\ UNCHANGED <<sessions, flow, stored, route, synced>>

CallFails(j) ==
    /\ task[j].phase \in {"calling", "accepted"}
    /\ Ends(j)
    /\ UNCHANGED <<sessions, flow, tables>>

-----------------------------------------------------------------------------
Known == {{}} \cup {{r.id} : r \in media}

Submits(j) ==
    /\ task[j].phase = "new"
    /\ \/ \E p \in Project, refs \in Known, inline \in SUBSET Image : SubmitExplicit(j, p, refs, inline)
       \/ \E r \in media : SubmitInferred(j, r)
       \/ \E refs \in Known, inline \in SUBSET Image : SubmitManaged(j, refs, inline)
       \/ \E p \in 0..MaxProjects, i \in Image : SubmitUpload(j, p, i)

Runs(j) ==
    \/ \E c \in Conn : Select(j, c)
    \/ LookUp(j) \/ CreateAnswers(j)
    \/ \E shown \in SUBSET Project : ListPage(j, shown) \/ ListEnds(j, shown)
    \/ Want(j) \/ StartMoves(j) \/ NextMove(j) \/ UnderLock(j)
    \/ DownloadAnswers(j) \/ UploadAnswers(j) \/ Fails(j)
    \/ FlowAccepts(j) \/ Succeeds(j) \/ NotFound(j) \/ CallFails(j)

Next ==
    \/ \E c \in Restless : \/ \E a \in Account : SwitchAccount(c, a)
                           \/ AuthAvailable(c) \/ UserInfo(c) \/ Reconnect(c)
    \/ \E a \in Account : OtherProject(a)
    \/ \E j \in Job : Submits(j) \/ Runs(j)

Spec == Init /\ [][Next]_vars
-----------------------------------------------------------------------------
(* Properties.                                                             *)

TypeOK ==
    /\ signed \in [Conn -> Account]
    /\ live \in [Conn -> 0..MaxEvents]
    /\ email \in [Object -> Account \cup {NoAccount}]
    /\ \E n \in 0..MaxProjects : owner \in [1..n -> Account] /\ maker \in [1..n -> Key \cup {NoKey}]
    /\ stored \in [Key -> 0..MaxProjects]
    /\ route \in [Project -> Key \cup {NoKey}]
    /\ synced \subseteq Object \X Key
    /\ \A s, z \in synced : s[1][1] = z[1][1] => s = z
    /\ media \subseteq Row
    /\ \A r \in media : Rows(r.key, r.project, r.digest) = {r}
    /\ task \in [Job -> Task]
    /\ events \in 0..MaxEvents
    /\ crossed \subseteq Conn

\* Every cached media id is an id of the row's own project and content, also when
\* accounts change, answers cross and copies overlap.
MediaInProject ==
    \A r \in media : /\ r.id.project = r.project
                     /\ r.id.content \in {r.digest, Bytes[r.digest]}

\* "References are never silently sent as foreign Google media IDs to another
\* account" (docs/architecture.md): every id in a request that had an active row when
\* the copies began, and every id that was uploaded or copied for it, is an id of the
\* project the request names, wherever the job was moved to.  It says nothing of the
\* ids in refs, which the code sends as they came.
RefsInProject ==
    \A j \in Job : task[j].phase \in {"calling", "accepted"} =>
        /\ task[j].project \in DOMAIN owner
        /\ \A m \in task[j].ids : m.project = task[j].project

\* "Creates a FlowProvider project only when lookup confirms the account has no
\* project" (docs/architecture.md): concurrent dispatches of one key create one.
CreatedOnce ==
    \A k \in Key : k[1] \notin crossed => Cardinality({p \in DOMAIN maker : maker[p] = k}) <= 1

\* Without an account change during a dispatch, every project is remembered for
\* the account it belongs to, or for its bare installation.
OwnerRemembered ==
    /\ \A k \in Key : stored[k] # 0 /\ k[1] \notin crossed => owner[stored[k]] = k[2]
    /\ \A p \in Project : route[p] # NoKey /\ route[p][1] \notin crossed
                          => route[p][2] \in {owner[p], NoAccount}

\* "hashes and persists the bytes, deduplicates uploads per account/project" (README.md),
\* for one key, project and digest.  A dispatch begins a download or an upload only when
\* no other one downloads or uploads under that digest; it begins an upload, also the one
\* that follows a download, only when the cache has no row for the content.  Digests are
\* compared, not contents: a copy of a generated image goes by a made-up digest, so that
\* it and an upload of the same bytes under their SHA-256 may run at the same time.
UploadedOnce ==
    [][\A j \in Job :
         LET old == task[j]
             new == task'[j]
         IN  /\ Holds(new) /\ ~Holds(old) =>
                  \A i \in Job \ {j} : Holds(task'[i]) => ~SameSlot(task'[i], new)
             /\ new.phase = "uploading" /\ old.phase # "uploading" =>
                  Rows(new.at, new.project, Bytes[new.slot]) = {}]_vars

\* README.md: "Google project/media ownership is never silently moved to an
\* unrelated account": a project remembered for its own account stays with it.
OwnershipKept ==
    [][\A p \in Project : route[p] # NoKey /\ p \in DOMAIN owner /\ route[p][2] = owner[p]
                          => route'[p][2] \in {owner[p], NoAccount}]_vars
=============================================================================
