------------------------- MODULE MediaRoutingProofs -------------------------
(***************************************************************************)
(* Theorems about MediaRouting, for any connectors, accounts, jobs and     *)
(* images, any number of projects, of pages that are read, and of account  *)
(* changes and reconnects.                                                 *)
(***************************************************************************)
EXTENDS MediaRouting, FiniteSetTheorems, WellFoundedInduction, TLAPS

-----------------------------------------------------------------------------
(* The inductive invariant.                                                *)

Early == {"new", "queued", "lockwait", "listing", "creating", "done"}
Preparing == {"prepare", "moving", "waiting", "downloading", "uploading"}
Fetching == {"waiting", "downloading", "uploading"}
Looking == {"listing", "creating"}

\* A dispatch has a connection, and unless an account change fell into it, the key
\* it computed names who is signed in there.
Chosen(t) ==
    /\ t.obj \in Object /\ t.key \in Key /\ t.key[1] = t.obj[1]
    /\ t.obj[1] \notin crossed => /\ t.key[2] = Session(t)
                                  /\ email[t.obj] \in {Session(t), NoAccount}

\* What a dispatch has collected belongs to its project, which exists.
Collected(t) ==
    /\ t.phase \in Early => t.ids = {}
    /\ t.phase \notin Early => t.project \in DOMAIN owner
    /\ t.phase \in Preparing => t.at \in Key
    /\ t.phase \in Fetching => t.slot \in Digest /\ (t.from = NoRow => t.slot \in Image)
    /\ \A m \in t.ids : m.project = t.project
    /\ t.found \subseteq DOMAIN owner
    /\ t.phase # "listing" => t.found = {}

\* What a lookup has found is of the account of the key; when it found none, none
\* was ever created for the key; and a request was accepted from the project's owner.
Answered(t) ==
    t.obj[1] \notin crossed =>
        /\ t.phase = "listing" => \A p \in t.found : owner[p] = Session(t)
        /\ t.phase = "creating" => \A p \in DOMAIN maker : maker[p] # t.key
        /\ t.phase = "accepted" => owner[t.project] = Session(t)

Good(t) == t \in Task /\ (Busy(t) => Chosen(t)) /\ Collected(t) /\ Answered(t)

TaskInv == \A j \in Job : Good(task[j])

\* project_lock: one dispatch of a key looks up, or creates, at a time.
LockInv ==
    \A i, j \in Job : i # j /\ task[i].phase \in Looking /\ task[j].phase \in Looking
                        => task[i].key # task[j].key

\* A project made for a key is the account's of the key, and the only one.
MakerInv ==
    \A p \in DOMAIN maker : maker[p] # NoKey /\ maker[p][1] \notin crossed =>
        /\ owner[p] = maker[p][2]
        /\ \A q \in DOMAIN maker : maker[q] = maker[p] => q = p

\* The tables only name projects that exist.
TableInv ==
    /\ \A k \in Key : stored[k] # 0 => stored[k] \in DOMAIN owner
    /\ \A p \in Project : route[p] # NoKey => p \in DOMAIN owner

LiveInv == \A c \in Conn : live[c] <= events

\* Cached media, one row for each key, project and digest.
MediaInv(rows) ==
    /\ rows \subseteq Row
    /\ \A r, s \in rows : r.key = s.key /\ r.project = s.project /\ r.digest = s.digest => r = s
    /\ \A r \in rows : r.id.project = r.project /\ r.id.content \in {r.digest, Bytes[r.digest]}

\* What is known of the connectors and of Google Flow, of the tables, of the tasks.
World ==
    /\ signed \in [Conn -> Account]
    /\ live \in [Conn -> 0..MaxEvents] /\ LiveInv
    /\ email \in [Object -> Account \cup {NoAccount}]
    /\ \E n \in 0..MaxProjects : owner \in [1..n -> Account] /\ maker \in [1..n -> Key \cup {NoKey}]
    /\ MakerInv
    /\ events \in 0..MaxEvents /\ crossed \subseteq Conn

Tables ==
    /\ stored \in [Key -> 0..MaxProjects]
    /\ route \in [Project -> Key \cup {NoKey}]
    /\ synced \subseteq Object \X Key
    /\ \A s, z \in synced : s[1][1] = z[1][1] => s = z
    /\ MediaInv(media) /\ TableInv /\ OwnerRemembered

Tasks == task \in [Job -> Task] /\ TaskInv /\ LockInv

IInv == World /\ Tables /\ Tasks

-----------------------------------------------------------------------------
(* Constants, and what the helpers return.                                 *)

LEMMA Constants ==
    /\ MaxProjects \in Nat /\ MaxEvents \in Nat /\ MaxPages \in Nat /\ MaxPages # 0
    /\ Project \subseteq Nat \ {0} /\ NoKey \notin Key /\ NoRow \notin Row
    /\ \A d \in Digest : Bytes[d] \in Image /\ Bytes[d] \in Digest /\ d \in Digest
    /\ Image \subseteq Digest /\ Job \subseteq Digest
    /\ \A i \in Image : Bytes[i] = i
    /\ \A c \in Conn : FirstAccount[c] \in Account
BY RoutingAssumption DEF Project, Digest

LEMMA KeyOfType ==
    ASSUME World, NEW o \in Object
    PROVE  KeyOf(o) \in Key
<1>1. email[o] \in Account \cup {NoAccount} /\ o[1] \in Conn
  BY DEF World, Object
<1> QED
  BY <1>1 DEF KeyOf, Key

LEMMA EnterFields ==
    ASSUME World, NEW t \in Task, t.obj \in Object, NEW p \in Project
    PROVE  /\ Enter(t, p) \in Task /\ Enter(t, p).phase = "prepare" /\ Enter(t, p).project = p
           /\ Enter(t, p).at = KeyOf(t.obj) /\ Enter(t, p).found = {} /\ Enter(t, p).obj = t.obj
           /\ Enter(t, p).key = t.key /\ Enter(t, p).ids = t.ids
<1> DEFINE k == KeyOf(t.obj)
           u == [t EXCEPT !.phase = "prepare", !.project = p, !.at = k, !.found = {}, !.pages = 0]
<1>1. k \in Key /\ 0 \in 0..MaxPages /\ p \in 0..MaxProjects /\ "prepare" \in Phase
  BY KeyOfType, Constants DEF Phase, Project
<1>2. Enter(t, p) = u
  BY DEF Enter
<1> HIDE DEF k
<1>3. /\ u \in Task /\ u.phase = "prepare" /\ u.project = p /\ u.at = k /\ u.found = {}
      /\ u.obj = t.obj /\ u.key = t.key /\ u.ids = t.ids
  BY <1>1 DEF Task
<1> QED
  BY <1>2, <1>3 DEF k

\* A dispatch enters its project with nothing collected.
LEMMA EnterGood ==
    ASSUME World, NEW t \in Task, Chosen(t), t.ids = {}, NEW p \in Project, p \in DOMAIN owner
    PROVE  /\ Good(Enter(t, p)) /\ Enter(t, p).phase = "prepare"
           /\ Enter(t, p).key = t.key /\ Enter(t, p).obj = t.obj
<1> DEFINE u == Enter(t, p)
<1>1. t.obj \in Object /\ KeyOf(t.obj) \in Key
  BY KeyOfType DEF Chosen
<1>2. /\ u.phase = "prepare" /\ u.project = p /\ u.at = KeyOf(t.obj) /\ u.found = {}
      /\ u.obj = t.obj /\ u.key = t.key /\ u.ids = {}
  BY <1>1, EnterFields
<1>3. u \in Task
  BY <1>1, EnterFields
<1> HIDE DEF u
<1>4. Chosen(u)
  BY <1>2 DEF Chosen, Session
<1>5. Collected(u)
  BY <1>1, <1>2 DEF Collected, Early, Fetching, Preparing
<1>6. Answered(u)
  BY <1>2 DEF Answered
<1> QED
  BY <1>2, <1>3, <1>4, <1>5, <1>6 DEF Good, u

LEMMA ManagedGood ==
    ASSUME World, Tables, NEW t \in Task, Chosen(t), t.ids = {}, t.found = {}
    PROVE  /\ Good(Managed(t)) /\ Managed(t).phase \in {"prepare", "lockwait"}
           /\ Managed(t).key = t.key /\ Managed(t).obj = t.obj
           /\ Managed(t).found = {} /\ Managed(t).ids = {}
<1>1. CASE stored[t.key] # 0 /\ IsSynced(t)
  <2>1. stored[t.key] \in Project /\ stored[t.key] \in DOMAIN owner
    BY <1>1, Constants DEF Tables, TableInv, Chosen, Project
  <2>2. Managed(t) = Enter(t, stored[t.key])
    BY <1>1 DEF Managed
  <2>3. Enter(t, stored[t.key]).found = {} /\ Enter(t, stored[t.key]).ids = t.ids
    BY DEF Enter, Task
  <2> QED
    BY <2>1, <2>2, <2>3, EnterGood
<1>2. CASE ~(stored[t.key] # 0 /\ IsSynced(t))
  <2> DEFINE u == [t EXCEPT !.phase = "lockwait"]
  <2>1. Managed(t) = u
    BY <1>2 DEF Managed
  <2>2. /\ u \in Task /\ u.phase = "lockwait" /\ u.obj = t.obj /\ u.key = t.key /\ u.ids = {}
        /\ u.found = {}
    BY DEF Task, Phase
  <2> HIDE DEF u
  <2>3. Chosen(u) /\ Collected(u) /\ Answered(u)
    BY <2>2 DEF Chosen, Collected, Answered, Session, Early, Preparing, Fetching
  <2> QED
    BY <2>1, <2>2, <2>3 DEF Good
<1> QED
  BY <1>1, <1>2

\* A task that has not been dispatched has nothing to answer for.
LEMMA QueuedGood ==
    ASSUME NEW t \in Task, t.phase \in {"new", "queued", "done"}, t.ids = {}, t.found = {}
    PROVE  Good(t) /\ ~Busy(t)
BY DEF Good, Busy, Collected, Answered, Early, Preparing, Fetching

LEMMA RestTask ==
    ASSUME NEW phase \in Phase
    PROVE  /\ Rest(phase) \in Task /\ Rest(phase).phase = phase
           /\ Rest(phase).ids = {} /\ Rest(phase).found = {}
<1>1. 0 \in 0..MaxProjects /\ 0 \in 0..MaxPages
  BY Constants
<1> QED
  BY <1>1 DEF Rest, Task

LEMMA DoneGood == Good(Rest("done")) /\ ~Busy(Rest("done")) /\ Rest("done").phase = "done"
<1>1. "done" \in Phase
  BY DEF Phase
<1> QED
  BY <1>1, RestTask, QueuedGood

LEMMA SendsGood ==
    ASSUME NEW t, Good(t), t.phase \in {"prepare", "moving"}
    PROVE  Good(Sends(t)) /\ Sends(t).phase \in {t.phase, "calling"}
<1>1. CASE t.phase = "moving" /\ t.moves = {}
  <2> DEFINE u == [t EXCEPT !.phase = "calling", !.at = NoKey]
  <2>1. Sends(t) = u
    BY <1>1 DEF Sends
  <2>2. /\ u \in Task /\ u.phase = "calling" /\ u.obj = t.obj /\ u.key = t.key /\ u.ids = t.ids
        /\ u.found = t.found /\ u.project = t.project
    BY DEF Good, Task, Phase
  <2> HIDE DEF u
  <2>3. Chosen(u)
    BY <1>1, <2>2 DEF Good, Busy, Chosen, Session
  <2>4. Collected(u) /\ Answered(u)
    BY <1>1, <2>2 DEF Good, Collected, Answered, Early, Preparing, Fetching
  <2> QED
    BY <2>1, <2>2, <2>3, <2>4 DEF Good
<1>2. CASE ~(t.phase = "moving" /\ t.moves = {})
  BY <1>2 DEF Sends
<1> QED
  BY <1>1, <1>2

\* Back in the loop that wanted the media, with ids of the project.
LEMMA ProceedGood ==
    ASSUME NEW t, Good(t), t.phase \in Fetching, NEW ms \in SUBSET Id,
           \A m \in ms : m.project = t.project,
           NEW u \in Task, u.phase \in {"done", "prepare", "moving"}, u.obj = t.obj, u.key = t.key,
           u.project = t.project, u.at = t.at, u.found = t.found, u.ids = t.ids \cup ms
    PROVE  Good(Proceed(u)) /\ Proceed(u).phase \in {"done", "prepare", "moving", "calling"}
<1>1. CASE u.phase = "done"
  BY <1>1, DoneGood DEF Proceed
<1>2. CASE u.phase # "done"
  <2>1. Chosen(u)
    BY DEF Good, Busy, Chosen, Session, Fetching
  <2>2. Collected(u)
    BY <1>2 DEF Good, Collected, Early, Preparing, Fetching
  <2>3. Answered(u)
    BY <1>2 DEF Answered
  <2>4. Good(u)
    BY <2>1, <2>2, <2>3 DEF Good
  <2> QED
    BY <1>2, <2>4, SendsGood DEF Proceed
<1> QED
  BY <1>1, <1>2

LEMMA ResolvedFields ==
    ASSUME NEW t \in Task, NEW ms \in SUBSET Id
    PROVE  /\ Resolved(t, ms) \in Task
           /\ Resolved(t, ms).phase \in {"done", "prepare", "moving"}
           /\ Resolved(t, ms).obj = t.obj /\ Resolved(t, ms).key = t.key
           /\ Resolved(t, ms).project = t.project /\ Resolved(t, ms).at = t.at
           /\ Resolved(t, ms).found = t.found /\ Resolved(t, ms).ids = t.ids \cup ms
           /\ Resolved(t, ms).cached = t.cached
<1> DEFINE phase == IF t.upload THEN "done" ELSE IF t.from = NoRow THEN "prepare" ELSE "moving"
<1>1. phase \in {"done", "prepare", "moving"} /\ phase \in Phase
  BY DEF Phase
<1> DEFINE ids == t.ids \cup ms
           todo == t.todo \ {t.slot}
           moves == t.moves \ {t.from}
           u == [t EXCEPT !.phase = phase, !.ids = ids, !.slot = NoRow, !.from = NoRow,
                          !.todo = todo, !.moves = moves]
<1>2. Resolved(t, ms) = u
  BY DEF Resolved
<1>3. ids \in SUBSET Id /\ todo \in SUBSET Image /\ moves \in SUBSET Row
  BY DEF Task
<1>4. ids = t.ids \cup ms
  OBVIOUS
<1> HIDE DEF phase, ids, todo, moves
<1>5. /\ u.phase = phase /\ u.obj = t.obj /\ u.key = t.key /\ u.project = t.project /\ u.at = t.at
      /\ u.found = t.found /\ u.ids = ids /\ u.cached = t.cached
  BY DEF Task
<1>6. u \in Task
  BY <1>1, <1>3 DEF Task
<1> QED
  BY <1>1, <1>2, <1>4, <1>5, <1>6

-----------------------------------------------------------------------------
(* What an action leaves alone.                                            *)

LEMMA WorldKept ==
    ASSUME World, UNCHANGED <<sessions, flow>>
    PROVE  World'
BY DEF World, LiveInv, MakerInv, sessions, flow

LEMMA TablesKept ==
    ASSUME World, Tables, UNCHANGED <<tables, flow>>, crossed \subseteq crossed'
    PROVE  Tables'
BY DEF Tables, TableInv, OwnerRemembered, MediaInv, tables, flow

\* Nothing known of a task changes while accounts, projects and keys stay.
LEMMA GoodKept ==
    ASSUME UNCHANGED <<sessions, flow>>, NEW t, Good(t)
    PROVE  Good(t)'
BY DEF Good, Busy, Chosen, Collected, Answered, Session, sessions, flow

\* One task moves on, and looks a project up only while nobody else does for the key.
LEMMA OneTask ==
    ASSUME Tasks, NEW j \in Job, NEW t, Goes(j, t), Good(t)',
           \A i \in Job \ {j} : Good(task[i])',
           t.phase \in Looking =>
             \/ task[j].phase \in Looking /\ task[j].key = t.key
             \/ \A i \in Job \ {j} : task[i].phase \in Looking => task[i].key # t.key
    PROVE  Tasks'
<1>1. /\ task \in [Job -> Task] /\ task' = [task EXCEPT ![j] = t]
      /\ \A i \in Job : task'[i] = IF i = j THEN t ELSE task[i]
  BY DEF Tasks, Goes
<1>2. task' \in [Job -> Task]
  <2>1. t \in Task
    BY DEF Good
  <2> QED
    BY <1>1, <2>1
<1>3. TaskInv'
  <2>1. Good(task[j])'
    <3>1. task'[j] = t
      BY <1>1
    <3> QED
      BY <3>1 DEF Good, Busy, Chosen, Collected, Answered, Session
  <2> QED
    BY <2>1 DEF TaskInv
<1>4. LockInv'
  BY <1>1 DEF Tasks, LockInv
<1> QED
  BY <1>2, <1>3, <1>4 DEF Tasks

\* ... and nothing else happens.
LEMMA TaskOnly ==
    ASSUME IInv, NEW j \in Job, NEW t, Goes(j, t), Good(t), UNCHANGED <<sessions, flow>>,
           t.phase \in Looking =>
             \/ task[j].phase \in Looking /\ task[j].key = t.key
             \/ \A i \in Job \ {j} : task[i].phase \in Looking => task[i].key # t.key
    PROVE  World' /\ Tasks'
<1>1. World'
  BY WorldKept DEF IInv
<1>2. Good(t)'
  BY GoodKept
<1>3. ASSUME NEW i \in Job \ {j}
      PROVE  Good(task[i])'
  <2> DEFINE s == task[i]
  <2>1. Good(s) /\ task'[i] = s
    BY DEF IInv, Tasks, TaskInv, Goes
  <2>2. \A u : Good(u) => (Good(u))'
    BY GoodKept
  <2> QED
    BY <2>1, <2>2 DEF Good, Busy, Chosen, Collected, Answered, Session, sessions, flow
<1> QED
  BY <1>1, <1>2, <1>3, OneTask DEF IInv

-----------------------------------------------------------------------------
(* The tables.                                                             *)

LEMMA PutGood ==
    ASSUME NEW rows, MediaInv(rows), NEW k \in Key, NEW p \in Project, NEW d \in Digest,
           NEW m \in Id, m.project = p, m.content \in {d, Bytes[d]}
    PROVE  MediaInv(Put(rows, k, p, d, m))
<1> DEFINE new == [key |-> k, project |-> p, digest |-> d, id |-> m]
           rest == {r \in rows : ~(r.key = k /\ r.project = p /\ r.digest = d)}
<1>1. new \in Row /\ new.key = k /\ new.project = p /\ new.digest = d /\ new.id = m
  BY DEF Row
<1>2. Put(rows, k, p, d, m) = rest \cup {new}
  BY DEF Put
<1>3. /\ rest \subseteq rows
      /\ \A r \in rest : ~(r.key = k /\ r.project = p /\ r.digest = d)
  OBVIOUS
<1> HIDE DEF new, rest
<1> QED
  BY <1>1, <1>2, <1>3 DEF MediaInv

\* Projects are remembered for a key that may own them.
LEMMA RememberGood ==
    ASSUME Tables, NEW ps \in SUBSET Project, NEW k \in Key, Remember(ps, k), ps \subseteq DOMAIN owner',
           DOMAIN owner \subseteq DOMAIN owner', \A p \in DOMAIN owner : owner'[p] = owner[p],
           crossed' = crossed,
           k[1] \notin crossed => \A p \in ps : k[2] \in {owner'[p], NoAccount}
    PROVE  /\ route' \in [Project -> Key \cup {NoKey}]
           /\ \A p \in Project : route'[p] # NoKey => p \in DOMAIN owner'
           /\ \A p \in Project : route'[p] # NoKey /\ route'[p][1] \notin crossed'
                                 => route'[p][2] \in {owner'[p], NoAccount}
<1>1. /\ route \in [Project -> Key \cup {NoKey}]
      /\ \A p \in Project : route[p] # NoKey => p \in DOMAIN owner
      /\ \A p \in Project : route[p] # NoKey /\ route[p][1] \notin crossed
                                 => route[p][2] \in {owner[p], NoAccount}
  BY DEF Tables, TableInv, OwnerRemembered
<1>2. route' = [p \in Project |-> IF p \in ps THEN k ELSE route[p]]
  BY DEF Remember
<1>3. \A p \in Project : route'[p] = IF p \in ps THEN k ELSE route[p]
  BY <1>2
<1>4. route' \in [Project -> Key \cup {NoKey}]
  BY <1>1, <1>2
<1> QED
  BY <1>1, <1>3, <1>4

\* mark_project_synced leaves one session for each connection.
LEMMA SyncedGood ==
    ASSUME Tables, NEW t, t.obj \in Object, t.key \in Key, synced' = MarkSynced(t)
    PROVE  /\ synced' \subseteq Object \X Key
           /\ \A s, z \in synced' : s[1][1] = z[1][1] => s = z
<1> DEFINE new == <<t.obj, t.key>>
           rest == {s \in synced : s[1][1] # t.obj[1]}
<1>1. synced' = rest \cup {new}
  BY DEF MarkSynced
<1>2. new \in Object \X Key /\ new[1] = t.obj
  OBVIOUS
<1>3. rest \subseteq synced /\ \A s \in rest : s[1][1] # t.obj[1]
  OBVIOUS
<1> HIDE DEF new, rest
<1> QED
  BY <1>1, <1>2, <1>3 DEF Tables

\* A lookup or a creation settles the managed project of the key.
LEMMA AdoptGood ==
    ASSUME Tables, NEW j \in Job, NEW t, t.obj \in Object, t.key \in Key,
           NEW p \in Project, NEW ps \in SUBSET Project, Adopt(j, t, p, ps), p \in ps,
           ps \subseteq DOMAIN owner', DOMAIN owner \subseteq DOMAIN owner',
           \A q \in DOMAIN owner : owner'[q] = owner[q],
           t.key[1] \notin crossed => \A q \in ps : owner'[q] = t.key[2]
    PROVE  Tables'
<1>1. /\ stored' = [stored EXCEPT ![t.key] = p] /\ Remember(ps, t.key) /\ synced' = MarkSynced(t)
      /\ media' = media /\ crossed' = crossed
  BY DEF Adopt, sessions
<1>2. /\ route' \in [Project -> Key \cup {NoKey}]
      /\ \A q \in Project : route'[q] # NoKey => q \in DOMAIN owner'
      /\ \A q \in Project : route'[q] # NoKey /\ route'[q][1] \notin crossed'
                                 => route'[q][2] \in {owner'[q], NoAccount}
  BY <1>1, RememberGood
<1>3. synced' \subseteq Object \X Key /\ \A s, z \in synced' : s[1][1] = z[1][1] => s = z
  BY <1>1, SyncedGood
<1>4. /\ stored' \in [Key -> 0..MaxProjects]
      /\ \A k \in Key : stored'[k] = IF k = t.key THEN p ELSE stored[k]
  <2>1. p \in 0..MaxProjects
    BY DEF Project
  <2> QED
    BY <1>1, <2>1 DEF Tables
<1>5. /\ \A k \in Key : stored'[k] # 0 => stored'[k] \in DOMAIN owner'
      /\ \A k \in Key : stored'[k] # 0 /\ k[1] \notin crossed' => owner'[stored'[k]] = k[2]
  BY <1>1, <1>4 DEF Tables, TableInv, OwnerRemembered
<1>6. MediaInv(media)'
  BY <1>1 DEF Tables, MediaInv
<1> QED
  BY <1>2, <1>3, <1>4, <1>5, <1>6 DEF Tables, TableInv, OwnerRemembered

\* Routes and media change, and nothing else does.
LEMMA RoutesAndMedia ==
    ASSUME Tables, UNCHANGED <<sessions, flow, stored, synced>>, MediaInv(media'),
           \/ route' = route
           \/ \E ps \in SUBSET Project, k \in Key :
                 /\ Remember(ps, k) /\ ps \subseteq DOMAIN owner
                 /\ k[1] \notin crossed => \A p \in ps : k[2] \in {owner[p], NoAccount}
    PROVE  Tables'
<1>1. owner' = owner /\ crossed' = crossed
  BY DEF flow, sessions
<1>2. /\ route' \in [Project -> Key \cup {NoKey}]
      /\ \A q \in Project : route'[q] # NoKey => q \in DOMAIN owner'
      /\ \A q \in Project : route'[q] # NoKey /\ route'[q][1] \notin crossed'
                                 => route'[q][2] \in {owner'[q], NoAccount}
  <2>1. CASE route' = route
    BY <1>1, <2>1 DEF Tables, TableInv, OwnerRemembered
  <2>2. CASE \E ps \in SUBSET Project, k \in Key :
                 /\ Remember(ps, k) /\ ps \subseteq DOMAIN owner
                 /\ k[1] \notin crossed => \A p \in ps : k[2] \in {owner[p], NoAccount}
    <3>1. PICK ps \in SUBSET Project, k \in Key :
                 /\ Remember(ps, k) /\ ps \subseteq DOMAIN owner
                 /\ k[1] \notin crossed => \A p \in ps : k[2] \in {owner[p], NoAccount}
      BY <2>2
    <3> QED
      BY <1>1, <3>1, RememberGood
  <2> QED
    BY <2>1, <2>2
<1> QED
  BY <1>1, <1>2 DEF Tables, TableInv, OwnerRemembered, MediaInv

-----------------------------------------------------------------------------
(* The projects.                                                           *)

LEMMA NumberOfProjects ==
    ASSUME World
    PROVE  /\ Cardinality(DOMAIN owner) \in 0..MaxProjects
           /\ owner \in [1..Cardinality(DOMAIN owner) -> Account]
           /\ maker \in [1..Cardinality(DOMAIN owner) -> Key \cup {NoKey}]
           /\ DOMAIN owner = 1..Cardinality(DOMAIN owner) /\ DOMAIN maker = DOMAIN owner
           /\ DOMAIN owner \subseteq Project
<1>1. PICK n \in 0..MaxProjects : owner \in [1..n -> Account] /\ maker \in [1..n -> Key \cup {NoKey}]
  BY DEF World
<1>2. DOMAIN owner = 1..n /\ DOMAIN maker = 1..n
  BY <1>1
<1>3. Cardinality(1..n) = n
  BY FS_Interval, Constants
<1>4. 1..n \subseteq Project
  BY Constants DEF Project
<1> QED
  BY <1>1, <1>2, <1>3, <1>4

\* A new project is one more, and the others stay as they are.
LEMMA ProjectAdded ==
    ASSUME World, NEW a \in Account, NEW k \in Key \cup {NoKey}, NewProject(a, k)
    PROVE  \E p \in Project :
              /\ p = Cardinality(DOMAIN owner) + 1 /\ p \notin DOMAIN owner
              /\ DOMAIN owner' = DOMAIN owner \cup {p} /\ DOMAIN maker' = DOMAIN owner'
              /\ DOMAIN maker = DOMAIN owner
              /\ owner'[p] = a /\ maker'[p] = k
              /\ \A q \in DOMAIN owner : owner'[q] = owner[q] /\ maker'[q] = maker[q]
              /\ owner' \in [1..p -> Account] /\ maker' \in [1..p -> Key \cup {NoKey}]
              /\ p \in 0..MaxProjects
<1> DEFINE n == Cardinality(DOMAIN owner)
           p == n + 1
<1>1. /\ n \in 0..MaxProjects /\ owner \in [1..n -> Account] /\ maker \in [1..n -> Key \cup {NoKey}]
      /\ DOMAIN owner = 1..n /\ DOMAIN maker = 1..n
  BY NumberOfProjects
<1>2. /\ p \in Project
      /\ owner' = [q \in 1..p |-> IF q = p THEN a ELSE owner[q]]
      /\ maker' = [q \in 1..p |-> IF q = p THEN k ELSE maker[q]]
  BY DEF NewProject
<1>3. n \in Nat /\ p = n + 1 /\ MaxProjects \in Nat /\ p = Cardinality(DOMAIN owner) + 1
  BY <1>1, Constants
<1> HIDE DEF n, p
<1>4. 1..p = 1..n \cup {p} /\ p \in 1..p /\ p \notin 1..n
  BY <1>3
<1>5. p \in 0..MaxProjects
  BY <1>2, Constants DEF Project
<1>6. \A q \in 1..p : q # p => q \in 1..n
  BY <1>4
<1>7. /\ DOMAIN owner' = 1..p /\ DOMAIN maker' = 1..p
      /\ owner'[p] = a /\ maker'[p] = k
      /\ \A q \in 1..n : owner'[q] = owner[q] /\ maker'[q] = maker[q]
  BY <1>2, <1>4
<1>8. owner' \in [1..p -> Account]
  BY <1>1, <1>2, <1>6
<1>9. maker' \in [1..p -> Key \cup {NoKey}]
  BY <1>1, <1>2, <1>6
<1> QED
  BY <1>1, <1>2, <1>3, <1>4, <1>5, <1>7, <1>8, <1>9

\* Who gets a project by a key it is the first of, or by no key, keeps the world in order.
LEMMA WorldGrows ==
    ASSUME World, NEW a \in Account, NEW k \in Key \cup {NoKey}, NewProject(a, k),
           UNCHANGED sessions,
           k # NoKey /\ k[1] \notin crossed => a = k[2] /\ \A q \in DOMAIN maker : maker[q] # k
    PROVE  World'
<1>1. PICK p \in Project :
              /\ p = Cardinality(DOMAIN owner) + 1 /\ p \notin DOMAIN owner
              /\ DOMAIN owner' = DOMAIN owner \cup {p} /\ DOMAIN maker' = DOMAIN owner'
              /\ DOMAIN maker = DOMAIN owner
              /\ owner'[p] = a /\ maker'[p] = k
              /\ \A q \in DOMAIN owner : owner'[q] = owner[q] /\ maker'[q] = maker[q]
              /\ owner' \in [1..p -> Account] /\ maker' \in [1..p -> Key \cup {NoKey}]
              /\ p \in 0..MaxProjects
  BY ProjectAdded
<1>2. MakerInv'
  BY <1>1 DEF World, MakerInv, sessions
<1> QED
  BY <1>1, <1>2 DEF World, LiveInv, sessions

\* ... and the other dispatches, unless one is about to create a project for the same key.
LEMMA GoodGrows ==
    ASSUME World, NEW a \in Account, NEW k \in Key \cup {NoKey}, NewProject(a, k),
           UNCHANGED sessions, NEW t, Good(t), t.phase = "creating" => k # t.key
    PROVE  Good(t)'
<1>1. PICK p \in Project :
              /\ p = Cardinality(DOMAIN owner) + 1 /\ p \notin DOMAIN owner
              /\ DOMAIN owner' = DOMAIN owner \cup {p} /\ DOMAIN maker' = DOMAIN owner'
              /\ DOMAIN maker = DOMAIN owner
              /\ owner'[p] = a /\ maker'[p] = k
              /\ \A q \in DOMAIN owner : owner'[q] = owner[q] /\ maker'[q] = maker[q]
              /\ owner' \in [1..p -> Account] /\ maker' \in [1..p -> Key \cup {NoKey}]
              /\ p \in 0..MaxProjects
  BY ProjectAdded
<1>2. t \in Task /\ (Busy(t) => Chosen(t)) /\ Collected(t) /\ Answered(t)
  BY DEF Good
<1>3. Busy(t) => Chosen(t)'
  BY <1>2 DEF Chosen, Session, sessions
<1>4. Collected(t)'
  BY <1>1, <1>2 DEF Collected
<1>5. Answered(t)'
  BY <1>1, <1>2 DEF Answered, Collected, Session, Early, sessions
<1> QED
  BY <1>2, <1>3, <1>4, <1>5 DEF Good, Busy

\* The newest of some projects is one of them.
LEMMA NewestAmong ==
    ASSUME NEW n \in Nat, NEW S \in SUBSET (1..n), S # {}
    PROVE  Newest(S) \in S
<1> DEFINE U == {u \in 0..n : \A x \in S : x <= u}
           T == {1..u : u \in U}
           N == 1..n
<1>1. n \in U
  OBVIOUS
<1>2. PICK u \in U : \A v \in U : u <= v
  <2>1. IsFiniteSet(N)
    BY FS_Interval
  <2>2. T \subseteq FiniteSubsetsOf(N) /\ T # {}
    <3>1. ASSUME NEW v \in U
          PROVE  1..v \in FiniteSubsetsOf(N)
      <4>1. 1..v \subseteq N
        OBVIOUS
      <4> QED
        BY <4>1, <2>1, FS_Subset DEF FiniteSubsetsOf
    <3> QED
      BY <3>1, <1>1
  <2> DEFINE A == FiniteSubsetsOf(N)
             R == StrictSubsetOrdering(N)
  <2>3. IsWellFoundedOn(R, A)
    BY FS_StrictSubsetOrderingWellFounded
  <2>4. PICK t \in T : \A s \in T : ~(<<s, t>> \in R)
    <3> HIDE DEF A, R, T, N
    <3> QED
      BY <2>2, <2>3, WFMin DEF A
  <2>5. PICK u \in U : t = 1..u
    OBVIOUS
  <2>6. ASSUME NEW v \in U, v < u
        PROVE  FALSE
    <3>1. 1..v \subseteq 1..u /\ 1..v # 1..u /\ 1..u \subseteq N
      BY <2>6
    <3>2. 1..v \in T /\ <<1..v, t>> \in R
      BY <3>1, <2>5 DEF StrictSubsetOrdering
    <3> QED
      BY <2>4, <3>2
  <2>7. \A v \in U : v \in Int
    OBVIOUS
  <2> HIDE DEF U
  <2> QED
    BY <2>6, <2>7
<1>3. u \in S
  <2> SUFFICES ASSUME u \notin S
               PROVE  FALSE
    OBVIOUS
  <2>1. u \in 0..n /\ \A x \in S : x <= u
    OBVIOUS
  <2>2. \A x \in S : x \in 1..n /\ x <= u - 1
    BY <2>1
  <2>3. u - 1 \in 0..n
    <3>1. PICK x \in S : x \in 1..n
      OBVIOUS
    <3> QED
      BY <2>1, <2>2, <3>1
  <2>4. u - 1 \in U
    BY <2>2, <2>3
  <2> QED
    BY <1>2, <2>1, <2>4
<1>4. \E x \in S : \A y \in S : y <= x
  BY <1>3
<1> QED
  BY <1>4 DEF Newest

-----------------------------------------------------------------------------
(* The actions of a dispatch that leave the tables alone.                  *)

\* Who starts an upload has seen that it is needed: UploadedOnce, for one step.
Uploads ==
    \A j \in Job :
        /\ Holds(task'[j]) /\ ~Holds(task[j]) =>
             \A i \in Job \ {j} : Holds(task'[i]) => ~SameSlot(task'[i], task'[j])
        /\ task'[j].phase = "uploading" /\ task[j].phase # "uploading" =>
             Rows(task'[j].at, task'[j].project, Bytes[task'[j].slot]) = {}

LEMMA NoUpload ==
    ASSUME task \in [Job -> Task], NEW j \in Job, NEW t, Goes(j, t), ~Holds(t)
    PROVE  Uploads
<1>1. \A i \in Job : task'[i] = IF i = j THEN t ELSE task[i]
  BY DEF Goes
<1> QED
  BY <1>1 DEF Uploads, Holds

LEMMA OnlyTask ==
    ASSUME IInv, NEW j \in Job, NEW t, Goes(j, t), Good(t), UNCHANGED <<sessions, flow, tables>>,
           ~Holds(t),
           t.phase \in Looking =>
             \/ task[j].phase \in Looking /\ task[j].key = t.key
             \/ \A i \in Job \ {j} : task[i].phase \in Looking => task[i].key # t.key
    PROVE  IInv' /\ Uploads
<1>1. World' /\ Tasks'
  BY TaskOnly
<1>2. Tables'
  <2>1. crossed' = crossed
    BY DEF sessions
  <2> QED
    BY <2>1, TablesKept DEF IInv
<1>3. Uploads
  BY NoUpload DEF IInv, Tasks
<1> QED
  BY <1>1, <1>2, <1>3 DEF IInv

LEMMA EndsStep ==
    ASSUME IInv, NEW j \in Job, Ends(j), UNCHANGED <<sessions, flow, tables>>
    PROVE  IInv' /\ Uploads
<1> DEFINE t == Rest("done")
<1>1. Goes(j, t) /\ Good(t) /\ t.phase = "done"
  BY DoneGood DEF Ends
<1> HIDE DEF t
<1>2. t.phase \notin Looking /\ ~Holds(t)
  BY <1>1 DEF Looking, Holds
<1> QED
  BY <1>1, <1>2, OnlyTask

\* What a client submits waits to be dispatched.
LEMMA SubmitsStep ==
    ASSUME IInv, NEW j \in Job, Submits(j)
    PROVE  IInv' /\ Uploads
<1> DEFINE q == Rest("queued")
<1>1. /\ q \in Task /\ q.phase = "queued" /\ q.ids = {} /\ q.found = {}
      /\ MaxProjects \in Nat
  <2>1. "queued" \in Phase
    BY DEF Phase
  <2> QED
    BY <2>1, RestTask, Constants
<1>2. /\ route \in [Project -> Key \cup {NoKey}] /\ media \subseteq Row
      /\ \A r \in media : r.project \in Project /\ r.key \in Key /\ r.id \in Id
      /\ Project \subseteq 0..MaxProjects /\ 0 \in 0..MaxProjects
      /\ \A refs \in Known : refs \in SUBSET Id
  BY Constants DEF IInv, Tables, MediaInv, Row, Project, Known
<1>3. SUFFICES ASSUME NEW t \in Task, t.phase = "queued", t.ids = {}, t.found = {}, Submit(j, t)
               PROVE  IInv' /\ Uploads
  <2> HIDE DEF q
  <2>1. CASE \E p \in Project, refs \in Known, inline \in SUBSET Image :
                SubmitExplicit(j, p, refs, inline)
    <3>1. PICK p \in Project, refs \in Known, inline \in SUBSET Image :
                SubmitExplicit(j, p, refs, inline)
      BY <2>1
    <3> DEFINE a == route[p]
               u == [q EXCEPT !.locked = TRUE, !.asked = p, !.target = a, !.refs = refs,
                              !.todo = inline]
    <3>2. a \in Key \cup {NoKey} /\ p \in 0..MaxProjects /\ refs \in SUBSET Id
      BY <1>2
    <3>3. Submit(j, u)
      BY <3>1 DEF SubmitExplicit, q
    <3> HIDE DEF a
    <3>4. u \in Task /\ u.phase = "queued" /\ u.ids = {} /\ u.found = {}
      BY <1>1, <3>2 DEF Task
    <3> QED
      BY <1>3, <3>3, <3>4
  <2>2. CASE \E r \in media : SubmitInferred(j, r)
    <3>1. PICK r \in media : SubmitInferred(j, r)
      BY <2>2
    <3> DEFINE a == r.key
               p == r.project
               refs == {r.id}
               u == [q EXCEPT !.asked = p, !.target = a, !.refs = refs]
    <3>2. a \in Key \cup {NoKey} /\ p \in 0..MaxProjects /\ refs \in SUBSET Id
      BY <1>2
    <3>3. Submit(j, u)
      BY <3>1 DEF SubmitInferred, q
    <3> HIDE DEF a, p, refs
    <3>4. u \in Task /\ u.phase = "queued" /\ u.ids = {} /\ u.found = {}
      BY <1>1, <3>2 DEF Task
    <3> QED
      BY <1>3, <3>3, <3>4
  <2>3. CASE \E refs \in Known, inline \in SUBSET Image : SubmitManaged(j, refs, inline)
    <3>1. PICK refs \in Known, inline \in SUBSET Image : SubmitManaged(j, refs, inline)
      BY <2>3
    <3> DEFINE u == [q EXCEPT !.refs = refs, !.todo = inline]
    <3>2. refs \in SUBSET Id
      BY <1>2
    <3>3. Submit(j, u)
      BY <3>1 DEF SubmitManaged, q
    <3>4. u \in Task /\ u.phase = "queued" /\ u.ids = {} /\ u.found = {}
      BY <1>1, <3>2 DEF Task
    <3> QED
      BY <1>3, <3>3, <3>4
  <2>4. CASE \E p \in 0..MaxProjects, i \in Image : SubmitUpload(j, p, i)
    <3>1. PICK p \in 0..MaxProjects, i \in Image : SubmitUpload(j, p, i)
      BY <2>4
    <3> DEFINE a == IF p = 0 THEN NoKey ELSE route[p]
               todo == {i}
               u == [q EXCEPT !.upload = TRUE, !.locked = TRUE, !.asked = p, !.target = a,
                              !.todo = todo]
    <3>2. a \in Key \cup {NoKey} /\ todo \in SUBSET Image
      <4>1. p # 0 => p \in Project
        BY <1>1 DEF Project
      <4> QED
        BY <1>2, <4>1
    <3>3. Submit(j, u)
      BY <3>1 DEF SubmitUpload, q
    <3> HIDE DEF a, todo
    <3>4. u \in Task /\ u.phase = "queued" /\ u.ids = {} /\ u.found = {}
      BY <1>1, <3>2 DEF Task
    <3> QED
      BY <1>3, <3>3, <3>4
  <2> QED
    BY <2>1, <2>2, <2>3, <2>4 DEF Submits
<1>4. Good(t) /\ t.phase \notin Looking /\ ~Holds(t)
  BY <1>3, QueuedGood DEF Looking, Holds
<1> QED
  BY <1>3, <1>4, OnlyTask DEF Submit

\* The media of a key, project and digest are of the project.
LEMMA RowsInProject ==
    ASSUME Tables, NEW k, NEW p, NEW d
    PROVE  /\ {r.id : r \in Rows(k, p, d)} \in SUBSET Id
           /\ \A m \in {r.id : r \in Rows(k, p, d)} : m.project = p
<1>1. \A r \in media : r.id \in Id /\ r.id.project = r.project
  BY DEF Tables, MediaInv, Row
<1> QED
  BY <1>1 DEF Rows

LEMMA LookUpStep ==
    ASSUME IInv, NEW j \in Job, LookUp(j)
    PROVE  IInv' /\ Uploads
<1> DEFINE s == task[j]
           m == Managed(s)
<1>1. Good(s) /\ s.phase = "lockwait" /\ World /\ Tables
  BY DEF LookUp, IInv, Tasks, TaskInv
<1>2. /\ Goes(j, IF m.phase = "lockwait" THEN [m EXCEPT !.phase = "listing"] ELSE m)
      /\ \A i \in Job \ {j} : task[i].phase \in Looking => task[i].key # s.key
      /\ UNCHANGED <<sessions, flow, tables>>
  BY DEF LookUp, ProjectLockFree, Looking
<1>3. s \in Task /\ Chosen(s) /\ s.ids = {} /\ s.found = {}
  BY <1>1 DEF Good, Busy, Collected, Early
<1>4. /\ Good(m) /\ m.phase \in {"prepare", "lockwait"} /\ m.key = s.key
      /\ m.ids = {} /\ m.found = {}
  BY <1>1, <1>3, ManagedGood
<1> HIDE DEF s, m
<1>5. CASE m.phase # "lockwait"
  <2>1. Goes(j, m) /\ m.phase \notin Looking /\ ~Holds(m)
    BY <1>2, <1>4, <1>5 DEF Looking, Holds
  <2> QED
    BY <1>2, <1>4, <2>1, OnlyTask
<1>6. CASE m.phase = "lockwait"
  <2> DEFINE u == [m EXCEPT !.phase = "listing"]
  <2>1. Goes(j, u)
    BY <1>2, <1>6
  <2>2. /\ u \in Task /\ u.phase = "listing" /\ u.obj = m.obj /\ u.key = m.key
        /\ u.ids = {} /\ u.found = {}
    BY <1>4 DEF Good, Task, Phase
  <2> HIDE DEF u
  <2>3. Chosen(u)
    BY <1>4, <1>6, <2>2 DEF Good, Busy, Chosen, Session
  <2>4. Collected(u) /\ Answered(u)
    BY <2>2 DEF Collected, Answered, Early, Preparing, Fetching
  <2>5. Good(u) /\ ~Holds(u)
    BY <2>2, <2>3, <2>4 DEF Good, Holds
  <2> QED
    BY <1>2, <1>4, <2>1, <2>2, <2>5, OnlyTask
<1> QED
  BY <1>5, <1>6

LEMMA WantStep ==
    ASSUME IInv, NEW j \in Job, Want(j)
    PROVE  IInv' /\ Uploads
<1> DEFINE t == task[j]
<1>1. Good(t) /\ t.phase = "prepare" /\ Tables
  BY DEF Want, IInv, Tasks, TaskInv
<1>2. PICK d \in t.todo :
         LET hit == Rows(t.at, t.project, d)
         IN  Goes(j, IF hit = {} \/ t.upload
                     THEN [t EXCEPT !.phase = "waiting", !.slot = d]
                     ELSE [t EXCEPT !.todo = @ \ {d}, !.cached = @ \cup {d},
                                    !.ids = @ \cup {r.id : r \in hit}])
  BY DEF Want
<1>3. UNCHANGED <<sessions, flow, tables>>
  BY DEF Want
<1> HIDE DEF t
<1>4. /\ t \in Task /\ Chosen(t) /\ d \in Image /\ d \in Digest /\ t.found = {}
      /\ t.at \in Key /\ t.project \in DOMAIN owner /\ \A m \in t.ids : m.project = t.project
  <2>1. t.todo \subseteq Image
    BY <1>1 DEF Good, Task
  <2> QED
    BY <1>1, <2>1, Constants DEF Good, Busy, Collected, Preparing, Early
<1> DEFINE hit == Rows(t.at, t.project, d)
<1>5. CASE hit = {} \/ t.upload
  <2> DEFINE u == [t EXCEPT !.phase = "waiting", !.slot = d]
  <2>1. Goes(j, u)
    BY <1>2, <1>5
  <2>2. /\ u \in Task /\ u.phase = "waiting" /\ u.obj = t.obj /\ u.key = t.key /\ u.slot = d
        /\ u.ids = t.ids /\ u.found = t.found /\ u.project = t.project /\ u.at = t.at
    BY <1>4 DEF Task, Phase
  <2> HIDE DEF u, hit
  <2>3. Chosen(u)
    BY <1>4, <2>2 DEF Chosen, Session
  <2>4. Collected(u) /\ Answered(u)
    BY <1>4, <2>2 DEF Collected, Answered, Early, Preparing, Fetching
  <2>5. Good(u) /\ ~Holds(u) /\ u.phase \notin Looking
    BY <2>2, <2>3, <2>4 DEF Good, Holds, Looking
  <2> QED
    BY <1>3, <2>1, <2>5, OnlyTask
<1>6. CASE ~(hit = {} \/ t.upload)
  <2> DEFINE ms == {r.id : r \in hit}
             todo == t.todo \ {d}
             cached == t.cached \cup {d}
             ids == t.ids \cup ms
             u == [t EXCEPT !.todo = todo, !.cached = cached, !.ids = ids]
  <2>1. Goes(j, u)
    BY <1>2, <1>6
  <2>2. ms \in SUBSET Id /\ \A m \in ms : m.project = t.project
    BY <1>1, RowsInProject
  <2> HIDE DEF ms
  <2>3. todo \in SUBSET Image /\ cached \in SUBSET Image /\ ids \in SUBSET Id
    BY <1>4, <2>2 DEF Task
  <2>4. \A m \in ids : m.project = t.project
    BY <1>4, <2>2
  <2> HIDE DEF todo, cached, ids
  <2>5. /\ u \in Task /\ u.phase = t.phase /\ u.obj = t.obj /\ u.key = t.key
        /\ u.ids = ids /\ u.found = t.found /\ u.project = t.project /\ u.at = t.at
    BY <1>4, <2>3 DEF Task
  <2> HIDE DEF u, hit
  <2>6. Chosen(u)
    BY <1>4, <2>5 DEF Chosen, Session
  <2>7. Collected(u) /\ Answered(u)
    BY <1>1, <1>4, <2>4, <2>5 DEF Collected, Answered, Early, Preparing, Fetching
  <2>8. Good(u) /\ ~Holds(u) /\ u.phase \notin Looking
    BY <1>1, <2>5, <2>6, <2>7 DEF Good, Holds, Looking
  <2> QED
    BY <1>3, <2>1, <2>8, OnlyTask
<1> QED
  BY <1>5, <1>6

LEMMA StartMovesStep ==
    ASSUME IInv, NEW j \in Job, StartMoves(j)
    PROVE  IInv' /\ Uploads
<1> DEFINE t == task[j]
           k == KeyOf(t.obj)
<1>1. Good(t) /\ t.phase = "prepare" /\ World /\ Tables
  BY DEF StartMoves, IInv, Tasks, TaskInv
<1>2. PICK rs \in Picks(t.ids \cup t.refs) :
         LET moves == {r \in rs : Foreign(r, t, k)}
         IN  Goes(j, Sends([t EXCEPT !.phase = "moving", !.at = k, !.moves = moves,
                                     !.refs = Strange(t.ids \cup t.refs),
                                     !.ids = {r.id : r \in rs \ moves}]))
  BY DEF StartMoves
<1>3. UNCHANGED <<sessions, flow, tables>>
  BY DEF StartMoves
<1>4. rs \subseteq media
  BY DEF Picks
<1> HIDE DEF t
<1>5. /\ t \in Task /\ Chosen(t) /\ t.obj \in Object /\ t.found = {} /\ t.project \in DOMAIN owner
  BY <1>1 DEF Good, Busy, Chosen, Collected, Preparing, Early
<1>6. k \in Key
  BY <1>1, <1>5, KeyOfType
<1> DEFINE moves == {r \in rs : Foreign(r, t, k)}
           ids == {r.id : r \in rs \ moves}
           refs == Strange(t.ids \cup t.refs)
           u == [t EXCEPT !.phase = "moving", !.at = k, !.moves = moves, !.refs = refs, !.ids = ids]
<1>7. Goes(j, Sends(u))
  BY <1>2
<1>8. moves \in SUBSET Row
  BY <1>1, <1>4 DEF Tables, MediaInv
<1>9. ids \in SUBSET Id /\ \A m \in ids : m.project = t.project
  <2>1. \A r \in rs : r.id \in Id /\ r.id.project = r.project
    BY <1>1, <1>4 DEF Tables, MediaInv, Row
  <2>2. \A r \in rs \ moves : r.project = t.project
    BY DEF Foreign
  <2> QED
    BY <2>1, <2>2
<1>15. refs \in SUBSET Id
  BY <1>5 DEF Strange, Task
<1> HIDE DEF moves, ids, refs, k
<1>10. /\ u \in Task /\ u.phase = "moving" /\ u.obj = t.obj /\ u.key = t.key /\ u.at = k
       /\ u.ids = ids /\ u.found = t.found /\ u.project = t.project
  BY <1>5, <1>6, <1>8, <1>9, <1>15 DEF Task, Phase
<1> HIDE DEF u
<1>11. Chosen(u)
  BY <1>5, <1>10 DEF Chosen, Session
<1>12. Collected(u) /\ Answered(u)
  BY <1>5, <1>6, <1>9, <1>10 DEF Collected, Answered, Early, Preparing, Fetching
<1>13. Good(Sends(u)) /\ Sends(u).phase \in {"moving", "calling"}
  <2>1. Good(u)
    BY <1>10, <1>11, <1>12 DEF Good
  <2> QED
    BY <1>10, <2>1, SendsGood
<1>14. ~Holds(Sends(u)) /\ Sends(u).phase \notin Looking
  BY <1>13 DEF Holds, Looking
<1> QED
  BY <1>3, <1>7, <1>13, <1>14, OnlyTask

LEMMA NextMoveStep ==
    ASSUME IInv, NEW j \in Job, NextMove(j)
    PROVE  IInv' /\ Uploads
<1> DEFINE t == task[j]
<1>1. Good(t) /\ t.phase = "moving"
  BY DEF NextMove, IInv, Tasks, TaskInv
<1>2. PICK r \in t.moves : Goes(j, [t EXCEPT !.phase = "waiting", !.from = r, !.slot = r.digest])
  BY DEF NextMove
<1>3. UNCHANGED <<sessions, flow, tables>>
  BY DEF NextMove
<1> HIDE DEF t
<1>4. /\ t \in Task /\ Chosen(t) /\ t.found = {} /\ t.project \in DOMAIN owner /\ t.at \in Key
      /\ \A m \in t.ids : m.project = t.project
  BY <1>1 DEF Good, Busy, Collected, Preparing, Early
<1>5. r \in Row /\ r.digest \in Digest /\ r # NoRow
  <2>1. t.moves \subseteq Row
    BY <1>4 DEF Task
  <2> QED
    BY <2>1, Constants DEF Row
<1> DEFINE d == r.digest
           u == [t EXCEPT !.phase = "waiting", !.from = r, !.slot = d]
<1>6. d \in Digest /\ Goes(j, u)
  BY <1>2, <1>5
<1> HIDE DEF d
<1>7. /\ u \in Task /\ u.phase = "waiting" /\ u.obj = t.obj /\ u.key = t.key /\ u.at = t.at
      /\ u.slot = d /\ u.from = r /\ u.ids = t.ids /\ u.found = t.found /\ u.project = t.project
  BY <1>4, <1>5, <1>6 DEF Task, Phase
<1> HIDE DEF u
<1>8. Chosen(u)
  BY <1>4, <1>7 DEF Chosen, Session
<1>9. Collected(u) /\ Answered(u)
  BY <1>4, <1>5, <1>6, <1>7 DEF Collected, Answered, Early, Preparing, Fetching
<1>10. Good(u) /\ ~Holds(u) /\ u.phase \notin Looking
  BY <1>7, <1>8, <1>9 DEF Good, Holds, Looking
<1> QED
  BY <1>3, <1>6, <1>10, OnlyTask

\* A hit in the cache of the project answers for the media that is wanted.
LEMMA HitGood ==
    ASSUME Tables, NEW t, Good(t), t.phase \in Fetching, NEW k, NEW d
    PROVE  LET ms == {r.id : r \in Rows(k, t.project, d)}
           IN  /\ ms \in SUBSET Id
               /\ Good(Proceed(Resolved(t, ms)))
               /\ Proceed(Resolved(t, ms)).phase \in {"done", "prepare", "moving", "calling"}
<1> DEFINE ms == {r.id : r \in Rows(k, t.project, d)}
<1>1. ms \in SUBSET Id /\ \A m \in ms : m.project = t.project
  BY RowsInProject
<1>2. t \in Task
  BY DEF Good
<1> HIDE DEF ms
<1> DEFINE u == Resolved(t, ms)
<1>3. /\ u \in Task /\ u.phase \in {"done", "prepare", "moving"} /\ u.obj = t.obj
      /\ u.key = t.key /\ u.project = t.project /\ u.at = t.at /\ u.found = t.found
      /\ u.ids = t.ids \cup ms
  BY <1>1, <1>2, ResolvedFields
<1> HIDE DEF u
<1>4. Good(Proceed(u)) /\ Proceed(u).phase \in {"done", "prepare", "moving", "calling"}
  BY <1>1, <1>3, ProceedGood
<1> QED
  BY <1>1, <1>4 DEF ms, u

LEMMA UnderLockStep ==
    ASSUME IInv, NEW j \in Job, UnderLock(j)
    PROVE  IInv' /\ Uploads
<1> DEFINE t == task[j]
           hit == ReadAgain(t)
<1>1. Good(t) /\ t.phase = "waiting" /\ t.phase \in Fetching /\ Tables
  BY DEF UnderLock, IInv, Tasks, TaskInv, Fetching
<1>2. UNCHANGED <<sessions, flow, tables>> /\ MediaLockFree(j)
  BY DEF UnderLock
<1>3. CASE hit # {}
  <2> DEFINE ms == {r.id : r \in hit}
             w == Resolved(t, ms)
             cached == IF t.from = NoRow THEN w.cached \cup {t.slot} ELSE w.cached
             u == [w EXCEPT !.cached = cached]
  <2>1. Goes(j, Proceed(u))
    BY <1>3 DEF UnderLock
  <2>2. ms \in SUBSET Id /\ \A m \in ms : m.project = t.project
    BY <1>1, RowsInProject DEF ReadAgain
  <2> HIDE DEF t, ms
  <2>3. /\ w \in Task /\ w.phase \in {"done", "prepare", "moving"} /\ w.obj = t.obj
        /\ w.key = t.key /\ w.project = t.project /\ w.at = t.at /\ w.found = t.found
        /\ w.ids = t.ids \cup ms /\ w.cached = t.cached
    BY <1>1, <2>2, ResolvedFields DEF Good
  <2>4. cached \in SUBSET Image
    BY <1>1, <2>3 DEF Good, Collected, Fetching, Task
  <2> HIDE DEF w, cached
  <2>5. /\ u \in Task /\ u.phase = w.phase /\ u.obj = t.obj /\ u.key = t.key
        /\ u.project = t.project /\ u.at = t.at /\ u.found = t.found
        /\ u.ids = t.ids \cup ms
    BY <2>3, <2>4 DEF Task
  <2> HIDE DEF u
  <2>6. Good(Proceed(u)) /\ Proceed(u).phase \in {"done", "prepare", "moving", "calling"}
    <3>1. u.phase \in {"done", "prepare", "moving"}
      BY <2>3, <2>5
    <3> QED
      BY <1>1, <2>2, <2>5, <3>1, ProceedGood
  <2>7. ~Holds(Proceed(u)) /\ Proceed(u).phase \notin Looking
    BY <2>6 DEF Holds, Looking
  <2> QED
    BY <1>2, <2>1, <2>6, <2>7, OnlyTask
<1>4. CASE hit = {}
  <2>1. PICK phase \in {"uploading", "downloading"} :
               Goes(j, [t EXCEPT !.phase = phase]) /\ (phase = "uploading" => t.slot \in Image)
    BY <1>4 DEF UnderLock
  <2> DEFINE u == [t EXCEPT !.phase = phase]
  <2>2. /\ t \in Task /\ Chosen(t) /\ t.found = {} /\ t.project \in DOMAIN owner /\ t.at \in Key
        /\ \A m \in t.ids : m.project = t.project
        /\ t.slot \in Digest /\ (t.from = NoRow => t.slot \in Image)
    BY <1>1 DEF Good, Busy, Collected, Preparing, Early, Fetching
  <2>3. phase = "uploading" => Rows(t.at, t.project, Bytes[t.slot]) = {}
    BY <1>4, <2>1, RoutingAssumption DEF ReadAgain
  <2>4. Goes(j, u)
    BY <2>1
  <2>5. \A i \in Job \ {j} : Holds(task[i]) => ~SameSlot(task[i], t)
    BY <1>2 DEF MediaLockFree
  <2> HIDE DEF t
  <2>6. /\ u \in Task /\ u.phase = phase /\ u.obj = t.obj /\ u.key = t.key /\ u.at = t.at
        /\ u.slot = t.slot /\ u.from = t.from /\ u.ids = t.ids /\ u.found = t.found
        /\ u.project = t.project
    BY <2>1, <2>2 DEF Task, Phase
  <2> HIDE DEF u
  <2>7. Chosen(u)
    BY <2>2, <2>6 DEF Chosen, Session
  <2>8. Collected(u) /\ Answered(u)
    BY <2>1, <2>2, <2>6 DEF Collected, Answered, Early, Preparing, Fetching
  <2>9. Good(u) /\ u.phase \notin Looking
    BY <2>1, <2>6, <2>7, <2>8 DEF Good, Looking
  <2>10. World' /\ Tasks'
    BY <1>2, <2>4, <2>9, TaskOnly
  <2>11. Tables'
    <3>1. crossed' = crossed
      BY <1>2 DEF sessions
    <3> QED
      BY <1>2, <3>1, TablesKept DEF IInv
  <2>12. Uploads
    <3>1. \A i \in Job : task'[i] = IF i = j THEN u ELSE task[i]
      BY <2>4 DEF Goes, IInv, Tasks
    <3> QED
      BY <2>3, <2>5, <2>6, <3>1 DEF Uploads, SameSlot, Holds
  <2> QED
    BY <2>10, <2>11, <2>12 DEF IInv
<1> QED
  BY <1>3, <1>4

LEMMA DownloadAnswersStep ==
    ASSUME IInv, NEW j \in Job, DownloadAnswers(j)
    PROVE  IInv' /\ Uploads
<1> DEFINE t == task[j]
           hit == Rows(t.at, t.project, Bytes[t.slot])
           ms == {r.id : r \in hit}
<1>1. Good(t) /\ t.phase = "downloading" /\ t.phase \in Fetching /\ Holds(t) /\ Tables
  BY DEF DownloadAnswers, IInv, Tasks, TaskInv, Fetching, Holds
<1>2. UNCHANGED <<sessions, flow, tables>>
  BY DEF DownloadAnswers
<1>3. CASE hit # {}
  <2> DEFINE u == Proceed(Resolved(t, ms))
  <2>1. Goes(j, u)
    BY <1>3 DEF DownloadAnswers
  <2>2. Good(u) /\ u.phase \in {"done", "prepare", "moving", "calling"}
    BY <1>1, HitGood
  <2> HIDE DEF u
  <2>3. u.phase \notin Looking /\ ~Holds(u)
    BY <2>2 DEF Looking, Holds
  <2> QED
    BY <1>1, <1>2, <2>1, <2>2, <2>3, OnlyTask
<1>4. CASE hit = {}
  <2> DEFINE u == [t EXCEPT !.phase = "uploading"]
  <2>1. Goes(j, u)
    BY <1>4 DEF DownloadAnswers
  <2>2. /\ t \in Task /\ Chosen(t) /\ t.found = {} /\ t.project \in DOMAIN owner /\ t.at \in Key
        /\ \A m \in t.ids : m.project = t.project
        /\ t.slot \in Digest /\ (t.from = NoRow => t.slot \in Image)
    BY <1>1 DEF Good, Busy, Collected, Preparing, Early, Fetching
  <2>3. /\ u \in Task /\ u.phase = "uploading" /\ u.obj = t.obj /\ u.key = t.key /\ u.at = t.at
        /\ u.slot = t.slot /\ u.from = t.from /\ u.ids = t.ids /\ u.found = t.found
        /\ u.project = t.project
    BY <2>2 DEF Task, Phase
  <2> HIDE DEF u
  <2>4. Chosen(u)
    BY <2>2, <2>3 DEF Chosen, Session
  <2>5. Collected(u) /\ Answered(u)
    BY <2>2, <2>3 DEF Collected, Answered, Early, Preparing, Fetching
  <2>6. Good(u) /\ u.phase \notin Looking
    BY <2>3, <2>4, <2>5 DEF Good, Looking
  <2>7. World' /\ Tasks'
    BY <1>2, <2>1, <2>6, TaskOnly
  <2>8. Tables'
    <3>1. crossed' = crossed
      BY <1>2 DEF sessions
    <3> QED
      BY <1>2, <3>1, TablesKept DEF IInv
  <2>9. Uploads
    <3>1. \A i \in Job : task'[i] = IF i = j THEN u ELSE task[i]
      BY <2>1 DEF Goes, IInv, Tasks
    <3>2. Holds(task[j]) /\ Rows(t.at, t.project, Bytes[t.slot]) = {}
      BY <1>1, <1>4
    <3> QED
      BY <2>3, <3>1, <3>2 DEF Uploads
  <2> QED
    BY <2>7, <2>8, <2>9 DEF IInv
<1> QED
  BY <1>3, <1>4

LEMMA FlowAcceptsStep ==
    ASSUME IInv, NEW j \in Job, FlowAccepts(j)
    PROVE  IInv' /\ Uploads
<1> DEFINE t == task[j]
           u == [t EXCEPT !.phase = "accepted"]
<1>1. /\ Good(t) /\ t.phase = "calling" /\ Goes(j, u) /\ owner[t.project] = Session(t)
      /\ UNCHANGED <<sessions, flow, tables>>
  BY DEF FlowAccepts, IInv, Tasks, TaskInv
<1>2. /\ t \in Task /\ Chosen(t) /\ t.found = {} /\ t.project \in DOMAIN owner
      /\ \A m \in t.ids : m.project = t.project
  BY <1>1 DEF Good, Busy, Collected, Early
<1>3. /\ u \in Task /\ u.phase = "accepted" /\ u.obj = t.obj /\ u.key = t.key
      /\ u.ids = t.ids /\ u.found = t.found /\ u.project = t.project
  BY <1>2 DEF Task, Phase
<1> HIDE DEF u
<1>4. Chosen(u)
  BY <1>2, <1>3 DEF Chosen, Session
<1>5. Collected(u) /\ Answered(u)
  BY <1>1, <1>2, <1>3 DEF Collected, Answered, Session, Early, Preparing, Fetching
<1>6. Good(u) /\ u.phase \notin Looking /\ ~Holds(u)
  BY <1>3, <1>4, <1>5 DEF Good, Looking, Holds
<1> QED
  BY <1>1, <1>6, OnlyTask

-----------------------------------------------------------------------------
(* The actions of a dispatch that change the tables.                       *)

LEMMA TaskAndTables ==
    ASSUME IInv, NEW j \in Job, NEW t, Goes(j, t), Good(t), UNCHANGED <<sessions, flow>>, Tables',
           ~Holds(t),
           t.phase \in Looking => task[j].phase \in Looking /\ task[j].key = t.key
    PROVE  IInv' /\ Uploads
<1>1. World' /\ Tasks'
  BY TaskOnly
<1>2. Uploads
  BY NoUpload DEF IInv, Tasks
<1> QED
  BY <1>1, <1>2 DEF IInv

LEMMA ListPageStep ==
    ASSUME IInv, NEW j \in Job, NEW shown \in SUBSET Project, ListPage(j, shown)
    PROVE  IInv' /\ Uploads
<1> DEFINE t == task[j]
           found == t.found \cup shown
           pages == t.pages + 1
           u == [t EXCEPT !.found = found, !.pages = pages]
<1>1. Good(t) /\ t.phase = "listing" /\ World /\ Tables
  BY DEF ListPage, IInv, Tasks, TaskInv
<1>2. /\ pages < MaxPages /\ shown \subseteq Owned(Session(t)) /\ Remember(shown, t.key)
      /\ Goes(j, u) /\ UNCHANGED <<sessions, flow, stored, synced, media>>
  BY DEF ListPage
<1> HIDE DEF t
<1>3. /\ t \in Task /\ Chosen(t) /\ t.key \in Key /\ t.ids = {} /\ t.found \subseteq DOMAIN owner
      /\ t.obj[1] \notin crossed =>
           /\ t.key[2] = Session(t)
           /\ \A p \in t.found : owner[p] = Session(t)
      /\ t.key[1] = t.obj[1]
  BY <1>1 DEF Good, Busy, Chosen, Collected, Answered, Early
<1>4. shown \subseteq DOMAIN owner /\ \A p \in shown : owner[p] = Session(t)
  BY <1>2 DEF Owned
<1>5. found \in SUBSET Project /\ pages \in 0..MaxPages
  <2>1. t.found \in SUBSET Project /\ t.pages \in 0..MaxPages
    BY <1>3 DEF Task
  <2> QED
    BY <1>2, <2>1, Constants
<1>6. found \subseteq DOMAIN owner
  BY <1>3, <1>4
<1>7. t.obj[1] \notin crossed => \A p \in found : owner[p] = Session(t)
  BY <1>3, <1>4
<1> HIDE DEF found, pages
<1>8. /\ u \in Task /\ u.phase = "listing" /\ u.obj = t.obj /\ u.key = t.key
      /\ u.ids = t.ids /\ u.found = found
  BY <1>1, <1>3, <1>5 DEF Task
<1> HIDE DEF u
<1>9. Chosen(u)
  BY <1>3, <1>8 DEF Chosen, Session
<1>10. Collected(u)
  BY <1>3, <1>6, <1>8 DEF Collected, Early, Preparing, Fetching
<1>11. Answered(u)
  BY <1>7, <1>8 DEF Answered, Session
<1>12. Good(u) /\ ~Holds(u)
  BY <1>8, <1>9, <1>10, <1>11 DEF Good, Holds
<1>13. Tables'
  <2>1. t.key[1] \notin crossed => \A p \in shown : t.key[2] \in {owner[p], NoAccount}
    BY <1>3, <1>4
  <2>2. UNCHANGED <<sessions, flow, stored, synced>> /\ MediaInv(media')
    BY <1>1, <1>2 DEF Tables
  <2> QED
    BY <1>1, <1>2, <1>3, <1>4, <2>1, <2>2, RoutesAndMedia
<1>14. task[j].phase \in Looking /\ task[j].key = u.key
  BY <1>1, <1>8 DEF Looking, t
<1> QED
  BY <1>2, <1>12, <1>13, <1>14, TaskAndTables

LEMMA ListEndsStep ==
    ASSUME IInv, NEW j \in Job, NEW shown \in SUBSET Project, ListEnds(j, shown)
    PROVE  IInv' /\ Uploads
<1> DEFINE t == task[j]
           all == Owned(Session(t))
           found == t.found \cup shown
           p == Newest(found)
<1>1. Good(t) /\ t.phase = "listing" /\ World /\ Tables
  BY DEF ListEnds, IInv, Tasks, TaskInv
<1>2. shown \subseteq all /\ UNCHANGED flow
  BY DEF ListEnds
<1>3. /\ t \in Task /\ Chosen(t) /\ t.obj \in Object /\ t.key \in Key
      /\ t.ids = {} /\ t.found \subseteq DOMAIN owner
      /\ t.obj[1] \notin crossed =>
           /\ t.key[2] = Session(t)
           /\ \A q \in t.found : owner[q] = Session(t)
      /\ t.key[1] = t.obj[1]
  BY <1>1 DEF Good, Busy, Chosen, Collected, Answered, Early
<1>4. shown \subseteq DOMAIN owner /\ \A q \in shown : owner[q] = Session(t)
  BY <1>2 DEF Owned
<1>5. CASE found # {}
  <2>1. Adopt(j, t, p, shown \cup {p})
    BY <1>5 DEF ListEnds
  <2>2. p \in found
    <3>1. DOMAIN owner = 1..Cardinality(DOMAIN owner) /\ Cardinality(DOMAIN owner) \in Nat
      BY <1>1, NumberOfProjects, Constants
    <3>2. found \in SUBSET (1..Cardinality(DOMAIN owner))
      BY <1>3, <1>4, <3>1
    <3> HIDE DEF found
    <3> QED
      BY <1>5, <3>1, <3>2, NewestAmong
  <2> HIDE DEF p
  <2>3. p \in DOMAIN owner /\ p \in Project
    <3>1. DOMAIN owner \subseteq Project
      BY <1>1, NumberOfProjects
    <3> QED
      BY <1>3, <1>4, <2>2, <3>1
  <2>4. t.key[1] \notin crossed => \A q \in shown \cup {p} : owner[q] = t.key[2]
    BY <1>3, <1>4, <2>2
  <2> HIDE DEF t
  <2>5. Goes(j, Enter(t, p)) /\ UNCHANGED sessions /\ owner' = owner
    BY <1>2, <2>1 DEF Adopt, flow
  <2>6. Good(Enter(t, p)) /\ Enter(t, p).phase = "prepare"
    BY <1>1, <1>3, <2>3, EnterGood
  <2>7. Tables'
    <3> DEFINE ps == shown \cup {p}
    <3>1. ps \in SUBSET Project /\ p \in ps /\ ps \subseteq DOMAIN owner' /\ Adopt(j, t, p, ps)
      BY <1>4, <2>1, <2>3, <2>5
    <3>2. t.key[1] \notin crossed => \A q \in ps : owner'[q] = t.key[2]
      BY <2>4, <2>5
    <3> HIDE DEF ps
    <3> QED
      BY <1>1, <1>3, <2>3, <2>5, <3>1, <3>2, AdoptGood
  <2>8. ~Holds(Enter(t, p)) /\ Enter(t, p).phase \notin Looking
    BY <2>6 DEF Holds, Looking
  <2> QED
    BY <1>2, <2>5, <2>6, <2>7, <2>8, TaskAndTables
<1>6. CASE found = {} /\ all = {}
  <2> DEFINE u == [t EXCEPT !.phase = "creating", !.pages = 0]
  <2>1. Goes(j, u) /\ UNCHANGED <<sessions, flow, tables>>
    BY <1>6 DEF ListEnds
  <2>2. t.found = {}
    BY <1>6
  <2>3. t.obj[1] \notin crossed => \A q \in DOMAIN maker : maker[q] # t.key
    <3> SUFFICES ASSUME t.obj[1] \notin crossed, NEW q \in DOMAIN maker, maker[q] = t.key
                 PROVE  FALSE
      OBVIOUS
    <3>1. owner[q] = Session(t)
      BY <1>1, <1>3, Constants DEF World, MakerInv
    <3>2. q \in DOMAIN owner
      BY <1>1, NumberOfProjects
    <3> QED
      BY <1>6, <3>1, <3>2 DEF Owned
  <2>4. task[j].phase \in Looking
    BY <1>1 DEF Looking
  <2> HIDE DEF all
  <2>5. /\ u \in Task /\ u.phase = "creating" /\ u.obj = t.obj /\ u.key = t.key
        /\ u.ids = t.ids /\ u.found = t.found
    <3>1. 0 \in 0..MaxPages /\ "creating" \in Phase
      BY Constants DEF Phase
    <3> QED
      BY <1>3, <3>1 DEF Task
  <2>6. task[j].key = u.key
    BY <2>5
  <2> HIDE DEF u, t
  <2>7. Chosen(u)
    BY <1>3, <2>5 DEF Chosen, Session
  <2>8. Collected(u) /\ Answered(u)
    BY <1>3, <2>2, <2>3, <2>5 DEF Collected, Answered, Early, Preparing, Fetching
  <2>9. Good(u) /\ ~Holds(u)
    BY <2>5, <2>7, <2>8 DEF Good, Holds
  <2> QED
    BY <2>1, <2>4, <2>6, <2>9, OnlyTask
<1>7. CASE found = {} /\ all # {}
  <2>1. Ends(j) /\ UNCHANGED <<sessions, flow, tables>>
    BY <1>7 DEF ListEnds
  <2> QED
    BY <2>1, EndsStep
<1> QED
  BY <1>5, <1>6, <1>7

\* EnterGood and ManagedGood, of every task and project, to be used after a step.
EntersWell ==
    World => \A t \in Task, p \in Project :
        Chosen(t) /\ t.ids = {} /\ p \in DOMAIN owner => Good(Enter(t, p))

ManagesWell ==
    World /\ Tables => \A t \in Task :
        Chosen(t) /\ t.ids = {} /\ t.found = {}
            => Good(Managed(t)) /\ Managed(t).phase \in {"prepare", "lockwait"}

LEMMA EnterAll == EntersWell
BY EnterGood DEF EntersWell

LEMMA ManagedAll == ManagesWell
BY ManagedGood DEF ManagesWell

LEMMA CreateAnswersStep ==
    ASSUME IInv, NEW j \in Job, CreateAnswers(j)
    PROVE  IInv' /\ Uploads
<1>1. PICK t \in Task : t = task[j]
  BY DEF IInv, Tasks
<1> DEFINE c == Cardinality(DOMAIN owner) + 1
<1>2. /\ Good(t) /\ t.phase = "creating" /\ World /\ Tables /\ Tasks
      /\ NewProject(Session(t), t.key) /\ Adopt(j, t, c, {c})
  BY <1>1 DEF CreateAnswers, IInv, Tasks, TaskInv
<1>3. /\ Chosen(t) /\ t.obj \in Object /\ t.key \in Key
      /\ t.ids = {} /\ t.key[1] = t.obj[1]
      /\ t.obj[1] \notin crossed => t.key[2] = Session(t) /\ \A q \in DOMAIN maker : maker[q] # t.key
  BY <1>2 DEF Good, Busy, Chosen, Collected, Answered, Early
<1>4. PICK a \in Account : a = Session(t)
  BY <1>2, <1>3 DEF Session, World, Object
<1>5. PICK k \in Key : k = t.key
  BY <1>3
<1>6. UNCHANGED sessions /\ NewProject(a, k)
  BY <1>2, <1>4, <1>5 DEF Adopt
<1>7. \A s \in Task : Good(s) /\ (s.phase = "creating" => s.key # k) => Good(s)'
  BY <1>2, <1>6, GoodGrows
<1>8. World'
  <2>1. k # NoKey /\ k[1] \notin crossed => a = k[2] /\ \A q \in DOMAIN maker : maker[q] # k
    BY <1>3, <1>4, <1>5
  <2> QED
    BY <1>2, <1>6, <2>1, WorldGrows
<1>9. PICK p \in Project :
              /\ p = Cardinality(DOMAIN owner) + 1 /\ p \notin DOMAIN owner
              /\ DOMAIN owner' = DOMAIN owner \cup {p} /\ DOMAIN maker' = DOMAIN owner'
              /\ DOMAIN maker = DOMAIN owner
              /\ owner'[p] = a /\ maker'[p] = k
              /\ \A q \in DOMAIN owner : owner'[q] = owner[q] /\ maker'[q] = maker[q]
              /\ owner' \in [1..p -> Account] /\ maker' \in [1..p -> Key \cup {NoKey}]
              /\ p \in 0..MaxProjects
  BY <1>2, <1>6, ProjectAdded
<1>10. Adopt(j, t, p, {p})
  BY <1>2, <1>9
<1> HIDE DEF c
<1>11. Tables'
  <2> DEFINE ps == {p}
  <2>1. /\ ps \in SUBSET Project /\ p \in ps /\ ps \subseteq DOMAIN owner' /\ Adopt(j, t, p, ps)
        /\ DOMAIN owner \subseteq DOMAIN owner' /\ \A q \in DOMAIN owner : owner'[q] = owner[q]
    BY <1>9, <1>10
  <2>2. t.key[1] \notin crossed => \A q \in ps : owner'[q] = t.key[2]
    BY <1>3, <1>4, <1>9
  <2> HIDE DEF ps
  <2> QED
    BY <1>2, <1>3, <1>9, <2>1, <2>2, AdoptGood
<1>12. PICK u \in Task : u = Enter(t, p) /\ Goes(j, u) /\ u.phase = "prepare"
  BY <1>2, <1>3, <1>10, EnterFields DEF Adopt
<1>13. Good(u)'
  <2>1. EntersWell'
    BY EnterAll, PTL
  <2>2. Chosen(t)' /\ p \in DOMAIN owner'
    BY <1>3, <1>6, <1>9 DEF Chosen, Session, sessions
  <2>3. Good(Enter(t, p))'
    BY <1>3, <1>8, <2>1, <2>2 DEF EntersWell
  <2>4. Enter(t, p)' = u
    BY <1>6, <1>12 DEF Enter, KeyOf, sessions
  <2> QED
    BY <2>3, <2>4
<1>14. ASSUME NEW i \in Job \ {j}
       PROVE  Good(task[i])'
  <2>1. PICK s \in Task : s = task[i]
    BY <1>2 DEF Tasks
  <2>2. task'[i] = s
    BY <1>12, <2>1 DEF Goes, IInv, Tasks
  <2>3. Good(s) /\ (s.phase = "creating" => s.key # k)
    BY <1>1, <1>2, <1>5, <2>1 DEF Tasks, TaskInv, LockInv, Looking
  <2>4. Good(s)'
    BY <1>7, <2>3
  <2> QED
    BY <2>2, <2>4 DEF Good, Busy, Chosen, Collected, Answered, Session
<1>15. u.phase \notin Looking /\ ~Holds(u)
  BY <1>12 DEF Looking, Holds
<1>16. Tasks'
  BY <1>2, <1>12, <1>13, <1>14, <1>15, OneTask
<1>17. Uploads
  BY <1>2, <1>12, <1>15, NoUpload DEF Tasks
<1> QED
  BY <1>8, <1>11, <1>16, <1>17 DEF IInv

LEMMA UploadAnswersStep ==
    ASSUME IInv, NEW j \in Job, UploadAnswers(j)
    PROVE  IInv' /\ Uploads
<1> DEFINE t == task[j]
           d == Bytes[t.slot]
           m == [project |-> t.project, content |-> d]
           ms == {m}
           u == Resolved(t, ms)
<1>1. /\ Good(t) /\ t.phase = "uploading" /\ t.phase \in Fetching /\ Holds(t)
      /\ World /\ Tables
  BY DEF UploadAnswers, IInv, Tasks, TaskInv, Fetching, Holds
<1>2. /\ owner[t.project] = Session(t) /\ media' = PutUpload(t, m)
      /\ IF t.upload THEN Remember({t.project}, KeyOf(t.obj)) ELSE UNCHANGED route
      /\ Goes(j, Proceed(u)) /\ UNCHANGED <<sessions, flow, stored, synced>>
  BY DEF UploadAnswers
<1> HIDE DEF t
<1>3. /\ t \in Task /\ Chosen(t) /\ t.project \in DOMAIN owner /\ t.at \in Key
      /\ t.slot \in Digest /\ t.obj \in Object
  BY <1>1 DEF Good, Busy, Chosen, Collected, Preparing, Early, Fetching
<1>4. t.project \in Project /\ d \in Digest /\ KeyOf(t.obj) \in Key
  BY <1>1, <1>3, NumberOfProjects, KeyOfType, Constants
<1>5. m \in Id /\ m.project = t.project /\ m.content = d
  BY <1>4 DEF Id
<1>6. MediaInv(media')
  <2> DEFINE rows == Put(media, t.at, t.project, d, m)
  <2>1. MediaInv(rows)
    BY <1>1, <1>3, <1>4, <1>5, PutGood DEF Tables
  <2>2. media' = Put(rows, t.at, t.project, t.slot, m)
    BY <1>2 DEF PutUpload
  <2> HIDE DEF rows, m
  <2>3. m.content \in {t.slot, Bytes[t.slot]}
    BY <1>5
  <2> HIDE DEF d
  <2>4. MediaInv(Put(rows, t.at, t.project, t.slot, m))
    BY <1>3, <1>4, <1>5, <2>1, <2>3, PutGood
  <2> QED
    BY <2>2, <2>4
<1>7. Tables'
  <2>1. \/ route' = route
        \/ \E ps \in SUBSET Project, k \in Key :
              /\ Remember(ps, k) /\ ps \subseteq DOMAIN owner
              /\ k[1] \notin crossed => \A p \in ps : k[2] \in {owner[p], NoAccount}
    <3>1. CASE ~t.upload
      BY <1>2, <3>1
    <3>2. CASE t.upload
      <4> DEFINE ps == {t.project}
                 k == KeyOf(t.obj)
      <4>1. k[1] \notin crossed => \A p \in ps : k[2] \in {owner[p], NoAccount}
        BY <1>2, <1>3 DEF KeyOf, Chosen
      <4>2. ps \in SUBSET Project /\ ps \subseteq DOMAIN owner /\ Remember(ps, k) /\ k \in Key
        BY <1>2, <1>3, <1>4, <3>2
      <4> HIDE DEF ps, k
      <4> QED
        BY <4>1, <4>2
    <3> QED
      BY <3>1, <3>2
  <2> QED
    BY <1>1, <1>2, <1>6, <2>1, RoutesAndMedia
<1>8. ms \in SUBSET Id /\ \A x \in ms : x.project = t.project
  BY <1>5
<1> HIDE DEF ms
<1>9. /\ u \in Task /\ u.phase \in {"done", "prepare", "moving"} /\ u.obj = t.obj
      /\ u.key = t.key /\ u.project = t.project /\ u.at = t.at /\ u.found = t.found
      /\ u.ids = t.ids \cup ms
  BY <1>3, <1>8, ResolvedFields
<1> HIDE DEF u
<1>10. Good(Proceed(u)) /\ Proceed(u).phase \in {"done", "prepare", "moving", "calling"}
  BY <1>1, <1>8, <1>9, ProceedGood
<1>11. ~Holds(Proceed(u)) /\ Proceed(u).phase \notin Looking
  BY <1>10 DEF Holds, Looking
<1> QED
  BY <1>2, <1>7, <1>10, <1>11, TaskAndTables

LEMMA SucceedsStep ==
    ASSUME IInv, NEW j \in Job, Succeeds(j)
    PROVE  IInv' /\ Uploads
<1> DEFINE t == task[j]
           k == KeyOf(t.obj)
           m == [project |-> t.project, content |-> j]
           ps == {t.project}
           u == Rest("done")
<1>1. Good(t) /\ t.phase = "accepted" /\ World /\ Tables
  BY DEF Succeeds, IInv, Tasks, TaskInv
<1>2. /\ Remember(ps, k) /\ media' = Put(media, k, t.project, j, m)
      /\ Goes(j, u) /\ UNCHANGED <<sessions, flow, stored, synced>>
  BY DEF Succeeds, Ends
<1> HIDE DEF t
<1>3. /\ t \in Task /\ Chosen(t) /\ t.project \in DOMAIN owner /\ t.obj \in Object
      /\ t.obj[1] \notin crossed => owner[t.project] = Session(t)
  BY <1>1 DEF Good, Busy, Chosen, Collected, Answered, Early
<1>4. t.project \in Project /\ j \in Digest /\ k \in Key
  BY <1>1, <1>3, NumberOfProjects, KeyOfType, Constants
<1>5. m \in Id /\ m.project = t.project /\ m.content = j
  BY <1>4 DEF Id
<1>6. k[1] \notin crossed => \A p \in ps : k[2] \in {owner[p], NoAccount}
  BY <1>3 DEF KeyOf, Chosen
<1>7. ps \in SUBSET Project /\ ps \subseteq DOMAIN owner
  BY <1>3, <1>4
<1> HIDE DEF k, m, ps, u
<1>8. MediaInv(media')
  BY <1>1, <1>2, <1>4, <1>5, PutGood DEF Tables
<1>9. Tables'
  BY <1>1, <1>2, <1>4, <1>6, <1>7, <1>8, RoutesAndMedia
<1>10. Good(u) /\ u.phase = "done"
  BY DoneGood DEF u
<1>11. ~Holds(u) /\ u.phase \notin Looking
  BY <1>10 DEF Holds, Looking
<1> QED
  BY <1>2, <1>9, <1>10, <1>11, TaskAndTables

LEMMA NotFoundStep ==
    ASSUME IInv, NEW j \in Job, NotFound(j)
    PROVE  IInv' /\ Uploads
<1> DEFINE u == Rest("done")
<1>1. /\ media' \subseteq media /\ route' = route /\ Goes(j, u)
      /\ UNCHANGED <<sessions, flow, stored, synced>>
  BY DEF NotFound, Ends
<1>2. Tables'
  <2>1. Tables /\ MediaInv(media')
    BY <1>1 DEF IInv, Tables, MediaInv
  <2> QED
    BY <1>1, <2>1, RoutesAndMedia
<1>3. Good(u) /\ u.phase = "done"
  BY DoneGood
<1> HIDE DEF u
<1>4. ~Holds(u) /\ u.phase \notin Looking
  BY <1>3 DEF Holds, Looking
<1> QED
  BY <1>1, <1>2, <1>3, <1>4, TaskAndTables

\* A dispatch that starts on a stale identity is one an account change fell into.
LEMMA SelectStep ==
    ASSUME IInv, NEW j \in Job, NEW c \in Conn, Select(j, c)
    PROVE  IInv' /\ Uploads
<1> DEFINE o == <<c, live[c]>>
           k == KeyOf(o)
           t == [task[j] EXCEPT !.obj = o, !.key = k, !.locked = FALSE, !.target = NoKey, !.asked = 0]
           asked == task[j].asked
<1>1. /\ World /\ Tables /\ Tasks /\ Good(task[j]) /\ task[j].phase = "queued"
      /\ email[o] # NoAccount
      /\ Goes(j, IF asked # 0 /\ route[asked] = k THEN Enter(t, asked) ELSE Managed(t))
      /\ crossed' = IF email[o] # signed[c] THEN crossed \cup {c} ELSE crossed
      /\ UNCHANGED <<signed, live, email, events, flow, tables>>
  BY DEF Select, IInv, Tasks, TaskInv
<1>2. crossed \subseteq crossed' /\ crossed' \subseteq Conn /\ (email[o] # signed[c] => c \in crossed')
  BY <1>1 DEF World
<1>3. o \in Object /\ k \in Key /\ k[1] = c /\ k[2] = email[o]
  <2>1. o \in Object
    BY <1>1 DEF World, Object
  <2> QED
    BY <1>1, <2>1, KeyOfType DEF KeyOf
<1>4. World'
  <2>1. MakerInv'
    BY <1>1, <1>2 DEF World, MakerInv, flow
  <2> QED
    BY <1>1, <1>2, <2>1 DEF World, LiveInv, flow
<1>5. Tables'
  BY <1>1, <1>2, TablesKept
<1>6. PICK s \in Task : s = t /\ s.obj = o /\ s.key = k /\ s.ids = {} /\ s.found = {}
  <2>1. task[j] \in Task /\ task[j].ids = {} /\ task[j].found = {}
    BY <1>1 DEF Good, Collected, Early
  <2>2. 0 \in 0..MaxProjects
    BY Constants
  <2>3. t \in Task /\ t.obj = o /\ t.key = k /\ t.ids = {} /\ t.found = {}
    <3> HIDE DEF o, k
    <3> QED
      BY <1>3, <2>1, <2>2 DEF Task
  <2> HIDE DEF t
  <2> QED
    BY <2>3
<1>7. Chosen(s)'
  BY <1>1, <1>2, <1>3, <1>6 DEF Chosen, Session
<1>8. PICK u : Goes(j, u) /\ Good(u)' /\ u.phase \in {"prepare", "lockwait"}
  <2>1. CASE asked # 0 /\ route[asked] = k
    <3>1. asked \in Project
      BY <1>1, <2>1, Constants DEF Good, Task, Project
    <3>2. PICK p \in Project : p = asked
      BY <3>1
    <3>3. p \in DOMAIN owner'
      BY <1>1, <1>3, <2>1, <3>2, Constants DEF Tables, TableInv, flow
    <3>4. PICK u : u = Enter(s, p)
      OBVIOUS
    <3>5. Goes(j, u) /\ u.phase = "prepare"
      BY <1>1, <1>3, <1>6, <2>1, <3>2, <3>4, EnterFields
    <3>6. EntersWell'
      BY EnterAll, PTL
    <3>7. Good(Enter(s, p))'
      BY <1>4, <1>6, <1>7, <3>3, <3>6 DEF EntersWell
    <3>8. Enter(s, p)' = u
      BY <1>1, <3>4 DEF Enter, KeyOf
    <3> QED
      BY <3>5, <3>7, <3>8
  <2>2. CASE ~(asked # 0 /\ route[asked] = k)
    <3>1. PICK u : u = Managed(s)
      OBVIOUS
    <3>2. Goes(j, u)
      BY <1>1, <1>6, <2>2, <3>1
    <3>3. ManagesWell'
      BY ManagedAll, PTL
    <3>4. (Good(Managed(s)) /\ Managed(s).phase \in {"prepare", "lockwait"})'
      BY <1>4, <1>5, <1>6, <1>7, <3>3 DEF ManagesWell
    <3>5. Managed(s)' = u
      BY <1>1, <3>1 DEF Managed, IsSynced, Enter, KeyOf, tables
    <3> QED
      BY <3>2, <3>4, <3>5
  <2> QED
    BY <2>1, <2>2
<1>9. ASSUME NEW i \in Job \ {j}
      PROVE  Good(task[i])'
  <2>1. PICK s1 : s1 = task[i] /\ Good(s1)
    BY <1>1 DEF Tasks, TaskInv
  <2>2. task'[i] = s1
    BY <1>1, <2>1 DEF Goes, Tasks
  <2>3. Good(s1)'
    BY <1>1, <1>2, <2>1 DEF Good, Busy, Chosen, Collected, Answered, Session, flow
  <2> QED
    BY <2>2, <2>3 DEF Good, Busy, Chosen, Collected, Answered, Session
<1>10. u.phase \notin Looking /\ ~Holds(u)
  BY <1>8 DEF Looking, Holds
<1>11. Tasks'
  BY <1>1, <1>8, <1>9, <1>10, OneTask
<1>12. Uploads
  BY <1>1, <1>8, <1>10, NoUpload DEF Tasks
<1> QED
  BY <1>4, <1>5, <1>11, <1>12 DEF IInv

-----------------------------------------------------------------------------
(* The actions of the connectors and of other clients of Google Flow.      *)

\* No task moves, and each stays good.
LEMMA NoTask ==
    ASSUME IInv, task' = task, \A t \in Task : Good(t) => Good(t)'
    PROVE  Tasks' /\ Uploads
<1>1. ASSUME NEW i \in Job
      PROVE  Good(task[i])'
  <2>1. PICK s \in Task : s = task[i] /\ Good(s)
    BY DEF IInv, Tasks, TaskInv, Good
  <2>2. task'[i] = s
    BY <2>1
  <2> QED
    BY <2>1, <2>2 DEF Good, Busy, Chosen, Collected, Answered, Session
<1>2. TaskInv' /\ LockInv'
  BY <1>1 DEF TaskInv, IInv, Tasks, LockInv
<1> QED
  BY <1>2 DEF Uploads, IInv, Tasks

LEMMA SwitchAccountStep ==
    ASSUME IInv, NEW c \in Conn, NEW a \in Account, SwitchAccount(c, a)
    PROVE  IInv' /\ Uploads
<1>1. /\ World /\ Tables /\ Tasks /\ events < MaxEvents /\ events' = events + 1
      /\ signed' = [signed EXCEPT ![c] = a]
      /\ crossed' = IF \E j \in Job : Busy(task[j]) /\ task[j].obj[1] = c
                    THEN crossed \cup {c} ELSE crossed
      /\ UNCHANGED <<live, email, flow, tables, task>>
  BY DEF SwitchAccount, IInv
<1>2. crossed \subseteq crossed' /\ crossed' \subseteq Conn
  BY <1>1 DEF World
<1>3. World'
  <2>1. MakerInv'
    BY <1>1, <1>2 DEF World, MakerInv, flow
  <2>2. events' \in 0..MaxEvents /\ LiveInv'
    BY <1>1, Constants DEF World, LiveInv
  <2>3. signed' \in [Conn -> Account]
    BY <1>1 DEF World
  <2> QED
    BY <1>1, <1>2, <2>1, <2>2, <2>3 DEF World, flow
<1>4. Tables'
  BY <1>1, <1>2, TablesKept
<1>5. ASSUME NEW j \in Job
      PROVE  Good(task[j])'
  <2>1. PICK t \in Task : t = task[j] /\ Good(t)
    BY <1>1 DEF Tasks, TaskInv, Good
  <2>2. Busy(t) => Chosen(t)'
    <3>1. Busy(t) /\ t.obj[1] = c => c \in crossed'
      BY <1>1, <2>1
    <3>2. t.obj[1] # c => signed'[t.obj[1]] = signed[t.obj[1]]
      BY <1>1 DEF World
    <3> QED
      BY <1>1, <1>2, <2>1, <3>1, <3>2 DEF Good, Chosen, Session
  <2>3. Collected(t)'
    BY <1>1, <2>1 DEF Good, Collected, flow
  <2>4. Answered(t)'
    <3>1. t.phase \in {"listing", "creating", "accepted"} => Busy(t)
      BY DEF Busy
    <3>2. Busy(t) /\ t.obj[1] = c => c \in crossed'
      BY <1>1, <2>1
    <3>3. t.obj[1] # c => signed'[t.obj[1]] = signed[t.obj[1]]
      BY <1>1 DEF World
    <3> QED
      BY <1>1, <1>2, <2>1, <3>1, <3>2, <3>3 DEF Good, Answered, Session, flow
  <2>5. task'[j] = t
    BY <1>1, <2>1
  <2>6. Good(t)'
    BY <2>1, <2>2, <2>3, <2>4 DEF Good, Busy
  <2> QED
    BY <2>5, <2>6 DEF Good, Busy, Chosen, Collected, Answered, Session
<1>6. Tasks' /\ Uploads
  BY <1>1, <1>5 DEF Tasks, TaskInv, LockInv, Uploads
<1> QED
  BY <1>3, <1>4, <1>6 DEF IInv

\* An identity that is forgotten, or learnt, is none or the account that is signed in.
LEMMA IdentityStep ==
    ASSUME IInv, NEW c \in Conn, NEW a \in {signed[c], NoAccount},
           email' = [email EXCEPT ![<<c, live[c]>>] = a],
           UNCHANGED <<signed, live, events, crossed, flow, tables, task>>
    PROVE  IInv' /\ Uploads
<1>1. World /\ Tables
  BY DEF IInv
<1>2. <<c, live[c]>> \in Object /\ a \in Account \cup {NoAccount}
  BY <1>1 DEF World, Object
<1>3. \A o \in Object : email'[o] = IF o = <<c, live[c]>> THEN a ELSE email[o]
  BY <1>1, <1>2 DEF World
<1>4. email' \in [Object -> Account \cup {NoAccount}]
  BY <1>1, <1>2 DEF World
<1>5. World'
  BY <1>1, <1>4 DEF World, LiveInv, MakerInv, flow
<1>6. Tables'
  BY <1>1, TablesKept
<1>7. \A t \in Task : Good(t) => Good(t)'
  <2> SUFFICES ASSUME NEW t \in Task, Good(t)
               PROVE  Good(t)'
    OBVIOUS
  <2>1. Busy(t) => Chosen(t)'
    BY <1>3 DEF Good, Chosen, Session
  <2>2. Collected(t)' /\ Answered(t)'
    BY DEF Good, Collected, Answered, Session, flow
  <2> QED
    BY <2>1, <2>2 DEF Good, Busy
<1>8. Tasks' /\ Uploads
  BY <1>7, NoTask
<1> QED
  BY <1>5, <1>6, <1>8 DEF IInv

LEMMA ReconnectStep ==
    ASSUME IInv, NEW c \in Conn, Reconnect(c)
    PROVE  IInv' /\ Uploads
<1>1. /\ World /\ Tables /\ events < MaxEvents /\ events' = events + 1
      /\ live' = [live EXCEPT ![c] = @ + 1]
      /\ UNCHANGED <<signed, email, crossed, flow, tables, task>>
  BY DEF Reconnect, IInv
<1>2. World'
  <2>1. /\ events \in 0..MaxEvents /\ live \in [Conn -> 0..MaxEvents]
        /\ \A i \in Conn : live[i] <= events
    BY <1>1 DEF World, LiveInv
  <2>2. events' \in 0..MaxEvents
    BY <1>1, <2>1, Constants
  <2>3. \A i \in Conn : live'[i] = IF i = c THEN live[c] + 1 ELSE live[i]
    BY <1>1, <2>1
  <2>4. \A i \in Conn : live'[i] <= events' /\ live'[i] \in 0..MaxEvents
    BY <1>1, <2>1, <2>3, Constants
  <2>5. live' \in [Conn -> 0..MaxEvents]
    BY <1>1, <2>1, <2>4
  <2> QED
    BY <1>1, <2>2, <2>4, <2>5 DEF World, LiveInv, MakerInv, flow
<1>3. Tables'
  BY <1>1, TablesKept
<1>4. \A t \in Task : Good(t) => Good(t)'
  BY <1>1 DEF Good, Busy, Chosen, Collected, Answered, Session, flow
<1>5. Tasks' /\ Uploads
  BY <1>1, <1>4, NoTask
<1> QED
  BY <1>2, <1>3, <1>5 DEF IInv

LEMMA OtherProjectStep ==
    ASSUME IInv, NEW a \in Account, OtherProject(a)
    PROVE  IInv' /\ Uploads
<1>1. World /\ Tables /\ NewProject(a, NoKey) /\ UNCHANGED <<sessions, tables, task>>
  BY DEF OtherProject, IInv
<1>2. World'
  BY <1>1, WorldGrows
<1>3. \A t \in Task : Good(t) => Good(t)'
  <2> SUFFICES ASSUME NEW t \in Task, Good(t)
               PROVE  Good(t)'
    OBVIOUS
  <2>1. t.phase = "creating" => NoKey # t.key
    BY Constants DEF Good, Busy, Chosen
  <2> QED
    BY <1>1, <2>1, GoodGrows
<1>4. Tasks' /\ Uploads
  BY <1>1, <1>3, NoTask
<1>5. Tables'
  <2>1. PICK p \in Project :
              /\ p = Cardinality(DOMAIN owner) + 1 /\ p \notin DOMAIN owner
              /\ DOMAIN owner' = DOMAIN owner \cup {p} /\ DOMAIN maker' = DOMAIN owner'
              /\ DOMAIN maker = DOMAIN owner
              /\ owner'[p] = a /\ maker'[p] = NoKey
              /\ \A q \in DOMAIN owner : owner'[q] = owner[q] /\ maker'[q] = maker[q]
              /\ owner' \in [1..p -> Account] /\ maker' \in [1..p -> Key \cup {NoKey}]
              /\ p \in 0..MaxProjects
    BY <1>1, ProjectAdded
  <2>2. TableInv' /\ OwnerRemembered'
    BY <1>1, <2>1 DEF Tables, TableInv, OwnerRemembered, tables, sessions
  <2> QED
    BY <1>1, <2>2 DEF Tables, MediaInv, tables
<1> QED
  BY <1>2, <1>4, <1>5 DEF IInv

-----------------------------------------------------------------------------
(* The theorems.                                                           *)

LEMMA Initially == Init => IInv
<1> SUFFICES ASSUME Init
             PROVE  IInv
  OBVIOUS
<1>1. World
  <2>1. owner \in [1..0 -> Account] /\ maker \in [1..0 -> Key \cup {NoKey}]
    BY DEF Init
  <2>2. email \in [Object -> Account \cup {NoAccount}]
    BY Constants DEF Init, Object
  <2>3. signed \in [Conn -> Account] /\ events = 0 /\ crossed = {}
    BY RoutingAssumption DEF Init
  <2>4. live \in [Conn -> 0..MaxEvents] /\ LiveInv /\ MakerInv
    BY Constants DEF Init, LiveInv, MakerInv
  <2>5. 0 \in 0..MaxProjects /\ 0 \in 0..MaxEvents
    BY Constants
  <2> QED
    BY <2>1, <2>2, <2>3, <2>4, <2>5 DEF World
<1>2. Tables
  BY Constants DEF Init, Tables, MediaInv, TableInv, OwnerRemembered
<1>3. Tasks
  <2>1. "new" \in Phase
    BY DEF Phase
  <2>2. Good(Rest("new")) /\ Rest("new") \in Task /\ Rest("new").phase = "new"
    BY <2>1, RestTask, QueuedGood
  <2>3. task = [j \in Job |-> Rest("new")]
    BY DEF Init
  <2> QED
    BY <2>2, <2>3 DEF Tasks, TaskInv, LockInv, Looking
<1> QED
  BY <1>1, <1>2, <1>3 DEF IInv

LEMMA DispatchStep ==
    ASSUME IInv, NEW j \in Job, Runs(j)
    PROVE  IInv' /\ Uploads
<1>1. ASSUME NEW c \in Conn, Select(j, c)
      PROVE  IInv' /\ Uploads
  BY <1>1, SelectStep
<1>2. ASSUME NEW shown \in SUBSET Project, ListPage(j, shown) \/ ListEnds(j, shown)
      PROVE  IInv' /\ Uploads
  BY <1>2, ListPageStep, ListEndsStep
<1>3. CASE Fails(j) \/ CallFails(j)
  BY <1>3, EndsStep DEF Fails, CallFails
<1>4. CASE LookUp(j)
  BY <1>4, LookUpStep
<1>5. CASE CreateAnswers(j)
  BY <1>5, CreateAnswersStep
<1>6. CASE Want(j) \/ StartMoves(j) \/ NextMove(j)
  BY <1>6, WantStep, StartMovesStep, NextMoveStep
<1>7. CASE UnderLock(j) \/ DownloadAnswers(j) \/ UploadAnswers(j)
  BY <1>7, UnderLockStep, DownloadAnswersStep, UploadAnswersStep
<1>8. CASE FlowAccepts(j) \/ Succeeds(j) \/ NotFound(j)
  BY <1>8, FlowAcceptsStep, SucceedsStep, NotFoundStep
<1> QED
  BY <1>1, <1>2, <1>3, <1>4, <1>5, <1>6, <1>7, <1>8 DEF Runs

LEMMA Inductive == IInv /\ [Next]_vars => IInv' /\ Uploads
<1> SUFFICES ASSUME IInv, [Next]_vars
             PROVE  IInv' /\ Uploads
  OBVIOUS
<1>1. ASSUME NEW c \in Conn, NEW a \in Account, SwitchAccount(c, a)
      PROVE  IInv' /\ Uploads
  BY <1>1, SwitchAccountStep
<1>2. ASSUME NEW c \in Conn, AuthAvailable(c) \/ UserInfo(c)
      PROVE  IInv' /\ Uploads
  BY <1>2, IdentityStep DEF AuthAvailable, UserInfo
<1>3. ASSUME NEW c \in Conn, Reconnect(c)
      PROVE  IInv' /\ Uploads
  BY <1>3, ReconnectStep
<1>4. ASSUME NEW a \in Account, OtherProject(a)
      PROVE  IInv' /\ Uploads
  BY <1>4, OtherProjectStep
<1>5. ASSUME NEW j \in Job, Submits(j)
      PROVE  IInv' /\ Uploads
  BY <1>5, SubmitsStep
<1>6. ASSUME NEW j \in Job, Runs(j)
      PROVE  IInv' /\ Uploads
  BY <1>6, DispatchStep
<1>7. CASE UNCHANGED vars
  <2>1. UNCHANGED <<sessions, flow, tables, task, crossed>>
    BY <1>7 DEF vars, sessions
  <2>2. World' /\ Tables'
    BY <2>1, WorldKept, TablesKept DEF IInv
  <2>3. \A t \in Task : Good(t) => Good(t)'
    BY <2>1, GoodKept
  <2>4. Tasks' /\ Uploads
    BY <2>1, <2>3, NoTask
  <2> QED
    BY <2>2, <2>4 DEF IInv
<1>8. Restless \subseteq Conn
  BY RoutingAssumption
<1> QED
  BY <1>1, <1>2, <1>3, <1>4, <1>5, <1>6, <1>7, <1>8 DEF Next

\* Every reachable state of Google Flow, of the tables and of the dispatches is in order.
THEOREM Invariant == Spec => []IInv
BY Initially, Inductive, PTL DEF Spec

\* Every variable of MediaRouting keeps its type, a connection has one session, and a
\* key, project and digest have one row of cached media.
THEOREM TypeCorrect == Spec => []TypeOK
<1>1. IInv => TypeOK
  <2> SUFFICES ASSUME IInv
               PROVE  TypeOK
    OBVIOUS
  <2>1. World /\ Tables /\ MediaInv(media) /\ Tasks
    BY DEF IInv, Tables
  <2>2. \A r \in media : Rows(r.key, r.project, r.digest) = {r}
    BY <2>1 DEF MediaInv, Rows
  <2> QED
    BY <2>1, <2>2 DEF TypeOK, World, Tables, MediaInv, Tasks
<1> QED
  BY <1>1, Invariant, PTL

\* put_media only ever records an id of the row's own project and content.
THEOREM MediaOfTheProject == Spec => []MediaInProject
<1>1. IInv => MediaInProject
  BY DEF IInv, Tables, MediaInv, MediaInProject
<1> QED
  BY <1>1, Invariant, PTL

\* A generation request names media of its own project only, wherever the dispatch was
\* moved to (_rehydrate_media_ids and _upload_inline_images).
THEOREM RequestsNameOwnMedia == Spec => []RefsInProject
<1>1. IInv => RefsInProject
  BY DEF IInv, Tasks, TaskInv, Good, Collected, Early, RefsInProject
<1> QED
  BY <1>1, Invariant, PTL

\* However the dispatches of a key interleave, project_lock and the second check make
\* them create one project, unless an account change falls into a dispatch.
THEOREM OneProjectCreated == Spec => []CreatedOnce
<1>1. IInv => CreatedOnce
  <2> SUFFICES ASSUME IInv, NEW k \in Key, k[1] \notin crossed
               PROVE  Cardinality({p \in DOMAIN maker : maker[p] = k}) <= 1
    BY DEF CreatedOnce
  <2> DEFINE made == {p \in DOMAIN maker : maker[p] = k}
  <2>1. \A p, q \in made : p = q
    BY Constants DEF IInv, World, MakerInv
  <2> HIDE DEF made
  <2>2. CASE made = {}
    BY <2>2, FS_EmptySet DEF made
  <2>3. CASE made # {}
    <3>1. PICK p : made = {p}
      BY <2>1, <2>3
    <3>2. Cardinality(made) = 1
      BY <3>1, FS_Singleton
    <3> QED
      BY <3>2 DEF made
  <2> QED
    BY <2>2, <2>3
<1> QED
  BY <1>1, Invariant, PTL

\* Without an account change during a dispatch, stored projects and routes name the
\* account that owns the project at Google Flow, or its bare installation.
THEOREM OwnersRemembered == Spec => []OwnerRemembered
<1>1. IInv => OwnerRemembered
  BY DEF IInv, Tables
<1> QED
  BY <1>1, Invariant, PTL

\* For a key, project and digest (_upload_inline_images, _copy_media_to_target): no download
\* or upload begins while another dispatch is at one under the same digest, and no upload
\* begins, not even after a download, while the cache has a row for its content.
THEOREM UploadsOnce == Spec => UploadedOnce
<1> DEFINE A == \A j \in Job :
                  LET old == task[j]
                      new == task'[j]
                  IN  /\ Holds(new) /\ ~Holds(old) =>
                           \A i \in Job \ {j} : Holds(task'[i]) => ~SameSlot(task'[i], new)
                      /\ new.phase = "uploading" /\ old.phase # "uploading" =>
                           Rows(new.at, new.project, Bytes[new.slot]) = {}
<1>1. IInv /\ [Next]_vars => [A]_vars
  BY Inductive DEF Uploads
<1> QED
  BY <1>1, Invariant, PTL DEF Spec, UploadedOnce
=============================================================================
