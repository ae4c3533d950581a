# Verification of FlowProviderAPI

FlowProviderAPI is a backend that offers an HTTP API for image and video
generation and carries the requests out through Chrome extensions that are
signed in at Google Flow. Generation costs credits of a Google account, a request
may take minutes, and the connectors come and go; the hard part of the program
is to keep its promises about paid requests, accounts, projects, images and
idempotency keys while all of that interleaves. This directory models that part
in TLA+, checks it with TLC on small instances, and proves its safety with TLAPS: for every
number of jobs, requests, sockets, accounts and images, and for every limit.

`PROJECT.json` is the index: components, runs, the mutant that breaks each property,
the source lines of each definition, findings, hazards, theorems.

    tlc -workers 2 -config MCJobLifecycle.cfg MCJobLifecycle
    tlapm JobLifecycleProofs.tla        (and each other module named *Proofs)

## The system

| Part | State | Operations | Talks to |
|---|---|---|---|
| `RequestGuardMiddleware`, `lifespan` (app/main.py) | admissions in flight | admit, buffer body, release | Runtime, handlers |
| Handlers (app/api/generations.py, characters.py) | none | enqueue, replay of a key, status read, catalog changes, upload | ProjectStore, Runtime, Flow service |
| `ProjectStore` (app/projects.py) | SQLite tables of jobs, projects, routes, media, assets, characters, operations | one transaction per method, under one `RLock` | AssetStore |
| `AssetStore` (app/assets.py) | files named by SHA-256 | write, look, read, delete | ‒ |
| `JobWorker` (app/workers/job_worker.py) | dispatch, poll and maintenance lanes, `_polling_job_ids` | claim, dispatch, poll, expire, prune (in a thread) | ProjectStore, Runtime, Flow service |
| `Runtime` (app/runtime.py) | slots and credits by connection id, locks, sync sessions, admission counter | reserve, release | all |
| Flow service (app/services/flow.py) | none of its own | managed project, inline uploads, copies between accounts, what is remembered of an answer | FlowBridge, ProjectStore, Runtime |
| `FlowBridge` (providers/google_flow) | connections, pending requests, refresh tasks | register, clear, send_rpc, handle_message, refresh_account | sockets |
| Gateway (app/extension/gateway.py) | a `_serve` and a `heartbeat_loop` coroutine per socket | hello, supersede, ping, drop | FlowBridge |
| Chrome extension (extension/) | one socket, the connects and timers that replace it, a cached bearer with the marks of the fetch it came from, a controller per request | connect, sync and announce the session, authorize and carry out requests, cancel them | Gateway, Google Flow, its own pages |

The service is one process (a lease file keeps a second one out) with one event
loop, so code between two awaits is atomic; the exceptions are the sweep, which
runs in a thread of its own, and Google Flow and Chrome, which do as they like.

What is hard, and where: a paid request that was lost or timed out may still be
carried out (JobWorker); a claim can outlive its coroutine and a coroutine its
claim (crashes, leases); a balance is read, reserved, spent and invalidated by
coroutines that interleave (Runtime, FlowBridge); a socket is superseded while its
predecessor cleans up (gateway); the Google account behind a connector changes
while a dispatch is under way (Flow service); the sweep races the handlers
(ProjectStore); requests race to one key and to the last place in the queue
(middleware); the extension's service worker awaits at every turn, may be ended
by Chrome at any of them, and learns of a session from three sides (background.js).
`PROJECT.json` lists these as hazards, each at its line.

## Modules

| Module | Models | Correct when |
|---|---|---|
| `JobLifecycle` | the job table and the lanes that drive it | no request is sent twice, no video that Flow took is called a plain failure, settled jobs stay settled, every job is settled |
| `JobContract` | what a client may rely on, without table or worker | abstract: `JobLifecycle` implements it |
| `JobLifecycleProofs` | theorems on `JobLifecycle` | ‒ |
| `AccountCredits` | slots, balance and credit refresh of one account | counters never leak, a balance is not spent twice nor used for another identity, a refresh is always pending |
| `AccountLedger` | what paid work may rely on when it spends a balance | abstract: `AccountCredits` implements it |
| `AccountCreditsProofs` | theorems on `AccountCredits` | ‒ |
| `ConnectorSession` | sockets of one connector, registration, heartbeat, pending requests | the tables agree, nobody waits on a socket that is gone, a dead connector is dropped |
| `ConnectorSessionProofs` | theorems on `ConnectorSession` | ‒ |
| `Intake` | admission and idempotency of generation requests | bounded backlog, exact counter, one job per key |
| `IntakeProofs` | theorems on `Intake` | ‒ |
| `AssetRetention` | source images, their references, the sweep | no referenced file goes, every orphan does |
| `AssetRetentionProofs` | theorems on `AssetRetention` | ‒ |
| `MediaRouting` | projects, media ids and locks of a dispatch | requests name media of their project, projects stay with their owner, no duplicate project, no duplicate upload under one digest |
| `MediaRoutingProofs` | theorems on `MediaRouting` | ‒ |
| `BrowserSession` | the extension's socket and session cache | one socket, the newest session, the backend learns of the right account |
| `BrowserSessionProofs` | theorems on `BrowserSession` | ‒ |
| `FlowRequest` | one request end to end: worker, extension, Google Flow | what the worker concludes is true |
| `UpstreamCall` | what the worker relies on when it awaits a generation request | abstract: `FlowRequest` implements it, `JobLifecycle` builds on it |
| `FlowRequestProofs` | theorems on `FlowRequest` | ‒ |

Each `MC*` module gives the constants small values; the `.cfg` files name the
properties. Operators marked `Mutant:` are never part of a specification: each is the
form a plausible bug would give to the definition that follows it.

The modules share the actors but cut the system where the state is disjoint:
`JobLifecycle` leaves the choice of an account open (every outcome of routing is
possible), `AccountCredits` and `MediaRouting` say what limits that choice,
`Intake` ends where a row is inserted and `JobLifecycle` begins there; `FlowRequest` is
what `JobLifecycle` sees as one request and its answer, and takes the bearer from
`BrowserSession` and the sockets from `ConnectorSession` as outcomes. What one
module assumes of another is stated below.

### JobLifecycle

A row keeps status, key, `outcome_unknown`, whether a claim token is set, the
elapsed times the code compares (`age`, `since`, `overdue`) and the poll error
count. `job` is the table, `task` the `_dispatch_job` coroutines, `polling` how many lanes
read each job (`Polled`, the jobs that any lane reads, is the code's set), `call` what Google Flow made of a request, `sent` and `spent` ghost
counters of requests that left the worker. A store method is one action; a coroutine
is cut at its awaits: `ClaimBatch`, `Route` / `ReleaseClaim` / `RejectUnroutable`,
`PrepareStep` (each request before the generation request: project lookup, uploads,
copies), `SendCall`, then one action per kind of answer. `Maintain`, `Prune`,
`Crash`, `Start` and `Tick` are the rest.

- Time is discrete and elapsed times saturate at `Horizon`. `Tick` waits for coroutines
  that were just created, and no request is older than `RpcTimeout` (`send_rpc` gives
  up); preparation may take several requests, so a dispatch can outlive its lease.
  Such a job is reported as uncertain while its coroutine goes on (the docstring of
  `fail_abandoned_dispatches` says its owner is gone); the request is still sent once.
- The dispatch lane gathers its whole batch before it claims again, so a job has
  at most one live coroutine and its token can be a Boolean.
- An image is accepted and rendered at once; a lost image request may be reported as
  a plain failure after an exception (`paid_attempted` stays false), so `HonestFailure`
  speaks of videos only.
- An exception after `update_job_running` is part of `CallUnusable`; the failure
  `VIDEO_POLL_ROUTE_MISSING` cannot occur, for a running row always has both columns.
- Polls carry no token and their lease is shorter than a request may take. That one lane at
  a time reads a job is part of `IInv`, and rests on the exclusion of `Polled` alone.
- A pruned row is a job a client can no longer ask for: state "gone" in the contract.

### AccountCredits and AccountLedger

One connection id, its successive connection objects, the refresh task, the counters
by id, and worker coroutines that hold the object they selected. Balances are numbered
as they are read at Google Flow, so that it is known which paid requests relied on
which, and what had ended before it was read. Delays are arbitrary. The suspect
mark and the cooldown only make the router refuse (reserving is optional in the
model); the pending count in the load and the old `token_captured` message are left out.
Also left out: the slots of `POST /v1/media`, which reserves under the same counters as an
image does; a `user_info` without an email, which makes the connection forget it; and a credits answer
that names a tier and no balance. The last two only change whether an account is ready.

`AccountLedger` knows no connection, refresh or counter: each balance is fetched, offered and
forgotten, once, and a video borrows from the balance on offer as much as is left after
everything lent and spent on it. `AccountCredits` implements it (`KeepsLedger`) with the balance
that the live connection shows as the one on offer, the answer of the refresh task as
the one fetched, and the videos that hold a slot as the borrowers.

### ConnectorSession

Each socket has a `_serve` coroutine, a heartbeat and a line that may fall silent or
close. All sockets have one installation id, hence one connection id: that is where
registration, supersession and cleanup conflict. Without a clock, `DeadIsDropped` says that a
connector that has gone is dropped, not which of heartbeat and receive timeout drops it. Handshakes that are rejected touch
nothing and are left out. Of two hellos waiting for the same prior socket the older may
register last; the tables agree nonetheless.

### Intake

A request passes `Admit`, its body, the handler (one step: it has no await between
lookup and insert, so the lookup keeps a key single even without the index) and the response. A character request is filled in from the catalog
of the moment. Validation errors are `Refuse`. The `IntegrityError` branch of
`enqueue_job` cannot be reached within one event loop.

### AssetRetention

Handlers are programs of store calls, each under the lock, and file looks that are not;
they have no await, so one runs at a time. The sweep is a thread that holds the lock from its
first read to its commit, deleting files in between. A crash loses what was
not committed, not what was deleted. Handlers and sweeps do not last a day. One
image per request and one media id per image.

### MediaRouting

Dispatches and `POST /v1/media` requests over the project, route and media tables, cut
at the locks and requests of `_managed_project`, `_upload_inline_images`,
`_rehydrate_media_ids` and the generation request. Each helper computes the account key
when it is entered (`at`), as the code does, next to the key the worker has computed
(`key`). Media ids without an active row (`Strange`) are passed on to Google Flow as the client
gave them, as the code does; `RefsInProject` says what holds of the ids that are known. The media lock and
the cache go by digest: a generated image has a made-up one (`Bytes` tells which content it is), so a
copy of it and an upload of the same bytes may run at once, in the code as in the
model, and `UploadedOnce` does not exclude it. A `user_info` that repeats what is known is not a step. Requests go by
connection id, under whoever is signed in (`signed`); the backend learns of a change by `auth_available`, which forgets the email, and `user_info`. Google
Flow takes uploads and requests only into projects of that account. `crossed` is a
history variable: connectors where an account change fell into a dispatch, or a dispatch
started while the backend's email was out of date. Only the tables' active rows are kept.
Slots, credits and scopes without a project are left out (a job that is not locked may
go anywhere), and so is the removal of media rows after 90 days without use.

### BrowserSession

background.js as the overrides in browser-transport.js leave it: `connect` and
`connectOnce` cut at their awaits (`Connects`, `Configured`, `Creates`), the socket's
handlers (`Opens`, `OnClose`), `keepAlive`, `setConnectionConfig` (`SetServer`: disconnect and
connect), and the three sources of a session: `syncAuth` of a socket (`Syncs`,
`SyncFetched`, `SyncReports`, `SyncFails`), the bearer of a request (`Request`, `Authorized`) and a
page that publishes its own (`PageFetches`, `Captured`).

- `connectionEpoch`, `authGeneration` and `authFetchSequence` are counters that are only
  compared with a value read before. Each is kept as who has read its present value: `timely`,
  `expected`, and `newest` for the one who took the last number.
- A session is the number of the account it belongs to, in the order in which the user signed
  in, so "older" is "smaller". `labs.google` answers with whoever is signed in by then.
- `told` is what the backend's connection object holds once it has read every frame sent so
  far: `onopen` makes it forget, `auth_available` sets the key and forgets the account, `user_info`
  sets the account. The API key is not modelled; the search for it in the tabs is
  the await between `SyncFetched` and `SyncReports`.
- `Restart` ends the service worker in any state: globals go, pages and the backend's requests stay.
- `due` is the age of `lastAuthSyncAt`, `fresh` that of `cachedBearerAt`; both may run out at
  any time, a bearer also while tabs are searched that are slow to load.
- A page may publish a session without its email (`CaptureTold`); the backend then learns the account from
  the next `syncAuth`. The session of a `syncAuth` is taken to name a user: for one that
  does not, no `user_info` is sent and the account never becomes ready.

### FlowRequest and UpstreamCall

`call` is the coroutine of `api_request` or `trpc_request`, `rpc` the handler in the
extension, `ask` what Google Flow has made of the fetch, `carried` how often it has carried
the request out. Frames on a socket are in order, which is why `Cancels` waits until
`Receives` has run; `reply` and `rpc` are lost when the socket they belong to is not
the one either side listens to. `Answer` has one member per class of answers that
`_normalize_fetch` and the worker tell apart; a status that a proxy may send of its own (the
set in job_worker.py: 408, 425, 500, 502, 503, 504) can come before or after Flow
has seen the request, every other status from 400 on is taken for Flow's own refusal. That is the
code's assumption as well, and the contract rests on it.

`UpstreamCall` has no sockets: a call is away until it is known to have succeeded, known to be
refused, or in doubt, and Flow carries out a call that is away or in doubt, once.
`FlowRequest` implements it for the requests of the service worker (`KeepsCall`): those are
the paid ones. In `JobLifecycle` this contract is the variable `call` and its actions
`CallSucceeds`, `CallRefused` and `CallLost`; the other outcomes there are what the worker makes
of a body. Requests of a page (project lookup and creation, workflow updates) are not
part of it, for `inject` repeats one that failed. `TypeOK` bounds what Flow carries out by
one for the former (`Generation`) and by two for the latter (`Types`), and
docs/architecture.md asks no more than that a project is created only after a lookup.

## Runs

| Run | Question | Bounds | Result |
|---|---|---|---|
| `MCJobLifecycle` | safety, contract and settlement of jobs | a video and an image that is bound to its account, one key, two poll lanes, every limit 1 or 2, one crash, two preparatory requests | holds, 215,696 states |
| `MCAccountCredits` | slots, balance, refresh; the ledger of the account | two videos that cost 1 and 2 with balances of 2, an image, a poll, of which three hold a slot; two sockets, two identity messages each, two balances, one paid attempt | holds, 1,318,809 states |
| `MCConnectorSession` | registration, heartbeat, requests | three sockets, one request | holds, 211,834 states |
| `MCIntake` | admission, keys | three requests, one key, two places, two bodies, two catalog values | holds, 699,795 states |
| `MCAssetRetention` | sweep against handlers and crashes; orphans go in the end | two images in batches of one, one character, one job, one fault | holds, 1,069,671 states |
| `MCMediaRouting` | projects, media, locks | two accounts and connectors, two dispatches, one image, two projects, two pages, one account change or reconnect on one connector | holds, 1,777,942 states |
| `MCBrowserSession` | sockets and sessions of the extension | two attempts, two sockets, two accounts, one request, one page, one loss or restart, one failure | holds, 1,007,230 states |
| `MCFlowRequest` | one request end to end | one request of the service worker, one of a page, three sockets | holds, 1,380,214 states |
| `MCStaleBalance` | balance refreshed before paid work uses it | as `MCAccountCredits` | violated |
| `MCCatalogReplay` | replay survives a catalog edit | as `MCIntake` | violated |
| `MCCatalogRace` | referenced character sources are kept | as `MCAssetRetention` | violated |
| `MCForeignMedia` | projects stay with their account | as `MCMediaRouting` | violated |

Why the bounds are enough. The properties relate at most two actors of a kind: two jobs
under one key or in one batch, two dispatches at one lock, two images in the order
of a batch, a socket with its predecessor and successor. Limits of 1 and 2 put the
timeouts in every order that matters: a request (1) ends before the lease (2), and two of them
outlast it. Two videos that cost 1 and 2 against a balance of 2 exclude each other, by what is reserved and
by what was sent, and tell credits from slots. Three sockets are needed so that two hellos wait for
one prior socket, and in `FlowRequest` so that an answer meets neither the socket it was asked on
nor its successor. In `BrowserSession` two attempts are what an epoch tells apart, and two accounts what a late
session can confuse; one loss and one failure hit every action. `Horizon` equals the largest limit, so "past it" is one value. The
proofs below remove the bounds of all eight component modules for the safety properties; they remain for
liveness. Symmetry is used for the
requests and dispatches, never in a run with a liveness property.

Deadlock is checked except where the system may come to rest: `AccountCredits`, `Intake`,
`MediaRouting` and `FlowRequest` have a bounded supply of events.

### The violations

Each is a sentence of the repository that the code does not keep in some interleaving;
`PROJECT.json` quotes both.

1. `RefreshedAfterPaid`: after a paid attempt the balance is forgotten and a refresh
   scheduled, but one that is already under way counts as it, and may carry a balance
   from before the attempt. A reconnect has the same effect.
2. `EditKeepsReplay`: the comparison of a repeated character request leaves out the
   reference snapshot, not the defaults that were copied from the catalog.
3. `CharacterSourcesKept`: between the check of a reference file and its touch the sweep
   can delete the file; the touch then marks the row as active.
4. `OwnershipKept`: a project lookup that crosses an account change assigns the
   projects of the new account to the old key.

The public states are not the straight line of README.md ("queued -> running -> complete |
failed"): a claimed job is shown as running, and as queued again when no account takes it.
`JobContract` states what is kept instead.

Behaviours the models exhibit that no text of the repository forbids, so that no run
asks about them, are in the hazards with a note: a balance delivered on a new socket, a
heartbeat that marks the successor of its socket, an explicit project that was
remembered for the bare installation, a file left by a crash before its row.

## Fairness

`JobLifecycle`: the lanes and the event loop run for ever and every request is answered
or given up on, so `Tick` and the coroutines go on; `Start` means the process is restarted.
`Maintain` is strongly fair because a job that is released and claimed again is
queued only in between: the maintenance lane has a period of its own, so it cannot
always find the job claimed. `ConnectorSession`: timers fire and coroutines continue;
nothing is assumed of the connector. `AssetRetention`: a thread that waits for the lock
gets it (`Tick` and `SweepStarts` are strongly fair, since handlers take the lock in between),
and the event loop is idle again and again, for handlers are much shorter than the pauses
between them. `BrowserSession`: the alarm and the offscreen page call `keepAlive` for ever, five
minutes pass, and every await of a connect or of `syncAuth` ends; nothing is assumed of the user,
of pages or of requests, and the failures the bound allows may come at any moment.

## Proofs

`JobLifecycleProofs` proves, for every number of jobs, every choice of videos, keys and
limits that satisfies `JobAssumption` and `TimeAssumption`:

| Theorem | States |
|---|---|
| `TypeCorrect` | `Spec => []TypeOK` |
| `Invariant` | `Spec => []IInv` |
| `PaidOnce` | `Spec => []PaidAtMostOnce` |
| `Honest` | `Spec => []HonestFailure` |
| `Owned` | `Spec => []DispatchOwned` |
| `Settled` | `Spec => SettledIsFinal` |
| `Implements` | `Spec => KeepsContract`: every step is a step of `JobContract` or leaves its state alone |

`PaidAtMostOnce` is not inductive: nothing in it says why a job that is sent will not be
sent again. `IInv` adds the reason. Its per-job part says that nothing was sent for a job
that is queued or still prepared, that every answer stands for a request, that a live
coroutine's row is its own or was given up as uncertain, and that one lane at a time polls a
job, which has left the dispatch lane by then; its key part says that a key names one row, and that this
row sent whatever the key was charged for. Together with the guards of the store methods
(status and claim token) each action keeps it: `SendCall` needs a coroutine in
preparation, for which nothing was sent, and no action leads from a row that has been sent
back to the queue. The proof has one lemma per action or group of actions, over a
row as a constant where that keeps the obligations small; `Settled` and `Implements` follow from
`IInv` step by step. The assumptions on the constants serve to type them and to tell `NoKey`
from a key; no argument rests on the order of the time limits.

`IntakeProofs` proves, for every finite set of requests and every choice of keys, bodies,
catalog values and limit that satisfies `IntakeAssumption`:

| Theorem | States |
|---|---|
| `TypeCorrect` | `Spec => []TypeOK` |
| `Invariant` | `Spec => []IInv` |
| `Bounded` | `Spec => []BacklogBounded` |
| `Exact` | `Spec => []AdmissionsExact` |
| `OneJob` | `Spec => []OneJobPerKey` |
| `Replays` | `Spec => []ReplayReturnsJob` |

`BacklogBounded` is not inductive: an insert adds to the backlog without looking at the
limit. `IInv` counts `Places`, the active jobs together with the requests that still
read their body and hold a reservation: an admission takes a place that its guard has found
free (`PlacesCounted`: the guard counts places once or twice, never too few), an insert turns the place of
its request into that of its job, and nothing else adds one. For this a request that
inserts must hold a reservation, which is why `RequestInv` says that one let through
without it has a job under its key, and that such a job is never forgotten.
`ReplayReturnsJob` follows from `AnswerInv`, which ties every answer to the job of its key,
and from `OneJobPerKey`. The proof has one lemma per action; those that move a single
request, or only the table, share `RequestStep` and `TableStep`. That `Request` is
finite is needed to count; the code's requests are finitely many at any time, and their
number is arbitrary.

`FlowRequestProofs` proves, for every set of requests and every number of sockets:

| Theorem | States |
|---|---|
| `TypeCorrect` | `Spec => []TypeOK`: a request of the service worker is carried out once, one of a page twice at most |
| `Invariant` | `Spec => []IInv` |
| `Implements` | `Spec => KeepsCall` |

`TypeOK` is not inductive: it does not say why nothing is carried out once more. `IInv` does,
with `FetchInv`: a coroutine that has not sent has no handler, a handler that has not
fetched has asked nothing, and what was carried out together with what Flow may still
take is one as long as a page's first fetch runs, two at most. `CallInv` speaks of the requests of
the service worker: they are fetched once, what was carried out is what Flow has taken, an
answer on its way agrees with it, and so does what the coroutine has concluded. The refinement
then goes action by action; all but `Start`, `PrepareFails`, `Hears`, `GivesUp`, the end of a
socket (which ends every call that waits on it, hence the joint step of `UpstreamCall`) and `Takes`
leave the contract's state alone.

`BrowserSessionProofs` proves, for every number of attempts, sockets, accounts, requests, pages,
losses and failures that satisfies `BrowserAssumption`:

| Theorem | States |
|---|---|
| `TypeCorrect` | `Spec => []TypeOK` |
| `Invariant` | `Spec => []IInv` |
| `SingleSocket` | `Spec => []OneSocket` |
| `NewestStays` | `Spec => NewestKept` |
| `CapturedStays` | `Spec => CapturedWins` |

`OneSocket` needs `ConnectInv`: an attempt that may still create a socket is the one `connect`
waits for, and there is no live socket while it runs. The two action properties need to know what
the comparisons of `fetchLabsSession` and `syncAuth` establish: nothing is cached, captured or
answered that was not signed in by then (`PastInv`), so that the answer of the newest fetch is
at least as new as what is cached and captured (`SessionInv`), and a socket that will announce an
account has that account's bearer in the cache (`SyncInv`). One lemma per part goes through the
actions, and one per property through the steps.

`AccountCreditsProofs` proves, for all coroutines and costs, and every number of sockets, identities,
balances and payments that satisfies `CreditsAssumption`:

| Theorem | States |
|---|---|
| `TypeCorrect` | `Spec => []TypeOK` |
| `Invariant` | `Spec => []IInv` |
| `SlotsCounted` | `Spec => []CountersExact` |
| `BalancesNotReused` | `Spec => []BalanceNotReused` |
| `BalancesOfThisIdentity` | `Spec => []BalanceOfThisIdentity` |
| `RefreshIsPending` | `Spec => []RefreshPending` |
| `Implements` | `Spec => KeepsLedger` |

`BalanceNotReused` is not inductive: the guard of a reservation compares the balance with the credits reserved
under the connection id, and knows nothing of what was sent. It is enough because the balance
is forgotten when a paid attempt ends: whatever was drawn on a balance that is still shown is
being paid by a coroutine that holds its reservation (`VisibleInv`), and `CountersExact` says that
reservations are exactly those. For this a balance must be in one connection at most, and
one not shown yet must have served nobody (`AnswerInv`); paid attempts must be of videos that
know the connection their balance came from (`WorkerInv`). The session part (`ObjectInv`,
`TaskInv`) says that only the latest socket is registered, that those to come are blank, and
that a refresh under way was asked for by the identity that is signed in unless a restart is about
to replace it; `BalanceOfThisIdentity` and `RefreshPending` need that. Credits are totals over
sets of coroutines; the lemmas on `CreditsOf` (split, add, remove) come from the
cardinality theorems of the library. `Implements` uses one lemma on what a step may do to a balance
and one on each step that lends, returns or spends; `BalanceNotReused` in the next state is the guard of
the ledger's loan. (A run checks `KeepsLedger`, which contains it: loans are granted within the balance, and
a paid request only turns its loan into what is spent.)

`ConnectorSessionProofs` proves, for every number of sockets and set of requests:

| Theorem | States |
|---|---|
| `TypeCorrect` | `Spec => []TypeOK` |
| `Invariant` | `Spec => []IInv` |
| `TablesAgree` | `Spec => []RegistryAgrees` |
| `NoneStranded` | `Spec => []PendingReachable` |
| `OwnerLeaves` | `Spec => OnlyOwnerLeaves`: the id is given up only by the socket that holds it |

Here the properties are nearly inductive together; `PendingSent` adds that a waiting request was
sent on a socket, so that there is none when no socket is registered. `TakesOver` is the
lemma on the two ways a socket gets the id.

`AssetRetentionProofs` proves, for every number of images and faults, retention time and batch size:

| Theorem | States |
|---|---|
| `TypeCorrect` | `Spec => []TypeOK` |
| `Invariant` | `Spec => []IInv` |
| `InputsKept` | `Spec => []InlineInputsKept` |
| `ReferencedSpared` | `Spec => SweepSparesReferenced` |

`InlineInputsKept` is not inductive: before its job is enqueued, nothing refers to the image a handler has
written. What protects it is the lock, until its row is there, and then its age: `HandlerInv` says that no
sweep runs between the file and the row, and that from then on the image is orphaned for less than
`Retention` and not among those a sweep has already chosen. That handlers do not last a day, as the
model assumes, enters the proof here. `SweepInv` says that
what the sweep has chosen is not referenced while it holds the lock. `CharacterSourcesKept`, which
`MCCatalogRace` refutes, has no such protection: there the file is looked at before the lock is taken.

`MediaRoutingProofs` proves, for all connectors, accounts, jobs and images, and every number of projects,
pages, account changes and reconnects that satisfies `RoutingAssumption`:

| Theorem | States |
|---|---|
| `TypeCorrect` | `Spec => []TypeOK` |
| `Invariant` | `Spec => []IInv` |
| `MediaOfTheProject` | `Spec => []MediaInProject` |
| `RequestsNameOwnMedia` | `Spec => []RefsInProject` |
| `OneProjectCreated` | `Spec => []CreatedOnce` |
| `OwnersRemembered` | `Spec => []OwnerRemembered` |
| `UploadsOnce` | `Spec => UploadedOnce` |

`IInv` has three parts. `World` speaks of connectors and Google Flow: a project made for a key is of the account
in the key and the only one made for it, as long as no account change fell into a dispatch there.
`Tables` speaks of the rows: they name projects that exist and media of their own project.
`Tasks` says for each dispatch that its key names who is signed in (`Chosen`), that all it has
collected belongs to its project (`Collected`), and what the last answer told it (`Answered`). The
last is what `CreatedOnce` needs: a dispatch that is about to create has looked up the account
and found nothing, so nothing was made for its key; it stays true because `LockInv` keeps the
other dispatches of the key out of lookup and creation, and a switch of the account puts the
connector into `crossed`. `RefsInProject` needs that a media id carried through the copies is taken from a row
of the target project, hence `MediaInv` on rows together with `Collected`. `UploadedOnce` follows
from the guards under the media lock and the second look into the cache, step by step, for
each key, project and digest. The assumption that `NoKey` and `NoRow` are no key and
no row only tells absence from presence.

Only model-checked: liveness (`EveryJobSettles`, `DeadIsDropped`, `OrphansSwept`,
`IdentityCatchesUp`), which rests on fairness and is beyond this prover. The four violations are
counterexamples that TLC found.

## Not modelled

Authentication, rate and size limits of requests; validation and formatting of payloads;
signing of routing scopes; choice among several eligible accounts (an outcome in
`JobLifecycle`, any fitting connector in `MediaRouting`); `provider_operations`, whose
rows only translate names for polls; the wake event of the worker's lanes, for the
lanes also wake by timer; the process lease (one `flock`, assumed); MCP server, health,
error and configuration modules, which keep no state that matters here; in the
extension tabs, captchas, the API key, the popup and the ChatGPT provider, whose requests
browser-transport.js refuses; deployment scripts.

## Plan

Written in the order of importance: job lifecycle and its contract, credits, sessions,
intake, retention, media routing, the extension and a request end to end. Next:

1. The wake event of the dispatch lane, and the operations of polls.
2. The contract `JobLifecycle` relies on for the choice of an account, stated as an abstract
   specification that the guards of `AccountCredits` and `MediaRouting` implement.
3. What a crash leaves behind in `MediaRouting`: the tables survive, the dispatches do not.
