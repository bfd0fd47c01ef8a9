# Fotobank: specifications and proofs

TLA+ models of Fotobank's background machinery, checked with TLC on small
instances and, for the safety properties that matter most, proved with TLAPS for
every value of the constants. Paths are relative to `src/internal/`, those that begin with
`docs/` or `frontend/` to `src/`.

Fotobank is one server process over SQLite (one writer connection, so every
transaction is atomic and transactions are totally ordered), a Docbank vault for
originals, a write-once object store for thumbnails, an AI provider and a sharing
broker. Nearly everything that can go wrong happens between two transactions: a
worker reads a row, does something slow outside the database (a file, Docbank, a
provider, a browser), and writes the result to a row that an owner's request, a lease
sweep, another worker, a commit or a restart has changed since. That is what the models
are about.

## 1. Inventory

| Component | State | Operations | Interacts with |
|---|---|---|---|
| Share outbox (`share`, `shareworker`, `brokerexec`, `service/share_service.go`) | rows of `scopes`: `broker_status`, `revoked_at`, `broker_attempts`, `broker_next_attempt_at`; the worker's batch in memory | Create, Revoke, Retry, delete of an album; ListReady, PublishScope / RevokeScope, Mark* | albums (foreign key), the broker command |
| Shared reads (`share/resolver.go`, `service/shared_read_service.go`) | none | which media a grantee may see | scopes, albums, hidden media |
| Thumbnail pipeline (`thumb`) | `assets.thumb_status`, `thumb_version`, `thumb_claimed_at`; objects in the store; claims in memory | claim, decode, write sizes, finalise, sweep, regenerate | content adapter, checkouts (invalidation), hidden media, embedding (hook in MarkReady) |
| Embedding generations (`ai/embedding`) | `embedding_generations`, `media_embedding_ids`, vector tables | create, write vectors, invalidate, activate, promote, retire, compact | AI job queue, thumbnails, settings, search |
| AI job queue (`ai/jobs`, `ai/failures`, `ai/skipped`) | `ai_jobs`, `ai_failures`, `ai_skipped` | enqueue, claim, done, failed, blocked, promote, sweep | every AI worker |
| Gap scanner (`ai/gapscanner`) | none; a list between two statements | list candidates, enqueue each | job queue, generations |
| Tag and caption worker (`ai/worker`, `ai/results`, `ai/ack`, `ai/gateway`) | `ai_results`, acknowledgements, semaphore | claim, look up consent and preview, call, retry, write | job queue, provider |
| Application settings (`service/appsettings`, `ai/runtime`) | `app_settings`, the live snapshot | apply, reset, reload | generations, all AI workers |
| AI service (`service/ai`) | none | acknowledge, backfill, retry, promote a generation | scans, generations |
| Import (`ingest`, `media/asset_repo.go`) | `assets` (pending, ready, conflict), `content_operations`, the import lock | reserve, create in Docbank, receipt, metadata, finalise, index, recover | Docbank, AI queue, text index |
| Discovery, source metadata | none | walk, classify, project | import, checkouts |
| Content adapter (`content`, `contentresolver`) | a mutex | create, replace, stat, open | Docbank |
| Checkouts (`checkout`) | `checkouts`, entries (clean, pending, conflict, missing, error), scan candidates, files on disk | materialise, scan, commit, retire | Docbank, thumbnails, embedding |
| Hidden media (`auth/hidden`, `media/repo.go`) | `hidden_at`, credential, unlock sessions, lockouts | hide, unhide, setup, change, unlock, lock, disable, sweep | thumbnails, search, shared reads, checkouts |
| Albums (`album`) | `albums`, membership | create, rename, delete, members | share outbox |
| Archives and backup (`backup`) | snapshots, schedule | capture under a mutation freeze, retention, restore | Docbank, every writer |
| Search (`search`, `service/search`) | text index, cursors | query, autocomplete | active generation |
| Events (`httpapi/events.go`) | ring, ids and subscribers per owner | publish, subscribe, replay, close | all emitters, the pages |
| Owners and identity | owner rows | lookup, guard | all services |
| Server lifecycle and CLI (`cli`, `client`, `operator`) | goroutines, lock files | start, stop, recovery mode | all workers |
| HTTP API, frontend, geo, config, observability | none of their own | presentation, parsing | |

What is hard in each, and what makes it correct:

- **Share outbox.** A broker call is started from a row read earlier and recorded
  later; the owner may revoke, retry or delete the album in between, the process may
  stop, and a command killed at its timeout may still take effect. Correct means: an
  active scope has its grant; a revoked one never comes back; a closed one has no
  grant; no waiting row is out of the worker's reach; every request settles.
- **Shared reads.** Expiry, revocation, hiding and membership must hold together at
  the moment of the read; each read decides that in one query.
- **Thumbnails.** Two attempts of one asset may run at once after a sweep, the content
  may be replaced during an attempt, the store never overwrites. Correct means: a
  ready row has all its objects, of the current content; no row stays claimed for
  ever; visible rows settle.
- **Embeddings, their scans and settings.** A vector is computed from a preview that
  may have been replaced while it was at the provider; counters are kept by increments;
  the activator decides on a count it read before; a model change starts a second
  generation while the first is in service. Correct means: no vector in service is of
  an older image; the count is exact; exactly one generation is in service once there
  is one; every photo settles; a complete generation is activated.
- **Tags and captions, and the job queue.** Importer, scans, the owner's requests and
  settings changes queue the same photo under different fingerprints, of which the index
  allows one row; the answer may come after the claim was swept, superseded or deleted
  with the file it was about. Correct means: the active result was made from the present
  file; every photo gets a result, a failure or a skip, or waits for its owner or its
  thumbnail.
- **Import.** Catalog and Docbank share no transaction, several workers take groups with
  the same contents, sources change while they are read, the process stops anywhere.
  Correct means: a set of contents is reserved once and as a whole; a ready asset has all
  of them; what is reported as imported stays so; only a change from outside ends in the
  terminal conflict; an interrupted import is finished by the next one, unless a checkout
  has meanwhile committed its content to another file.
- **Checkouts.** The user edits a file while it settles, is hashed or is committed; a
  commit has its version in Docbank before the catalog knows; a scan works with rows a
  commit moves. Correct means: no edit is overlooked; no version is replaced that the
  entry was not based on; a commit applied only in Docbank is adopted; no race alone
  ends in a conflict.
- **Events.** Events are published while a page loads, subscribes and replays, channels
  and ring are limited, the server restarts. Correct means: no gap without a notice, ids in
  order, a shutdown that waits for no handler.
- **Hidden media sessions, backup.** The order of the transactions of Disable; retention
  never drops the last good snapshot. (Not modelled, see section 6.)

`PROJECT.json` lists the components with their status, every hazard at its line and
the properties that cover it, and the map from definitions to source lines.

## 2. Modules

| Module | Models |
|---|---|
| `ShareOutbox` | the outbox: owner, worker, broker |
| `ShareGrant` | what sharing promises, in six actions, without outbox or retries |
| `ShareRefinement` | the refinement mapping from `ShareOutbox` to `ShareGrant` |
| `ThumbPipeline` | the thumbnail queue, worker and store |
| `PreviewLedger` | what those who read a photo may rely on: commit, request, render, give up |
| `PreviewReader` | the readers of thumbnails and their caches, beside `ThumbPipeline` |
| `Embedding` | embed jobs, worker, generations, activator, compactor, scans |
| `AIJobs` | tag and caption jobs, worker, gap scan, the owner's requests |
| `Import` | the ledger of content operations, the workers of an import, recovery |
| `ImportLedger` | what an import promises: reserve, store, finish or refuse, as a whole |
| `Checkout` | working folders, the scanner, commits |
| `CheckoutLedger` | what writing back promises: one version on top of the catalog's |
| `EventBus` | the events of one owner: bus, connection handlers, pages |
| `MC...` | instances of these for TLC |
| `ShareOutboxProofs`, `ThumbPipelineProofs`, `PreviewReaderProofs`, `EmbeddingProofs`, `AIJobsProofs`, `ImportProofs`, `CheckoutProofs`, `EventBusProofs` | theorems and proofs |

The components meet in the rows of an asset and of its files. Each module contains, as
actions, what the others do to the rows it reads: `ThumbPipeline`, `Embedding`, `AIJobs` and
`Import` have the commit of a checkout (`ApplyCommit`; in `Import` for the contents recorded
in `media_files`, which are unique per owner), `Embedding` and `AIJobs` a thumbnail that
settles or is requested again, all of them a stop of the server. `Checkout` begins with
files that are ready, which no import touches again. `CheckoutLedger` is what a commit may
do to a file's version, `ImportLedger` how an asset gets there.

`PreviewLedger` is the seam between the makers and the readers of previews. From the one
side, `ThumbPipeline` implements it. From the other, `AIJobs` and `Embedding` let nothing
happen to a preview that it does not allow. All three are proved (`PreviewsImplemented`), so
what the AI modules assume of thumbnails is no more than what the pipeline promises. It says
when a preview goes (a commit, which brings a new image with it, or a request), that it
comes back only from "pending", and that whoever looks is then shown the present image and
no other. `Embedding` counts each rendering as an image of its own, which the ledger allows
its readers to do.

The definitions under a comment "Mutant" are no part of any specification. Each is a
variant of the definition after it with a plausible mistake, to confirm that a property
notices the mistake; `PROJECT.json` "mutants" says which property and which definition.

### ShareOutbox

One row per scope: `status` is `broker_status` ("absent" before Create, "purged" after
the album's deletion), `revoked` is `revoked_at IS NOT NULL`, `next` abstracts
`broker_next_attempt_at` to NULL, past and future. `snap` and `snapAttempts` are what
the worker's batch read; they, not the row, choose between PublishScope and RevokeScope
and decide whether an attempt is the last. `calling` and `applied` are the call in
flight. `grant` is the broker's own state; `stray` holds calls the worker stopped
waiting for before they took effect.

- Owner: `Create`, `SetRevoking`, `RetryPublish`, `RetryRevoke`, `DeleteAlbum`. The
  services read the row before the UPDATE; the WHERE clause is what decides, and it is
  the guard.
- Worker: `ListReady` (order and limit of the query), `StartCall`, then one of
  `MarkPublished`, `MarkRevoked`, `MarkAttemptFailed`, `MarkFailed`, or `MarkLost`
  when the UPDATE itself fails. `Due` is the passing of the backoff.
- `BrokerApply` is the effect of the call, at any time between start and return;
  `LateApply` that of an abandoned one. `Stop` loses the batch.

A call that took effect may still be reported as failed; a call reported as successful
did take effect. Expiry and labels do not influence the outbox and are left out. The
broker is known only by how `brokerexec` uses it: publish creates, revoke removes, both
may be repeated, and revoking what is unknown succeeds.

### ThumbPipeline

`status`, `version`, `claimedAt` are the `thumb_*` columns (`claimedAt` counts claims,
which makes each claim's token unique, as its timestamp is meant to do); `overdue` says
that the claim is a lease timeout old. `item` is the worker's claim in memory with what
it decoded and the next size to write; `stored` holds the objects under (version,
size) with the content they were made from. Enqueue, the sweep and the commit all use
`Requeue`: pending, next version, no claim. `WriteSize` treats an occupied key as
success, as `emitSizes` does. `Finalize` has the WHERE clause's fence. `ClaimBatch`
takes the newest 2 * Concurrency visible rows, and only when the previous batch is done
(`drain`). `LoseItem` is an item whose context expired: `MarkFailed` runs under the same
context, so the row stays claimed until the sweep. `SetHidden` is a change of
`hidden_at`, which only the claim looks at. Contents are numbered from 1; 0 stands for
nothing decoded yet. `Preview` and `Served` are what the others see of a row: an attempt
under way is still pending, and a ready row shows the objects of its version.

### PreviewReader

`ThumbPipeline` with those who read from it, each in two steps: `LookUp` reads the row, of
which only a ready one is answered, and `Open` the object of the version found there, with
any number of steps of the queue and the worker in between. That is how
`service/thumb_service.go`, `SharedReadService.OpenThumb` and the resolver of the AI workers
(`ai/imginput/resolver.go`) are written; there is no lock, and each has a branch for an
object that is gone. `OpenCopy` takes a copy instead, `copies` being the objects in the flash
cache (`storage/flash_cache.go`, under the store's keys) and in browsers (under an ETag of
asset, size and version, `httpapi/media_thumb.go`); `Populate` and `Evict` fill and empty
them at any time, as nothing tells a cache that a thumbnail was replaced. `image` in a
reading is history: what the photo showed when its row was read. Who may read, hidden
photos included, is not decided here.

The module has no run of its own: its three properties are proved.

### Embedding

`thumb`, `image`, `skipped` are the photo (`image` numbers its visual inputs; what
blocks a job, pending, working and failed, is one value "pending"); `failures` is
`ai_failures.attempt_count`; `config` the configured model; `state`, `id`, `count` and
`vec` the generations with their mappings, each vector remembered by the visual input
it was made from. `job` is the one in-flight row the unique index allows per photo. The
worker goes through phases: `ClaimBatch`, `Resolve` per claim, classification
(`BlockClaim`, `SkipClaim`, `RejectClaim`), `ResolveGeneration`, and after the call of
the provider `CommitBatch` or `FailClaims`. A lost claim makes `process` return an
error, which ends `Run` (`Exit`, phase "dead"). `GapScan` lists candidates and
`EnqueueClaim` queues them one at a time, under the model the scan started with.
`ActivatorRead` and `ActivatorPromote` are the two halves of `Tick`.

Simplifications, each without effect on the properties checked:

- Photos are visible and acknowledged: the acknowledgement gate and the hidden filters
  are not modelled.
- One constant `Budget` stands for the limit of the gap scan (5) and of a backfill
  (`MaxRetries`).
- `Compact` does not take the generation a batch in hand is writing to. A generation is
  compacted 30 days after it was retired (configurable), a batch lives for minutes.
- `MarkFailed` and `Failures.Record` are one step, as are the two tables of a mapping.
- Generations are created from settings that differ in model, dimension or input; a
  model stands for the triple.

### AIJobs

One of the two tasks; they share nothing but a semaphore of provider calls. `job` is the
in-flight row the unique index allows per photo and task, with its fingerprint, attempts
and the reason it is blocked for; `result`, `failure` and `skipped` are the rows of
`ai_results` (the active one, with the version of the file it was made from),
`ai_failures` and `ai_skipped`; `content` numbers the versions of the photo's primary
file. A done or failed job is a row nobody reads again: "none".

- Worker: `RunOnce` takes the settings snapshot; the two promotions and `ClaimBatch`
  follow as statements of their own; `handleOne` is one action per statement, from the
  consent (`LookAck`) over the preview (`ResolvePreview`) to the provider. Its ends:
  `MarkBlocked`, `RecordSkip` then `MarkDone`, `WriteAndMarkDone`, `MarkFailed` then
  `RecordFailure`, or the row goes back with one more attempt (`MaybeRetryOrFail`).
- `Held` is the fence of each UPDATE (`status = 'working' AND claimed_at = ?`): one
  worker runs per task and finishes its batch before it claims again, so a claim it has
  in hand is its own exactly when the row is working. `RecordSkip` writes without the
  fence, as the code does.
- Queueing: `EnqueueClaim` keeps a job of the same fingerprint and supersedes another.
  `GapScan`, `Backfill`, `RetryFailed` and `RetryPhoto` first list photos (the gap scan
  at most `Limit`, by id) and `ScanOne` queues them one at a time, with the second look
  of `shouldSkip`. A photo whose job is blocked stays a candidate, so it also stays in the
  list; `Crowded` says that as many of them as the limit stand before a photo.
- `Trouble`: a look-up of owner, consent or thumbnail fails with the database only and
  counts as a fault; the image, the provider and its answer may fail every time.
- Around it: `ThumbSettles`, `Regenerate` (of any set of photos, as a filter selects them),
  `ApplyCommit`, `Acknowledge`, `Apply` (settings), `SweepLease`, `Restart`.

All assets are visible photos, and what a provider answers is only whether it answered.

### Import

The groups of related files are a constant: discovery has no state. `source` is what a
file holds, its size with mtime (`stamp`, which an edit may leave as it was), and whether
it can be reached. `asset`, `holder`, `op` are the catalog: the state of an asset, which
asset a content is reserved for (the unique index of `content_operations` on owner and
digest) and the status of its operation. `recorded` is the digest in `media_files` of the
file a content was reserved for: none before the receipt, that content after it, another
one after a commit. `vault` is what Docbank has at the reserved path: nothing, the reserved
content, another one. `meta` and `projected` record that source metadata was stored, and
that text row and AI job were written. Each worker of the import and the recovery is a
process with its phase and what it knows of the ledger (`proc`).

- `processGroup` is one action per statement or call: `Take` (settle), `Hash`, one
  `Lookup` per content, `Resolve...`, `Reserve` or `ReserveLost`, then per content
  `Revalidate`, `Create`, `Receipt`, and `Project`, `FinalizeReady`, `Index`.
- `RecoverOwner` is `StartRecovery`, `Visit` per asset, `Adopt` per content by a Stat of
  its path, `Adopted`, `EndRecovery`. Importers and recovery exclude each other by the
  lock, workers of one import run at once.
- Faults: `Fails` (a statement or call of one process), `Stop` (all of them), `IndexWarns`.
  Outside: `Edit`, `Mount`, `Foreign` (something else at a reserved path), and `ApplyCommit`:
  a checkout gives a file of a ready asset another content, which no file of the owner has
  recorded. It looks at `media_files` only, so it does not see the reservation of a pending
  import (`checkout/commit_repo.go:61`). `Taken` is what comes of it: the receipt of the
  reserved content is refused by the unique index of `media_files`, in a worker as a failed
  group (`Receipt`), in recovery as its end (`AdoptRefused`).

Owners share nothing, so one owner is modelled. Media types and the relationships within
a group are data. Two orders are fixed without effect: idle workers are alike, so the first
one takes a group (`NextWorker`), and the contents of a group are looked up and stored one
after the other, in an order that carries no meaning (`First`).

### Checkout

`work` is the working file of each entry: its content and its stamp, which stands for
size, modification time and file identity; every save takes a new one. `head` is what the
catalog names as a file's version, `node` what Docbank has. `entry` is the row, with
`known` FALSE where a commit left the identity empty so that the next scan looks again;
`candidate` is the observation that is settling. The creation, the scanner and each
commit are processes with the rows they read at their start (`create.from`, `scan.snap`,
`commit.listed`).

- Creation: `StartCreate`, `Materialize` per file in the version selected at the start,
  `Activate`, `FailCreate`; one a time, by the creation lock. `Retire` takes the write
  side of the lifecycle lock, so nothing else is in progress.
- Scanner: `StartScan` lists the folders, `OpenCheckout` reads state and rows under the
  lock, `Visit` per entry, `HashSettled` and `FinalizeTracked` as two steps with the
  user's edits between them, `MarkEntryMissing`, `EndScan`.
- Commits: `StartCommit` lists the pending rows, then per entry `Target`, `Replace`
  (Docbank's compare-and-replace under the adapter's mutex, with the adoption of a
  version that is already there), `Check`, `ApplyCommit`, or `MarkCommitConflict`.

Left out: files the checkout does not track, which a scan only lists; a change of a
file's media type, which refuses a commit like a hidden file; selection and estimate; path
syntax and working roots that overlap.

### EventBus

`events` and `next` are the ring as the code stores it, `nextID` the id handed out last;
each connection has its channel (`queue`, `ended`), its replay snapshot and the stage of
its handler; each page the Last-Event-ID it would send, and in `loading` whether it has still to fetch its
views. It does so once, when it is loaded (`FetchViews`), at any time before or after its
subscription. `known`, `from`, `sent` and `dropped` are history for the properties: `known`
is what the page was sent, fetched, or was told to fetch. A subscription alone adds nothing
to it, whatever its Last-Event-ID. A critical section of the bus is one step
(`PublishAutoID`, `Close`, `SubscribeFrom`, `Return`), a frame written another
(`WriteCatchup`, `WriteReplay`, `Forward`). An event is its id. `catchup-required` is
taken at its documented meaning: the page knows everything after it. (The frontend
records the flag and nothing reads it: `frontend/src/lib/events/eventsStore.svelte.ts:39`.)

## 3. Runs

Deadlock is not checked in any run: edits, scopes and faults are bounded, and when they
are used up and all work is done the system rightly has nothing to do. Liveness
properties say what must have happened by then.

| Run | Bounds | What it checks |
|---|---|---|
| `MCShareOutbox` | 2 scopes, 1 album, batch 1, 3 attempts, 2 faults, late calls; symmetric scopes | `ActiveIsGranted`, `ClosedIsUngranted`, `WaitingIsReachable`, `RevocationIsFinal` |
| `MCShareLive` | 2 scopes, batch 2, 2 attempts, 1 fault, no late calls | `RevocationSettles`, `PublicationSettles`, refinement `ImplementsGrant` |
| `MCThumbPipeline` | 2 assets, 2 sizes, 1 slot, 1 edit, 1 fault | `ReadyIsCurrent`, `VisibleRowsSettle`, `NoRowWedged` |
| `MCEmbedding` | 2 photos, 2 models, 2 edits, 1 fault, operator promotion; symmetric | `CountIsExact`, `ActiveIsKept`, `StaleByPromotionOnly` |
| `MCEmbedLive` | 2 photos, 2 models, 1 edit, 1 fault | `EveryPhotoSettles`, `CompleteIsActivated` |
| `MCEmbedExit` | 2 photos, 1 model, 1 edit | violation of `ClaimsAreRecovered` |
| `MCAIJobs` | 2 photos, 2 fingerprints, 2 attempts, batch 1, limit 1, 1 edit, 1 fault | `ResultIsCurrent`, `EveryPhotoSettles` |
| `MCAIBlocked` | 1 photo, 1 fingerprint, no edits or faults | violation of `UnsupportedIsSkipped` |
| `MCImport` | groups {f1, f2} and {f3}, 3 contents, 2 assets, 2 workers, 1 edit or commit, 1 fault | `ReadyIsComplete`, `SuccessIsDurable`, `ConflictHasCause`, `UnprojectedIsInterrupted`, `RecoveryIsComplete`, `InterruptedIsFinished`, refinement `ImplementsLedger` |
| `MCCheckout` | 2 files, 1 folder, 1 working copy, 3 contents, 2 commits, 2 edits, 1 fault | `NoEditOverlooked`, `PendingDiffers`, `ConflictHasCause`, `RetiredIsFrozen`, `EditIsNoticed`, refinement `ImplementsLedger` |
| `MCEventBus` | 1 page, ring of 3, channel of 2, 8 events, 1 restart | `StreamIsComplete`, `StreamIsOrdered`, `ShutdownEnds` |
| `MCEventDrop` | 1 page, ring of 2, channel of 2, 5 events | violation of `DropsAreRecovered` |

Every passing safety run checks its module's `TypeOK` as well.

Why these are enough. The hazards are races of one row with a stale copy of it, so one
row and one copy show most of them; a second scope, asset, photo or committer is there
where a batch or a competitor matters.

- *Share.* Two scopes for the order of ListReady; three attempts give one that is neither
  first nor last.
- *Thumbnails.* Two sizes give a state between two writes; two assets with one slot give
  the second half of a batch that waits for a slot. The one edit is a commit or a
  regeneration, the one fault a stop, an overrun lease or a lost update, at any point of any
  attempt; hiding and showing use up neither and happen any number of times.
- *Embeddings.* Two models give one generation in service and one being built; with two
  edits the model can be changed and changed back, or changed and rolled back.
  `Unreadable` is empty: a photo that can never be read never settles (observation 3
  below).
- *AIJobs.* Photos meet in the scan's list and in the worker's batch. With two photos and a
  limit of one, the first can keep the second out of the list; two fingerprints give a job
  that is superseded by a settings change, or that nobody claims until the scan replaces it;
  two attempts give a retry and a last one. The fingerprint in force at first is fixed, as
  they are alike.
- *Import.* The files of the pair hold two contents; the single file holds one of them or a
  third one, so that groups overlap or do not, and an edit makes a repeated content. The third
  content is also what a commit can bring in
  while it is reserved or about to be. Two workers race for a reservation; one change from
  outside and one fault fall anywhere, and any number of further imports and recoveries
  follows.
- *Checkout.* Two committers of one folder with a scanner: a commit that comes second, a
  base that moves under a scan. Three contents let an edit bring back the base, or hit
  the content of the other file. Two edits: one before and one during the commit.
- *EventBus.* The ring wraps twice in eight events, the channel is shorter than the ring
  as in the code (16 and 256), and a restart begins the ids again. Pages share only the
  ring, which none of them changes, so one page is enough.

The theorems of section 5 do not depend on any of these bounds.

### Fairness

- *Share worker:* ListReady, StartCall, the return of a call and the passing of time are
  weakly fair: a ticker calls RunOnce, a command has a timeout. Nothing is assumed of
  the owner or the broker; `MarkFailed` for every call is a fair behaviour.
- *Thumbnails:* the polling and sweeping tickers, each item's next step, and the lease of
  a row nobody works on. That an item ends is an assumption: an item's context does not
  interrupt a decoder.
- *Embedding:* one drain loop (`WorkerStep` as a whole, so the model may always choose
  failure over success), the scan, activator and sweep tickers, and each listed
  candidate's insert. Thumbnails, owners and operators are not obliged to do anything.
  `RestartedSpec` adds an operator who restarts a server whose embed worker has
  exited; without it a photo need not settle, which is what `MCEmbedExit` shows.
- *AIJobs:* the worker's ticker and its steps as a whole (`WorkerStep`, so that a provider may
  fail every time), the gap scan's ticker with its steps as one, an owner's request that has
  begun, the sweep of a claim nobody has in hand, and the thumbnail pipeline, whose rows
  settle by `VisibleRowsSettle`. Not assumed: that a provider ever answers, that an owner
  consents.
- *Import:* whoever holds the import lock goes on (`WF(Work)`), and the operator runs the
  import again and again, however often a recovery has the lock in between
  (`SF(StartImport)`): the documented remedy for an interrupted import. Nothing is
  assumed of recovery. `InterruptedIsFinished` asks nothing for an asset that needs a
  content a commit gave to another file (`Blocked`); see observation 16.
- *Checkout:* the scanner's ticker with its steps, and time, which settles an
  observation. Users and operators owe nothing; commits need not go on.
- *EventBus:* a handler is a goroutine that writes what it has. `ShutdownEnds` therefore
  rests on an assumption about clients: that each write ends. The handler removes its
  connection's write deadline (`httpapi/events.go:343`), so a client that takes nothing more
  without closing can hold its handler inside a write, which `Close` does not interrupt;
  the shutdown then waits for its timeout, after which the server closes the connections by
  force. What is checked is the bus: no handler is left waiting on a channel that nobody
  will close, those that subscribe after `Close` included.

`AIJobs!EveryPhotoSettles` has one exception beside the photos that wait for their owner or
their thumbnail: a photo that as many of those as the scan's limit precede (`Crowded`); see
observation 15.

`Embedding!EveryPhotoSettles` asks something only while the gap scan looks at the
configured generation (`ScanTarget`); see the hazard at `cli/server.go:1442`, and
observation 12 below, for the cases in which it does not.

## 4. Findings

Three statements of the repository that the code does not keep; each is one run.

1. `MCEmbedExit`: a lost claim in `commitBatch` is said to leave the rows to the next
   sweep, but the error ends the worker goroutine, and nothing starts it again.
2. `MCAIBlocked`: unsupported inputs are said to be recorded as skipped. A job claimed
   while its thumbnail is pending is blocked; if the thumbnail then settles without a
   preview, the promotion never looks at the job again, a scan's enqueue keeps the blocked
   row, and the photo is never skipped.
3. `MCEventDrop`: an event dropped by a full channel is said to be made up for by
   `catchup-required` at the next reconnection. Once a later event was delivered, its id
   is what the page reconnects with, and neither the replay nor `catchup-required` covers
   what was dropped.

Met while modelling, and not made runs of their own:

1. `PrepareAlbumDeleteTx` (`share/repo.go:488`) takes `revoked_remote` for safely
   terminal. A publish command that was killed and takes effect after the confirmed
   revocation leaves a grant without a row; `ClosedIsUngranted` and the theorem
   `RevokedRemoteSafe` show that this is the only way.
2. `docs/architecture/product-features.md:92-93` says that hiding does not take an asset
   out of the thumbnail queue; the claim filters `hidden_at` (`thumb/queue.go:77`), so a
   hidden row waits until it is shown. `VisibleRowsSettle` is stated accordingly.
3. The gap scan counts on the failure budget to drop a photo whose preview cannot be
   read, but `classify` parses the claim's digest as a fingerprint, gets the zero value,
   and no failure is recorded (`ai/embedding/worker.go:591`): it is queued at every tick.
4. Retired generations are not invalidated by new thumbnails; promoting one by hand
   serves vectors of replaced images. `VectorsCurrent` excludes such promotions;
   `StalePromoted` shows that nothing else puts such a vector into service.
5. `docs/architecture/search-and-ai.md:107` says results are active only when the
   fingerprint matches; a settings change leaves the old result active until a new one
   replaces it.
6. Contents of a group are looked up one by one (`ingest/importer.go:428`); a worker that
   reserves the group in between makes it look reserved in part, and the import reports a
   conflict where `docs/architecture/content-and-storage.md:39-40` promises to resume. No state is wrong,
   and the next import reports a duplicate.
7. Touching a working file during its commit, without changing it, makes the commit
   non-clean; an entry whose row was rewritten meanwhile is refused although Docbank has
   its bytes. A scan may also overwrite a conflict that was set since it read the row
   (`checkout/scan_repo.go:142`, `:227`); the next commit sets it again.
8. In the branch without a preview the skip is recorded before the claim is checked, and
   `MarkFailed` and `Failures.Record` are two statements, between which a stop loses the
   failure (`ai/worker`, `ai/embedding/worker.go:579`).
9. Event ids begin at 1 after a restart. A page with a larger Last-Event-ID finds no gap
   once the ring is not empty, and gets only events of ids above its own.
10. Settings are committed before they are reloaded
    (`service/appsettings/service.go:164`); if the reload fails the runtime goes on with
    the old ones.
11. `ListReady` puts rows that were never scheduled first (`share/repo.go:287`): a steady
    flow of new scopes would starve retries. `drain` waits for the slowest decoder of its
    batch (`thumb/worker.go:205`), which nothing interrupts.
12. Before the first generation exists, the embedding scan does nothing
    (`cli/server.go:1415`); a first job that is superseded then waits for the generation.
    A photo skipped for want of a preview keeps its skip when a thumbnail does come
    (`ai/embedding/worker.go:626`).
13. `ThumbService.Get` expects "the old blob gets deleted while our reader still holds the
    stale version" (`service/thumb_service.go:71`). Nothing calls `Store.Delete` for a
    thumbnail, so old versions stay and this cannot happen (`LookUpOpens`). The theorem is
    also what a clean-up of old versions would have to give up.
14. `finalize` compares `thumb_version` and `thumb_claimed_at` (`thumb/queue.go:309`). The
    version alone would do (`VersionFence`): every way to lose a claim takes a new version.
15. `ai/gapscanner/scanner.go:164-166` says that the scan makes progress at every interval
    because finished photos do not count against its limit. Photos whose job is blocked, for
    a thumbnail that failed or a consent that does not come, do count, and keep their places
    at the head of the list (it is ordered by id). When there are as many as the limit (200),
    a later photo whose job is under an old fingerprint, or was removed by a commit, is not
    queued. `EveryPhotoSettles` names this case (`Crowded`) and shows that it is the only one.
16. `docs/architecture/content-and-storage.md:39-42` promises that running an import again
    after an interruption resumes it. A commit that gives the content of the pending asset to
    another file is not stopped by the reservation (`checkout/commit_repo.go:61-67` looks at
    `media_files.sha256`, which is NULL until the receipt), and from then on the receipt is
    refused by `media_files_owner_sha256_uq` (`media/asset_repo.go:342`): each import of the
    group fails, and recovery ends with the error before it comes to the assets after it
    (`ingest/recovery.go:87-95`). Only another commit to that file frees the content.
17. Without a Last-Event-ID the handler neither replays nor reports a gap
    (`httpapi/events.go:353-380`). A page that loses its connection before its first event
    reconnects without one, and learns nothing of what was published in between; nor does a
    page whose views were answered before it was subscribed.

## 5. Proofs

All theorems hold for every value of the constants that satisfies the module's named
assumption: any set of scopes, albums, files, folders, groups, workers and committers,
any finite set of assets, photos and models where something is counted, any number of
attempts, sizes, slots, edits and faults. Each module's `IInv` is proved to hold initially
and to be kept by every action, one step of the proof per action.

**`ShareOutboxProofs`.** None of the properties is inductive alone. `IInv` adds what
links a row to the worker's copy of it: `SnapInv` (a row read as pending is now pending
or revoking, one read as revoking still is, and while the phase has not changed neither
have the attempts), `RevokedInv` (`revoked_at` agrees with the status), `CallInv` (a call
that took effect left the grant as it meant to, a late publish aside), `StrayInv` (an
abandoned revocation is of a scope that stays revoked).
Theorems: `TypeCorrect`, `ActiveGranted`, `ClosedUngranted`, `WaitingReachable`,
`RevocationFinal`; and under the assumption that no abandoned call lands late
`RevokedRemoteSafe` (the exact complement of observation 1) and `OutboxImplementsGrant`:
every step of the outbox is a step of `ShareGrant` or a stutter.

**`ThumbPipelineProofs`.** The invariant is per asset. `VersionInv`: no item or object
has a version above the row's, and the item of a row that was queued again is of an older
one. `FreshInv`: an attempt starts under a version without objects, because a version is
claimed once. `WrittenInv`: an item that writes has written the sizes below its next one,
and the objects of its version are all its own. `SourceInv`: while the item's version is
the row's, the content it decoded is the current one, since a commit changes the version
in the same transaction. From these `ReadyIsCurrent` follows at MarkReady.
Theorems: `TypeCorrect`, `ReadyCurrent`, `OccupiedValid`, `PendingUnwritten`.

The refinement needs two more facts per asset (`RInv`). `ClaimInv`: an item whose version
is the row's holds the claim, so a finalising statement that gets through finds the row
working. `ServedInv`: under the version of a ready row there are objects of the present
content only. Then a sweep, a claim, a lost update and a write under a ready row (always
one of an older version) are stutters of `PreviewLedger`, and `MarkReady` is `Render`.
Theorems: `VersionFence`, `PreviewsImplemented`.

**`PreviewReaderProofs`.** `Fixed(m, v, i)`: version v of asset m has all sizes, all of
image i, no item writes under it, and if it is still the row's the row is ready. A ready row
is fixed at its version (`ReadyFixed`), and no step of queue, worker, sweep or commit undoes
that (`FixedKept`), since each either leaves the row alone or takes a new version. A reading
is of a fixed version from its look-up on, a copy of an object that is still there.
Theorems: `ReaderTypeCorrect`, `LookUpOpens`, `ReadAtomic` (two steps without a lock, or a
cached copy, are one atomic read), `CopiesConfirmed` (a confirmed ETag means the present
content).

**`EmbeddingProofs`.** `PhaseInv` (what the batch holds in each phase), `InputInv` (the
input read for a claim that is still held is the photo's present image: a new image
supersedes a claimed job in the same transaction), `NoRowNoVectors` (no mapping without
a generation row), `CurrentInv`, `CountIsExact` and `OneActive`. The counter steps use
lemmas on the cardinality of a set from which one element goes, or to which a batch is
added.
Theorems: `TypeCorrect`, `CountExact`, `ActiveKept`, and `VectorsCurrent` when retired
generations are not promoted by hand, the complement of observation 4. With such
promotions, `StalePromoted`: they alone put a vector of an older image into service, for
which each step is shown to keep, redraw, store or drop the vectors of a photo
(`VectorStep`), redrawing only with a drop from every live generation. `VectorsKept`: a vector
goes with its image or with a retired generation. `PreviewsImplemented`: see
`PreviewLedger` in section 2.

**`AIJobsProofs`.** `CallInv`: while the claim the worker is calling for still holds, what
the provider was sent is of the present file. A commit removes the job with its
transaction, only a claim makes a job working again, and the worker does not claim while
it has a photo in hand (`BatchInv`). `Bounded` ties versions to edits for the types. The
least obvious part of `TypeCorrect` is that no job ever carries `MaxAttempts` attempts.
Theorems: `TypeCorrect`, `ResultCurrent`, `PreviewsImplemented`.

**`ImportProofs`.** Whatever a process knows of the ledger stays true: a reservation is
never moved (`KnownInv`, `AssetInv`), a content never leaves Docbank (`PhaseInv`,
`OpInv`), ready is final, and a conflict takes all operations of its asset with it
(`ConflictIsWhole`), so that no late receipt makes one complete. `LockInv` keeps recovery
and workers apart; while recovery runs, what it is through with is settled.
`ConflictHasCause` needs two more invariants: without an edit, a hash is of what the file
holds, stamps agree and no path has another content (`CalmInv`); and a content that a commit
has replaced belongs to a ready asset (`ReplacedInv`), so that the create it makes Docbank
refuse finds nothing left to mark. `RecoveryIsComplete` needs the second one too: what
recovery is about to project has not been replaced.
Theorems: `TypeCorrect`, `ReadyComplete`, `SuccessDurable`, `ConflictWhole`,
`ConflictCaused`, `AllProjected` (step by step: an earlier fault excuses nothing),
`RecoveryComplete`, `LedgerImplemented` (the refinement of `ImportLedger`).

**`CheckoutProofs`.** Two arguments. Stamps: an edit takes one no row, candidate or scan
has seen, so what was read under a stamp is what the file holds for as long as it has
that stamp (`RowInv`, `WorkInv`, `ScanInv`). Versions: Docbank is at most one version
ahead of the catalog (`VersionInv`), no base leads the catalog (`Based`), and a commit
that has its version in Docbank knows its content (`CallInv`), so the catalog can only
move to what Docbank has, and a commit is refused only behind a newer version.
`CreateInv` says the same of a folder being made.
Theorems: `TypeCorrect`, `EditsSeen`, `PendingNew`, `ConflictCaused`, `RetiredFrozen`,
`LedgerImplemented` (the refinement of `CheckoutLedger`).

**`EventBusProofs`.** `RingInv`: the ring holds the ids handed out last, the one at `next`
being the oldest (`SlotId`), so read from there it is an interval of ids in order
(`RotatedIds`, whatever the size of the ring). `OrderInv`: what a connection has in hand is
newer than what it wrote, its channel newer than its snapshot, nothing newer than the bus.
`StageInv` ties channel and snapshot to the stage of the handler. From these a subscription
covers everything up to the last id at the moment it is made, and each later event goes to
the channel or is recorded as dropped.
Theorems: `TypeCorrect`, `StreamComplete`, `StreamOrdered`, and `LosslessMissesNothing`, which
is about the pages rather than one connection: a registered page that has fetched its views
knows all events, or they are in its snapshot or channel, or it is about to be told to
refetch. It takes three conditions, and each is needed: no channel overflows (`MCEventDrop`
shows what happens otherwise), the server is not restarted (observation 9), and no page
subscribes without an id after it missed an event (`SubscribesWhole`; observation 17). The
invariant behind it (`Whole`) is that what a page has in hand follows its last id without a
hole, across any number of reconnections.

Proved and checked by no run: `OccupiedIsValid`, `PendingIsUnwritten`, `VersionDecides`,
`RevokedRemoteIsSafe`, `ConflictIsWhole`, `VectorsAreKept`, the three
`ImplementsPreviews`, `VectorsAreCurrent` (what `StaleByPromotionOnly` comes to without
promotions), `NothingMissed` and the properties of `PreviewReader`. Each was model-checked on the
instances of section 3 (`PreviewReader` on one asset, one size, one reader, two edits and
one fault) before it was proved.

Only model-checked: all liveness properties (they rest on fairness and ENABLED, which the
prover does not handle) and the violations. Every safety property of a run is a theorem,
those of `Spec` with late calls or promotions by hand under the condition their theorem
names.

## 6. Not modelled, and why

- *Hidden media sessions.* One mutex serialises the service of passcodes, unlock sessions
  and lockouts. What remains is the order of the three transactions of Disable, listed as
  a hazard (`auth/hidden/service.go:149`); a module would restate them.
- *Access to shared photos, search, owners.* Predicates and queries over committed rows,
  decided in one statement or transaction; they keep no state between two steps. (How a
  shared thumbnail is opened is in `PreviewReader`.)
- *Settings.* Only the effect of a change is modelled, not validation, overrides or a
  failing reload (observation 10). Several model changes before the first is built are
  excluded by the conditions of the two liveness properties of `Embedding`.
- *Archives and backup.* One process holds the vault's mutation freeze while it copies;
  correctness lies in file formats and digests.
- *Untracked working files, selection, path syntax, overlapping working roots.*
- *HTTP layer, frontend, CLI, configuration, metadata parsing, geocoding, observability,
  generated clients.* No protocol state. They are the larger part of the source.

What would come next: the AI workers as readers of `PreviewReader`, so that the image they
send is the stored object itself and not what `PreviewLedger` promises; a `Settings` module
with a failing reload; `Retention` as pure operators against a reference definition; the
sessions of hidden media.
