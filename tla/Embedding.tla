------------------------------ MODULE Embedding ------------------------------
(***************************************************************************)
(* Image embeddings of one owner's photos (internal/ai/embedding): the     *)
(* embed jobs of ai_jobs, the worker that turns claimed jobs into vectors, *)
(* the generations (one per model) the vectors belong to, the gap scan     *)
(* that queues what is missing, the activator that puts a generation in    *)
(* service, the compactor, and the three writers that race with a claim:   *)
(* a thumbnail that becomes ready, a checkout commit that replaces the     *)
(* photo, and the lease sweep.                                             *)
(*                                                                         *)
(* A transaction is one step.  The worker takes several per batch and      *)
(* calls the provider between them; the gap scan lists its candidates and  *)
(* then queues them one by one; the activator counts and then promotes.    *)
(* One worker runs, so a job it claimed is still its own exactly when the  *)
(* row is working.  Every photo is visible and its owner has acknowledged  *)
(* processing.  ThumbPipeline has the thumbnail side in detail.            *)
(***************************************************************************)
EXTENDS Integers, FiniteSets

CONSTANTS
    Asset,          \* photos
    Model,          \* what a generation is made with: model, dimension, input
    None,           \* no model
    BatchSize,      \* jobs claimed at a time
    Budget,         \* RetryBudget of the scans
    Threshold,      \* percentage that activates a generation
    Unreadable,     \* photos whose preview object is never readable
    AdminPromotes,  \* retired generations are promoted by the operator
    MaxEdits,       \* bound on settings, regenerate, commit and operator requests
    MaxFaults       \* bound on stops, overrun leases and failed reads

ASSUME EmbeddingAssumption ==
    /\ IsFiniteSet(Asset)
    /\ IsFiniteSet(Model)
    /\ None \notin Model
    /\ BatchSize \in Nat \ {0}
    /\ Budget \in Nat \ {0}
    /\ Threshold \in 1..100
    /\ Unreadable \subseteq Asset
    /\ AdminPromotes \in BOOLEAN
    /\ MaxEdits \in Nat
    /\ MaxFaults \in Nat

VARIABLES
    thumb,      \* thumb_status; what blocks a job is "pending"
    image,      \* number of the photo's visual input
    skipped,    \* ai_skipped has a row
    failures,   \* ai_failures.attempt_count
    config,     \* model of the live settings
    state,      \* embedding_generations.state
    id,         \* its row id, 0 when there is no row
    lastId,     \* AUTOINCREMENT
    vec,        \* visual input each vector was made from, 0 without a mapping
    count,      \* embedded_count
    job,        \* in-flight job
    phase,      \* of the worker
    working,    \* model of the batch in hand
    batch,      \* what became of each claim of the batch
    input,      \* visual input read for it
    scan,       \* listed by a scan and not queued yet
    candidate,  \* generation the activator is about to promote
    edits, faults

assets == <<thumb, image, skipped>>
rows == <<state, id, lastId>>
vectors == <<vec, count>>
worker == <<phase, working, batch, input>>
bounds == <<edits, faults>>
evars == <<assets, failures, config, rows, vectors, job, worker, scan, candidate, bounds>>

NoJob == [status |-> "none", model |-> None]
Job(status, g) == [status |-> status, model |-> g]
Empty == [m \in Asset |-> "none"]
Zero == [m \in Asset |-> 0]

TypeOK ==
    /\ thumb \in [Asset -> {"pending", "ready", "no_preview"}]
    /\ image \in [Asset -> Nat]
    /\ skipped \in [Asset -> BOOLEAN]
    /\ failures \in [Model -> [Asset -> 0..Budget]]
    /\ config \in Model
    /\ state \in [Model -> {"none", "building", "active", "retired"}]
    /\ id \in [Model -> Nat]
    /\ lastId \in Nat
    /\ vec \in [Model -> [Asset -> Nat]]
    /\ count \in [Model -> Nat]
    /\ job \in [Asset -> {NoJob} \cup [status : {"pending", "working", "blocked"}, model : Model]]
    /\ phase \in {"idle", "busy", "calling", "dead"}
    /\ working \in Model \cup {None}
    /\ batch \in [Asset -> {"none", "unread", "pending", "no_preview", "error", "ready"}]
    /\ input \in [Asset -> Nat]
    /\ scan \subseteq Asset \X Model
    /\ candidate \in Model \cup {None}
    /\ edits \in 0..MaxEdits
    /\ faults \in 0..MaxFaults

\* A first import: the importer queued every photo under the configured model.
\* The settings page has created its generation; the config file has not.
Init ==
    /\ thumb = [m \in Asset |-> "pending"]
    /\ image = Zero
    /\ skipped = [m \in Asset |-> FALSE]
    /\ failures = [g \in Model |-> Zero]
    /\ config \in Model
    /\ \E s \in {"none", "building"} :
         state = [g \in Model |-> IF g = config THEN s ELSE "none"]
    /\ id = [g \in Model |-> IF state[g] = "none" THEN 0 ELSE 1]
    /\ lastId = IF state[config] = "none" THEN 0 ELSE 1
    /\ vec = [g \in Model |-> Zero]
    /\ count = [g \in Model |-> 0]
    /\ job = [m \in Asset |-> Job("pending", config)]
    /\ phase = "idle"
    /\ working = None
    /\ batch = Empty
    /\ input = Zero
    /\ scan = {}
    /\ candidate = None
    /\ edits = 0
    /\ faults = 0

Edit == edits < MaxEdits /\ edits' = edits + 1
Fault == faults < MaxFaults /\ faults' = faults + 1

-----------------------------------------------------------------------------
(* Thumbnails and content.                                                 *)

Live == {g \in Model : state[g] \in {"building", "active"}}
MappedIn(m) == {g \in Live : vec[g][m] # 0}

\* Mutant: every live generation is decremented.
DropMappingsOfAll(m) ==
    /\ vec' = [g \in Model |-> IF g \in Live THEN [vec[g] EXCEPT ![m] = 0] ELSE vec[g]]
    /\ count' = [g \in Model |-> IF g \in Live THEN count[g] - 1 ELSE count[g]]

\* Mappings of the live generations; retired ones are frozen.
DropMappings(m) ==
    /\ vec' = [g \in Model |-> IF g \in Live THEN [vec[g] EXCEPT ![m] = 0] ELSE vec[g]]
    /\ count' = [g \in Model |-> IF g \in MappedIn(m) THEN count[g] - 1 ELSE count[g]]

\* Mutant: the same rule for a claimed job as for a waiting one.
SupersededIfMapped(m) == MappedIn(m) # {}

\* A claimed job always; a waiting one only if a mapping was invalidated, so
\* that the first thumbnail leaves the job of the import alone.
Superseded(m) == job[m].status = "working" \/ MappedIn(m) # {}

OnThumbRegen(m) ==
    /\ DropMappings(m)
    /\ job' = IF Superseded(m) THEN [job EXCEPT ![m] = NoJob] ELSE job

NewImage(m) == image' = [image EXCEPT ![m] = @ + 1]

\* MarkReadyWithHook.
ThumbReady(m) ==
    /\ thumb[m] = "pending"
    /\ thumb' = [thumb EXCEPT ![m] = "ready"]
    /\ NewImage(m)
    /\ OnThumbRegen(m)
    /\ UNCHANGED <<skipped, failures, config, rows, worker, scan, candidate, bounds>>

ThumbNoPreview(m) ==
    /\ thumb[m] = "pending"
    /\ thumb' = [thumb EXCEPT ![m] = "no_preview"]
    /\ UNCHANGED <<image, skipped, failures, config, rows, vectors, job, worker, scan, candidate,
                   bounds>>

\* A regenerate request.
Regenerate(m) ==
    /\ thumb[m] # "pending"
    /\ thumb' = [thumb EXCEPT ![m] = "pending"]
    /\ Edit
    /\ UNCHANGED <<image, skipped, failures, config, rows, vectors, job, worker, scan, candidate,
                   faults>>

\* invalidatePrimaryDerivedWork, in the transaction of the commit.
ApplyCommit(m) ==
    /\ thumb' = [thumb EXCEPT ![m] = "pending"]
    /\ NewImage(m)
    /\ DropMappings(m)
    /\ job' = [job EXCEPT ![m] = NoJob]
    /\ failures' = [g \in Model |-> [failures[g] EXCEPT ![m] = 0]]
    /\ skipped' = [skipped EXCEPT ![m] = FALSE]
    /\ Edit
    /\ UNCHANGED <<config, rows, worker, scan, candidate, faults>>

-----------------------------------------------------------------------------
(* Generations.                                                            *)

\* A row is found in whatever state it is in.
FindOrCreateBuilding(g) ==
    IF state[g] # "none" THEN UNCHANGED rows
      ELSE /\ state' = [state EXCEPT ![g] = "building"]
           /\ id' = [id EXCEPT ![g] = lastId + 1]
           /\ lastId' = lastId + 1

\* New embedding settings.
Apply(g) ==
    /\ g # config
    /\ config' = g
    /\ FindOrCreateBuilding(g)
    /\ Edit
    /\ UNCHANGED <<assets, failures, vectors, job, worker, scan, candidate, faults>>

Building == {g \in Model : state[g] = "building"}
Active == {g \in Model : state[g] = "active"}

\* FindBuilding: the oldest one.
Oldest(g) == g \in Building /\ \A h \in Building : id[g] <= id[h]

\* The one active generation, if any, is retired in the same transaction.
Promote(g) ==
    state' = [h \in Model |-> IF h = g THEN "active"
                              ELSE IF h \in Active THEN "retired" ELSE state[h]]

Eligible == {m \in Asset : thumb[m] = "ready" /\ ~skipped[m]}
Embedded(g) == {m \in Eligible : vec[g][m] # 0}

Complete(g) ==
    /\ Eligible # {}
    /\ (Cardinality(Embedded(g)) * 100) \div Cardinality(Eligible) >= Threshold

\* Mutant: skipped photos count as missing.
ActivatorReadAll ==
    /\ candidate = None
    /\ \E g \in Model :
         /\ Oldest(g)
         /\ Complete(g)
         /\ \A m \in Asset : thumb[m] = "ready" => m \in Embedded(g)
         /\ candidate' = g
    /\ UNCHANGED <<assets, failures, config, rows, vectors, job, worker, scan, bounds>>

\* Tick up to its decision.
ActivatorRead ==
    /\ candidate = None
    /\ \E g \in Model : Oldest(g) /\ Complete(g) /\ candidate' = g
    /\ UNCHANGED <<assets, failures, config, rows, vectors, job, worker, scan, bounds>>

\* PromoteFromBuilding rolls back when the row is no longer building.
ActivatorPromote ==
    /\ candidate # None
    /\ IF state[candidate] = "building" THEN Promote(candidate) ELSE UNCHANGED state
    /\ candidate' = None
    /\ UNCHANGED <<assets, failures, config, id, lastId, vectors, job, worker, scan, bounds>>

\* "promote-generation" of the command line.
PromoteRetired(g) ==
    /\ AdminPromotes
    /\ state[g] = "retired"
    /\ Promote(g)
    /\ Edit
    /\ UNCHANGED <<assets, failures, config, id, lastId, vectors, job, worker, scan, candidate,
                   faults>>

\* Mutant: the DELETE loses its state condition.
CompactAny(g) ==
    /\ state[g] # "none"
    /\ working # g
    /\ state' = [state EXCEPT ![g] = "none"]
    /\ id' = [id EXCEPT ![g] = 0]
    /\ vec' = [vec EXCEPT ![g] = Zero]
    /\ count' = [count EXCEPT ![g] = 0]
    /\ UNCHANGED <<assets, failures, config, lastId, job, worker, scan, candidate, bounds>>

\* The row, its mappings and its table.  No batch is in hand for as long as
\* a retired generation is kept (30 days unless configured).
Compact(g) ==
    /\ state[g] = "retired"
    /\ working # g
    /\ state' = [state EXCEPT ![g] = "none"]
    /\ id' = [id EXCEPT ![g] = 0]
    /\ vec' = [vec EXCEPT ![g] = Zero]
    /\ count' = [count EXCEPT ![g] = 0]
    /\ UNCHANGED <<assets, failures, config, lastId, job, worker, scan, candidate, bounds>>

-----------------------------------------------------------------------------
(* Scans.                                                                  *)

\* resolveGapScanGeneration.
ScanTarget(g) == Oldest(g) \/ (Building = {} /\ g \in Active)

\* Mutant: any in-flight job excludes the photo.
CandidatesWithoutJob(g) ==
    {m \in Asset : /\ thumb[m] = "ready"
                   /\ vec[g][m] = 0
                   /\ ~skipped[m]
                   /\ failures[config][m] < Budget
                   /\ job[m] = NoJob}

\* embedCandidates: gaps of generation g, jobs and failures of the settings.
Candidates(g) ==
    {m \in Asset : /\ thumb[m] = "ready"
                   /\ vec[g][m] = 0
                   /\ ~skipped[m]
                   /\ failures[config][m] < Budget
                   /\ job[m].model # config}

\* The tick of runEmbedGapScan.
GapScan ==
    /\ scan = {}
    /\ \E g \in Model :
         /\ ScanTarget(g)
         /\ Candidates(g) # {}
         /\ scan' = Candidates(g) \X {config}
    /\ UNCHANGED <<assets, failures, config, rows, vectors, job, worker, candidate, bounds>>

\* A backfill request scans the configured model's own generation.
Backfill ==
    /\ FindOrCreateBuilding(config)
    /\ scan' = scan \cup (Candidates(config) \X {config})
    /\ Edit
    /\ UNCHANGED <<assets, failures, config, vectors, job, worker, candidate, faults>>

\* EnqueueClaim: a job under the same fingerprint stays, another is superseded.
EnqueueClaim(m, g) ==
    /\ <<m, g>> \in scan
    /\ scan' = scan \ {<<m, g>>}
    /\ job' = IF job[m].model = g THEN job ELSE [job EXCEPT ![m] = Job("pending", g)]
    /\ UNCHANGED <<assets, failures, config, rows, vectors, worker, candidate, bounds>>

-----------------------------------------------------------------------------
(* The worker.                                                             *)

InBatch == {m \in Asset : batch[m] # "none"}
Held(m) == job[m].status = "working"

\* PromoteThumbReadyBlocked.
Unblocked(m) ==
    IF job[m].status = "blocked" /\ thumb[m] = "ready" THEN Job("pending", job[m].model)
      ELSE job[m]

Claimable == {m \in Asset : Unblocked(m) = Job("pending", config)}

ClaimBatch ==
    /\ phase = "idle"
    /\ \E S \in SUBSET Claimable :
         /\ Cardinality(S) <= BatchSize
         /\ Cardinality(S) = BatchSize \/ S = Claimable
         /\ job' = [m \in Asset |-> IF m \in S THEN Job("working", config) ELSE Unblocked(m)]
         /\ batch' = [m \in Asset |-> IF m \in S THEN "unread" ELSE "none"]
         /\ IF S = {} THEN UNCHANGED <<phase, working>> ELSE phase' = "busy" /\ working' = config
    /\ UNCHANGED <<assets, failures, config, rows, vectors, input, scan, candidate, bounds>>

\* ResolvePreviewJPEG.
Read(m, outcome, i) ==
    /\ batch[m] = "unread"
    /\ batch' = [batch EXCEPT ![m] = outcome]
    /\ input' = [input EXCEPT ![m] = i]
    /\ UNCHANGED <<assets, failures, config, rows, vectors, job, phase, working, scan, candidate,
                   edits>>

Resolve(m) ==
    /\ IF thumb[m] # "ready" THEN Read(m, thumb[m], 0)
         ELSE IF m \in Unreadable THEN Read(m, "error", 0) ELSE Read(m, "ready", image[m])
    /\ UNCHANGED faults

ResolveFails(m) == Read(m, "error", 0) /\ Fault

\* The claims of S are settled; without any left Run claims again.
Leave(S) ==
    /\ batch' = [m \in Asset |-> IF m \in S THEN "none" ELSE batch[m]]
    /\ input' = [m \in Asset |-> IF m \in S THEN 0 ELSE input[m]]
    /\ IF InBatch \subseteq S THEN phase' = "idle" /\ working' = None
         ELSE UNCHANGED <<phase, working>>

\* process returned an error: Run returns, and its goroutine only reports it.
Exit ==
    /\ phase' = "dead"
    /\ working' = None
    /\ batch' = Empty
    /\ input' = Zero

Release(S) == [m \in Asset |-> IF m \in S /\ Held(m) THEN NoJob ELSE job[m]]

\* classify starts when every claim is resolved.
Classifying == phase = "busy" /\ \A m \in Asset : batch[m] # "unread"

\* MarkBlocked.  A lost claim is an error of process.
BlockClaim(m) ==
    /\ Classifying
    /\ batch[m] = "pending"
    /\ IF Held(m) THEN job' = [job EXCEPT ![m].status = "blocked"] /\ Leave({m})
         ELSE UNCHANGED job /\ Exit
    /\ UNCHANGED <<assets, failures, config, rows, vectors, scan, candidate, bounds>>

\* The skip is recorded first, then the job is done.
SkipClaim(m) ==
    /\ Classifying
    /\ batch[m] = "no_preview"
    /\ skipped' = [skipped EXCEPT ![m] = TRUE]
    /\ job' = Release({m})
    /\ IF Held(m) THEN Leave({m}) ELSE Exit
    /\ UNCHANGED <<thumb, image, failures, config, rows, vectors, scan, candidate, bounds>>

\* recordTerminalFailure.  The claim fingerprint is a digest, so
\* parseFingerprint yields the zero value and no failure is recorded.
RejectClaim(m) ==
    /\ Classifying
    /\ batch[m] = "error"
    /\ job' = Release({m})
    /\ Leave({m})
    /\ UNCHANGED <<assets, failures, config, rows, vectors, scan, candidate, bounds>>

\* processGroup up to the call of the provider.
ResolveGeneration ==
    /\ Classifying
    /\ \A m \in InBatch : batch[m] = "ready"
    /\ FindOrCreateBuilding(working)
    /\ phase' = "calling"
    /\ UNCHANGED <<assets, failures, config, vectors, job, working, batch, input, scan, candidate,
                   bounds>>

\* recordTerminalFailure of all claims (the provider failed) or of some (they
\* did not encode); the failure is recorded for a claim still held.
FailClaims(S) ==
    /\ phase = "calling"
    /\ job' = Release(S)
    /\ failures' = [failures EXCEPT ![working] =
         [m \in Asset |-> IF m \in S /\ Held(m) /\ @[m] < Budget THEN @[m] + 1 ELSE @[m]]]
    /\ Leave(S)
    /\ UNCHANGED <<assets, config, rows, vectors, scan, candidate, bounds>>

\* Mutant: a replaced vector is counted as a new one.
CommitBatchCountingAll ==
    /\ phase = "calling"
    /\ IF \A m \in InBatch : Held(m)
         THEN /\ vec' = [vec EXCEPT ![working] =
                   [m \in Asset |-> IF m \in InBatch THEN input[m] ELSE @[m]]]
              /\ count' = [count EXCEPT ![working] = @ + Cardinality(InBatch)]
              /\ failures' = [failures EXCEPT ![working] =
                   [m \in Asset |-> IF m \in InBatch THEN 0 ELSE @[m]]]
              /\ job' = Release(InBatch)
              /\ Leave(InBatch)
         ELSE UNCHANGED <<vectors, failures, job>> /\ Exit
    /\ UNCHANGED <<assets, config, rows, scan, candidate, bounds>>

\* One transaction for the batch: one lost claim rolls all of it back.
CommitBatch ==
    /\ phase = "calling"
    /\ IF \A m \in InBatch : Held(m)
         THEN /\ vec' = [vec EXCEPT ![working] =
                   [m \in Asset |-> IF m \in InBatch THEN input[m] ELSE @[m]]]
              /\ count' = [count EXCEPT ![working] =
                   @ + Cardinality({m \in InBatch : vec[working][m] = 0})]
              /\ failures' = [failures EXCEPT ![working] =
                   [m \in Asset |-> IF m \in InBatch THEN 0 ELSE @[m]]]
              /\ job' = Release(InBatch)
              /\ Leave(InBatch)
         ELSE UNCHANGED <<vectors, failures, job>> /\ Exit
    /\ UNCHANGED <<assets, config, rows, scan, candidate, bounds>>

\* A claim whose lease ran out; one the worker still has in hand overran it.
SweepLease(m) ==
    /\ job[m].status = "working"
    /\ job' = [job EXCEPT ![m].status = "pending"]
    /\ IF m \in InBatch THEN Fault ELSE UNCHANGED faults
    /\ UNCHANGED <<assets, failures, config, rows, vectors, worker, scan, candidate, edits>>

\* The process restarts: a fault, or what an operator does about a worker
\* that has exited.
Restart ==
    /\ IF phase = "dead" THEN UNCHANGED faults ELSE Fault
    /\ phase' = "idle"
    /\ working' = None
    /\ batch' = Empty
    /\ input' = Zero
    /\ scan' = {}
    /\ candidate' = None
    /\ UNCHANGED <<assets, failures, config, rows, vectors, job, edits>>

-----------------------------------------------------------------------------
WorkerStep ==
    \/ ClaimBatch
    \/ \E m \in Asset : Resolve(m) \/ BlockClaim(m) \/ SkipClaim(m) \/ RejectClaim(m)
    \/ ResolveGeneration
    \/ \E S \in (SUBSET InBatch) \ {{}} : FailClaims(S)
    \/ CommitBatch

Next ==
    \/ \E m \in Asset : ThumbReady(m) \/ ThumbNoPreview(m) \/ Regenerate(m) \/ ApplyCommit(m)
    \/ \E g \in Model : Apply(g) \/ PromoteRetired(g) \/ Compact(g)
    \/ ActivatorRead
    \/ ActivatorPromote
    \/ GapScan
    \/ Backfill
    \/ \E m \in Asset, g \in Model : EnqueueClaim(m, g)
    \/ WorkerStep
    \/ \E m \in Asset : ResolveFails(m) \/ SweepLease(m)
    \/ Restart

Spec == Init /\ [][Next]_evars

\* Run keeps draining; the tickers of the scan, the sweep and the activator
\* fire; a listed candidate is queued.  Nothing restarts an exited worker.
Fairness ==
    /\ WF_evars(WorkerStep)
    /\ WF_evars(GapScan)
    /\ WF_evars(ActivatorRead)
    /\ WF_evars(ActivatorPromote)
    /\ \A m \in Asset : WF_evars(m \notin InBatch /\ SweepLease(m))
    /\ \A m \in Asset, g \in Model : WF_evars(EnqueueClaim(m, g))

FairSpec == Spec /\ Fairness

\* The operator restarts a server whose worker has exited.
RestartedSpec == FairSpec /\ WF_evars(phase = "dead" /\ Restart)

-----------------------------------------------------------------------------
(* Properties.                                                             *)

\* A vector of a generation that is or may come into service was made from
\* the photo's present visual input, whatever raced with its claim.
VectorsAreCurrent == \A g \in Live, m \in Asset : vec[g][m] \in {0, image[m]}

\* embedded_count, kept by increments and decrements in five places, is the
\* number of mappings.
CountIsExact == \A g \in Model : count[g] = Cardinality({m \in Asset : vec[g][m] # 0})

Stale(g, m) == g \in Live /\ vec[g][m] \notin {0, image[m]}

\* Also where operators promote retired generations, nothing else makes a
\* vector in service one of an older image.
StaleByPromotionOnly ==
    [][\A g \in Model, m \in Asset :
          Stale(g, m)' => Stale(g, m) \/ (state[g] = "retired" /\ state'[g] = "active")]_evars

\* What was embedded is given up only with its image or with a retired
\* generation.
VectorsAreKept ==
    [][\A g \in Model, m \in Asset :
          vec[g][m] # 0 /\ vec'[g][m] = 0 =>
              image'[m] # image[m] \/ (state[g] = "retired" /\ state'[g] = "none")]_evars

\* Search never loses its generation: from the first activation on exactly
\* one is active.
ActiveIsKept == [][Active # {} => Cardinality(Active') = 1]_evars

\* A photo with a preview ends up embedded in the configured generation, or
\* skipped, or out of retries, however often its claim was lost, as long as
\* its preview is readable and the gap scan looks at that generation.
EveryPhotoSettles ==
    \A m \in Asset \ Unreadable :
        []<>(\/ thumb[m] # "ready"
             \/ skipped[m]
             \/ failures[config][m] >= Budget
             \/ vec[config][m] # 0
             \/ ~ScanTarget(config))

\* A building generation that has reached the threshold and is next in turn
\* is activated, unless photos are lost to it first.
CompleteIsActivated ==
    \A g \in Model :
        (Oldest(g) /\ Complete(g)) ~> (g \in Active \/ ~Complete(g))

\* "commitBatch's failures all leave the rows in 'working' so the next claim
\* sweep recovers them": a claim that reached the commit is settled after all.
ClaimsAreRecovered ==
    \A m \in Asset :
        (phase = "calling" /\ m \in InBatch /\ Held(m)) ~> job[m].status \in {"none", "blocked"}

\* The worker is shown the present image; the rest of this module leaves the
\* previews to those PreviewLedger allows to touch them.
Previews == INSTANCE PreviewLedger WITH
    preview <- thumb,
    served <- [m \in Asset |-> IF thumb[m] = "ready" THEN {image[m]} ELSE {}]
ImplementsPreviews == Previews!Spec
=============================================================================
