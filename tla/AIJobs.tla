------------------------------- MODULE AIJobs -------------------------------
(***************************************************************************)
(* Tags and captions (internal/ai/jobs, ai/worker, ai/gapscanner): the     *)
(* ai_jobs rows of one task, the worker that turns a claimed job into an   *)
(* active result, a failure or a skip, the gap scan that queues what is    *)
(* missing, the owner's backfill and retry requests, and what races with   *)
(* a claim: a settings change, a checkout commit, the thumbnail pipeline,  *)
(* the owner's consent and the lease sweep.                                *)
(*                                                                         *)
(* A statement or transaction is one step; the worker takes several per    *)
(* claim and calls the provider between them, a scan lists its candidates  *)
(* and then queues them one by one.  The two tasks share nothing but a     *)
(* semaphore, so one task is modelled.  One worker runs per task and ends  *)
(* its batch before it claims again, so a job it claimed is still its own  *)
(* exactly when the row is working.  All assets are ready photos.          *)
(***************************************************************************)
EXTENDS Integers, FiniteSets

CONSTANTS
    Asset,        \* photos: their ids, in the order the scan lists them
    Principal,    \* owners
    OwnerOf,      \* owner of each photo
    Model,        \* fingerprints: model, prompt and input profile
    None,         \* no model, no photo
    BatchSize,    \* jobs claimed at a time
    MaxAttempts,  \* MaxJobAttempts
    Limit,        \* candidates of one gap scan
    MaxEdits,     \* bound on settings, commits, regenerations and requests
    MaxFaults     \* bound on stops, overrun leases and failed look-ups

ASSUME AIJobsAssumption ==
    /\ Asset \subseteq Nat
    /\ IsFiniteSet(Asset)
    /\ OwnerOf \in [Asset -> Principal]
    /\ None \notin Model \cup Asset
    /\ BatchSize \in Nat \ {0}
    /\ MaxAttempts \in Nat \ {0}
    /\ Limit \in Nat \ {0}
    /\ MaxEdits \in Nat
    /\ MaxFaults \in Nat

VARIABLES
    content,    \* version of the photo's primary file
    thumb,      \* thumb_status; "working" is "pending"
    acked,      \* owners who acknowledged AI processing
    config,     \* fingerprint of the live settings
    enabled,    \* the task is enabled in them
    result,     \* the active ai_results row and what it was made from
    failure,    \* fingerprints with an ai_failures row
    skipped,    \* ai_skipped has a row
    job,        \* the in-flight ai_jobs row
    phase,      \* of RunOnce
    using,      \* settings snapshot of the batch in hand
    hand,       \* its claims that are not handled yet
    item,       \* the claim in hand
    scan,       \* the gap scan and the owner's request
    edits, faults

media == <<content, thumb, acked>>
settings == <<config, enabled>>
outcomes == <<result, failure, skipped>>
worker == <<phase, using, hand, item>>
bounds == <<edits, faults>>
avars == <<media, settings, outcomes, job, worker, scan, bounds>>

NoResult == [model |-> None, image |-> 0]
NoJob == [status |-> "none", model |-> None, attempts |-> 0, reason |-> "none"]
Pending(g) == [status |-> "pending", model |-> g, attempts |-> 0, reason |-> "none"]
NoItem == [asset |-> None, at |-> "none", image |-> 0]
NoScan == [todo |-> {}, clear |-> {}, model |-> None, force |-> FALSE]
Scanner == {"gap", "owner"}

TypeOK ==
    /\ content \in [Asset -> 1..(MaxEdits + 1)]
    /\ thumb \in [Asset -> {"pending", "ready", "no_preview", "failed"}]
    /\ acked \subseteq Principal
    /\ config \in Model
    /\ enabled \in BOOLEAN
    /\ result \in [Asset -> [model : Model \cup {None}, image : 0..(MaxEdits + 1)]]
    /\ failure \in [Asset -> SUBSET Model]
    /\ skipped \in [Asset -> BOOLEAN]
    /\ job \in [Asset -> {NoJob} \cup
         [status : {"pending", "working", "blocked"}, model : Model,
          attempts : 0..(MaxAttempts - 1), reason : {"none", "ack", "thumb"}]]
    /\ \A m \in Asset : job[m].status = "blocked" <=> job[m].reason # "none"
    /\ phase \in {"idle", "acked", "thumbs", "claim", "work"}
    /\ using \in Model \cup {None}
    /\ hand \subseteq Asset
    /\ item \in [asset : Asset \cup {None}, image : 0..(MaxEdits + 1),
         at : {"none", "owner", "unacked", "preview", "unready", "previewless",
               "skipping", "calling", "failing"}]
    /\ scan \in [Scanner -> [todo : SUBSET Asset, clear : SUBSET Asset,
                             model : Model \cup {None}, force : BOOLEAN]]
    /\ edits \in 0..MaxEdits
    /\ faults \in 0..MaxFaults

\* An import: the importer queued every photo under the live settings.
Init ==
    /\ content = [m \in Asset |-> 1]
    /\ thumb = [m \in Asset |-> "pending"]
    /\ acked = {}
    /\ config \in Model
    /\ enabled = TRUE
    /\ result = [m \in Asset |-> NoResult]
    /\ failure = [m \in Asset |-> {}]
    /\ skipped = [m \in Asset |-> FALSE]
    /\ job = [m \in Asset |-> Pending(config)]
    /\ phase = "idle"
    /\ using = None
    /\ hand = {}
    /\ item = NoItem
    /\ scan = [k \in Scanner |-> NoScan]
    /\ edits = 0
    /\ faults = 0

Edit == edits < MaxEdits /\ edits' = edits + 1 /\ UNCHANGED faults
Fault == faults < MaxFaults /\ faults' = faults + 1 /\ UNCHANGED edits

-----------------------------------------------------------------------------
(* Around the queue.                                                       *)

\* The thumbnail pipeline, whose rows ThumbPipeline shows to be current.
ThumbSettles(m) ==
    /\ thumb[m] = "pending"
    /\ \E s \in {"ready", "no_preview", "failed"} : thumb' = [thumb EXCEPT ![m] = s]
    /\ UNCHANGED <<content, acked, settings, outcomes, job, worker, scan, bounds>>

\* A request names any photos; those that wait already stay as they are.
Regenerate(S) ==
    /\ \E m \in S : thumb[m] # "pending"
    /\ thumb' = [m \in Asset |-> IF m \in S THEN "pending" ELSE thumb[m]]
    /\ Edit
    /\ UNCHANGED <<content, acked, settings, outcomes, job, worker, scan>>

\* A checkout commit replaces the primary file; one transaction.
ApplyCommit(m) ==
    /\ Edit
    /\ content' = [content EXCEPT ![m] = @ + 1]
    /\ thumb' = [thumb EXCEPT ![m] = "pending"]
    /\ result' = [result EXCEPT ![m] = NoResult]
    /\ job' = [job EXCEPT ![m] = NoJob]
    /\ failure' = [failure EXCEPT ![m] = {}]
    /\ skipped' = [skipped EXCEPT ![m] = FALSE]
    /\ UNCHANGED <<acked, settings, worker, scan>>

Acknowledge(p) ==
    /\ p \notin acked
    /\ acked' = acked \cup {p}
    /\ UNCHANGED <<content, thumb, settings, outcomes, job, worker, scan, bounds>>

\* Settings are stored and reloaded; rows of the old fingerprint stay.
Apply(g, on) ==
    /\ Edit
    /\ <<g, on>> # settings
    /\ config' = g
    /\ enabled' = on
    /\ UNCHANGED <<media, outcomes, job, worker, scan>>

-----------------------------------------------------------------------------
(* Queueing.                                                               *)

\* A job in flight under the same fingerprint is kept, another is superseded.
EnqueueClaim(m, g) ==
    job' = [job EXCEPT ![m] = IF @.model = g THEN @ ELSE Pending(g)]

HasOutcome(m, g) == result[m].model = g \/ g \in failure[m] \/ skipped[m]

\* Mutant: the limit counts finished photos.
CandidatesAll(g) == Asset

Candidates(g) == {m \in Asset : ~HasOutcome(m, g)}
First(S) == {m \in S : Cardinality({n \in S : n < m}) < Limit}
Of(p) == {m \in Asset : OwnerOf[m] = p}

Begin(k, todo, clear, force) ==
    scan' = [scan EXCEPT ![k] = [todo |-> todo, clear |-> clear, model |-> config, force |-> force]]

\* A tick of the gap scan lists its candidates.
GapScan ==
    /\ enabled
    /\ scan["gap"].todo = {}
    /\ Candidates(config) # {}
    /\ Begin("gap", First(Candidates(config)), {}, FALSE)
    /\ UNCHANGED <<media, settings, outcomes, job, worker, bounds>>

OwnerIdle == scan["owner"].todo = {} /\ scan["owner"].clear = {}

Backfill(p, force) ==
    /\ OwnerIdle
    /\ p \in acked
    /\ Edit
    /\ Begin("owner", IF force THEN Of(p) ELSE Candidates(config) \cap Of(p), {}, force)
    /\ UNCHANGED <<media, settings, outcomes, job, worker>>

\* The listed failures are deleted, then their photos queued.
RetryFailed(p) ==
    LET listed == {m \in Of(p) : config \in failure[m]}
    IN  /\ OwnerIdle
        /\ p \in acked
        /\ Edit
        /\ failure' = [m \in Asset |-> IF m \in listed THEN failure[m] \ {config} ELSE failure[m]]
        /\ Begin("owner", listed, {}, TRUE)
        /\ UNCHANGED <<media, settings, result, skipped, job, worker>>

\* The photo is queued, then its failure deleted.
RetryPhoto(m) ==
    /\ OwnerIdle
    /\ OwnerOf[m] \in acked
    /\ Edit
    /\ Begin("owner", {m}, {m}, TRUE)
    /\ UNCHANGED <<media, settings, outcomes, job, worker>>

\* Scan comes to a candidate; shouldSkip looks again.
ScanOne(k, m) ==
    /\ m \in scan[k].todo
    /\ IF ~scan[k].force /\ HasOutcome(m, scan[k].model) THEN UNCHANGED job
         ELSE EnqueueClaim(m, scan[k].model)
    /\ scan' = [scan EXCEPT ![k] = IF scan[k].todo = {m} /\ scan[k].clear = {} THEN NoScan
                                     ELSE [scan[k] EXCEPT !.todo = scan[k].todo \ {m}]]
    /\ UNCHANGED <<media, settings, outcomes, worker, bounds>>

ClearFailure(m) ==
    /\ scan["owner"].todo = {}
    /\ m \in scan["owner"].clear
    /\ failure' = [failure EXCEPT ![m] = @ \ {scan["owner"].model}]
    /\ scan' = [scan EXCEPT !["owner"] = NoScan]
    /\ UNCHANGED <<media, settings, result, skipped, job, worker, bounds>>

-----------------------------------------------------------------------------
(* The worker.                                                             *)

\* RunOnce takes a snapshot of the settings.
RunOnce ==
    /\ phase = "idle"
    /\ enabled
    /\ using' = config
    /\ phase' = "acked"
    /\ UNCHANGED <<media, settings, outcomes, job, hand, item, scan, bounds>>

Unblock(S) ==
    job' = [m \in Asset |->
             IF m \in S THEN [job[m] EXCEPT !.status = "pending", !.reason = "none"] ELSE job[m]]

PromoteAckedBlocked ==
    /\ phase = "acked"
    /\ Unblock({m \in Asset : job[m].reason = "ack" /\ OwnerOf[m] \in acked})
    /\ phase' = "thumbs"
    /\ UNCHANGED <<media, settings, outcomes, using, hand, item, scan, bounds>>

PromoteThumbReadyBlocked ==
    /\ phase = "thumbs"
    /\ Unblock({m \in Asset : job[m].reason = "thumb" /\ thumb[m] = "ready"})
    /\ phase' = "claim"
    /\ UNCHANGED <<media, settings, outcomes, using, hand, item, scan, bounds>>

Claimable == {m \in Asset : job[m].status = "pending" /\ job[m].model = using}

\* Up to BatchSize jobs, oldest first: any, as jobs are requeued in any order.
ClaimBatch ==
    /\ phase = "claim"
    /\ \E S \in SUBSET Claimable :
         /\ Cardinality(S) <= BatchSize
         /\ Cardinality(S) = BatchSize \/ S = Claimable
         /\ job' = [m \in Asset |-> IF m \in S THEN [job[m] EXCEPT !.status = "working"] ELSE job[m]]
         /\ hand' = S
         /\ phase' = IF S = {} THEN "idle" ELSE "work"
    /\ UNCHANGED <<media, settings, outcomes, using, item, scan, bounds>>

Held(m) == job[m].status = "working"
Handling(m, stage) == item.asset = m /\ item.at = stage
Goto(stage) == item' = [item EXCEPT !.at = stage] /\ UNCHANGED <<phase, using, hand>>

\* handleOne returns; RunOnce after the last claim.
Return ==
    /\ item' = NoItem
    /\ phase' = IF hand = {} THEN "idle" ELSE phase
    /\ UNCHANGED <<using, hand>>

StartItem(m) ==
    /\ item = NoItem
    /\ m \in hand
    /\ hand' = hand \ {m}
    /\ item' = [asset |-> m, at |-> "owner", image |-> 0]
    /\ UNCHANGED <<media, settings, outcomes, job, phase, using, scan, bounds>>

LookAck(m) ==
    /\ Handling(m, "owner")
    /\ Goto(IF OwnerOf[m] \in acked THEN "preview" ELSE "unacked")
    /\ UNCHANGED <<media, settings, outcomes, job, scan, bounds>>

\* The preview as it is now, not as it was when the job was claimed.
ResolvePreview(m) ==
    /\ Handling(m, "preview")
    /\ item' = [item EXCEPT
         !.at = CASE thumb[m] = "ready" -> "calling"
                  [] thumb[m] = "no_preview" -> "previewless"
                  [] OTHER -> "unready",
         !.image = IF thumb[m] = "ready" THEN content[m] ELSE 0]
    /\ UNCHANGED <<media, settings, outcomes, job, phase, using, hand, scan, bounds>>

MarkBlocked(m, stage, why) ==
    /\ Handling(m, stage)
    /\ job' = [job EXCEPT ![m] =
         IF Held(m) THEN [@ EXCEPT !.status = "blocked", !.reason = why] ELSE @]
    /\ Return
    /\ UNCHANGED <<media, settings, outcomes, scan, bounds>>

\* The skip is recorded whether the claim still holds or not.
RecordSkip(m) ==
    /\ Handling(m, "previewless")
    /\ skipped' = [skipped EXCEPT ![m] = TRUE]
    /\ Goto("skipping")
    /\ UNCHANGED <<media, settings, result, failure, job, scan, bounds>>

Finish(m) == job' = [job EXCEPT ![m] = IF Held(m) THEN NoJob ELSE @]

MarkDone(m) ==
    /\ Handling(m, "skipping")
    /\ Finish(m)
    /\ Return
    /\ UNCHANGED <<media, settings, outcomes, scan, bounds>>

\* Mutant: the result is written before the claim is checked.
WriteUnfenced(m) ==
    /\ Handling(m, "calling")
    /\ Finish(m)
    /\ result' = [result EXCEPT ![m] = [model |-> using, image |-> item.image]]
    /\ failure' = [failure EXCEPT ![m] = @ \ {using}]
    /\ Return
    /\ UNCHANGED <<media, settings, skipped, scan, bounds>>

\* The provider answered: result, failure and job in one transaction that a
\* lost claim rolls back.
WriteAndMarkDone(m) ==
    /\ Handling(m, "calling")
    /\ Finish(m)
    /\ IF Held(m)
         THEN /\ result' = [result EXCEPT ![m] = [model |-> using, image |-> item.image]]
              /\ failure' = [failure EXCEPT ![m] = @ \ {using}]
         ELSE UNCHANGED <<result, failure>>
    /\ Return
    /\ UNCHANGED <<media, settings, skipped, scan, bounds>>

Failing == {"owner", "preview", "calling"}

\* MarkFailed is fenced; only then is the failure recorded.
MarkFailed(m) ==
    /\ Finish(m)
    /\ IF Held(m) THEN Goto("failing") ELSE Return
    /\ UNCHANGED <<media, settings, outcomes, scan>>

\* An answer the provider will not change.
Rejected(m) == Handling(m, "calling") /\ MarkFailed(m) /\ UNCHANGED bounds

\* A look-up of owner, consent or thumbnail fails with the database only; the
\* image, the provider and its answer may fail always.
Trouble == IF item.at = "calling" THEN UNCHANGED bounds ELSE Fault

\* Mutant: one attempt too many.
RetryOnceMore(m) ==
    /\ \E stage \in Failing : Handling(m, stage)
    /\ Trouble
    /\ IF job[m].attempts >= MaxAttempts THEN MarkFailed(m)
         ELSE /\ job' = [job EXCEPT ![m] =
                   IF Held(m) THEN [@ EXCEPT !.status = "pending", !.attempts = job[m].attempts + 1]
                     ELSE @]
              /\ Return
              /\ UNCHANGED <<media, settings, outcomes, scan>>

\* One of them failed.
MaybeRetryOrFail(m) ==
    /\ \E stage \in Failing : Handling(m, stage)
    /\ Trouble
    /\ IF job[m].attempts + 1 >= MaxAttempts THEN MarkFailed(m)
         ELSE /\ job' = [job EXCEPT ![m] =
                   IF Held(m) THEN [@ EXCEPT !.status = "pending", !.attempts = job[m].attempts + 1]
                     ELSE @]
              /\ Return
              /\ UNCHANGED <<media, settings, outcomes, scan>>

RecordFailure(m) ==
    /\ Handling(m, "failing")
    /\ failure' = [failure EXCEPT ![m] = @ \cup {using}]
    /\ Return
    /\ UNCHANGED <<media, settings, result, skipped, job, scan, bounds>>

InHand(m) == m \in hand \/ item.asset = m

\* A claim whose lease ran out; one the worker still has in hand overran it.
SweepLease(m) ==
    /\ Held(m)
    /\ IF InHand(m) THEN Fault ELSE UNCHANGED bounds
    /\ job' = [job EXCEPT ![m].status = "pending"]
    /\ UNCHANGED <<media, settings, outcomes, worker, scan>>

\* The process stops and is started again.
Restart ==
    /\ Fault
    /\ phase' = "idle"
    /\ using' = None
    /\ hand' = {}
    /\ item' = NoItem
    /\ scan' = [k \in Scanner |-> NoScan]
    /\ UNCHANGED <<media, settings, outcomes, job>>

-----------------------------------------------------------------------------
Handle(m) ==
    \/ StartItem(m)
    \/ LookAck(m)
    \/ ResolvePreview(m)
    \/ MarkBlocked(m, "unacked", "ack")
    \/ MarkBlocked(m, "unready", "thumb")
    \/ RecordSkip(m)
    \/ MarkDone(m)
    \/ WriteAndMarkDone(m)
    \/ Rejected(m)
    \/ MaybeRetryOrFail(m)
    \/ RecordFailure(m)

WorkerStep ==
    \/ RunOnce
    \/ PromoteAckedBlocked
    \/ PromoteThumbReadyBlocked
    \/ ClaimBatch
    \/ \E m \in Asset : Handle(m)

ScanStep(k) == \E m \in Asset : ScanOne(k, m) \/ (k = "owner" /\ ClearFailure(m))

Next ==
    \/ \E m \in Asset : ThumbSettles(m) \/ ApplyCommit(m)
    \/ \E S \in SUBSET Asset : Regenerate(S)
    \/ \E p \in Principal : Acknowledge(p)
    \/ \E g \in Model, on \in BOOLEAN : Apply(g, on)
    \/ \E p \in Principal, force \in BOOLEAN : Backfill(p, force)
    \/ \E p \in Principal : RetryFailed(p)
    \/ \E m \in Asset : RetryPhoto(m)
    \/ GapScan
    \/ \E k \in Scanner : ScanStep(k)
    \/ WorkerStep
    \/ \E m \in Asset : SweepLease(m)
    \/ Restart

Spec == Init /\ [][Next]_avars

\* The tickers fire, the provider answers or fails, leases of claims nobody
\* has in hand run out, and the thumbnail pipeline settles.
Fairness ==
    /\ WF_avars(WorkerStep)
    /\ WF_avars(GapScan \/ ScanStep("gap"))
    /\ WF_avars(ScanStep("owner"))
    /\ WF_avars(\E m \in Asset : ~InHand(m) /\ SweepLease(m))
    /\ WF_avars(\E m \in Asset : ThumbSettles(m))

FairSpec == Spec /\ Fairness

-----------------------------------------------------------------------------
(* Properties.                                                             *)

\* The active tags or caption were made from the file the photo has now, not
\* from one a commit replaced while the provider was at it, even if the claim
\* was swept, requeued or superseded in between.
ResultIsCurrent == \A m \in Asset : result[m] # NoResult => result[m].image = content[m]

Waiting(m) ==
    \/ job[m].reason = "ack" /\ OwnerOf[m] \notin acked
    \/ job[m].reason = "thumb" /\ thumb[m] # "ready"

\* The scan lists the first photos without an outcome, whether their job waits
\* or not: as many that wait as the limit hide the photos after them.
Crowded(m) ==
    Cardinality({n \in Asset : n < m /\ ~HasOutcome(n, config) /\ Waiting(n)}) >= Limit

\* Every photo ends up with a result under the settings in force, a failure or
\* a skip, waits for its owner or its thumbnail, or is hidden from the scan by
\* photos that do, however often its claims were lost and whatever fingerprint
\* its job was queued under.
EveryPhotoSettles == \A m \in Asset :
    []<>(~enabled \/ HasOutcome(m, config) \/ Waiting(m) \/ Crowded(m))

\* "Unsupported inputs and operator acknowledgements use explicit skipped state
\* rather than fake success": a photo that stays without a preview is skipped.
UnsupportedIsSkipped ==
    \A m \in Asset : []<>(thumb[m] # "no_preview" \/ OwnerOf[m] \notin acked
                            \/ ~enabled \/ HasOutcome(m, config))

\* The worker is shown the present file; the rest of this module leaves the
\* previews to those PreviewLedger allows to touch them.
Previews == INSTANCE PreviewLedger WITH
    preview <- thumb,
    image <- content,
    served <- [m \in Asset |-> IF thumb[m] = "ready" THEN {content[m]} ELSE {}]
ImplementsPreviews == Previews!Spec
=============================================================================
