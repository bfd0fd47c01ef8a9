---------------------------- MODULE ThumbPipeline ----------------------------
(***************************************************************************)
(* Thumbnails of the ready assets: the queue kept in the thumb_* columns   *)
(* of "assets" (internal/thumb/queue.go), the worker that drains it        *)
(* (internal/thumb/worker.go), the write-once store, and the writers that  *)
(* put a row back in the queue: a regenerate request, the lease sweep and  *)
(* a checkout commit that replaces the primary file's content.             *)
(*                                                                         *)
(* A statement of the queue is atomic (one writer connection).  An item of *)
(* the worker goes through several of them: it is claimed, decodes what is *)
(* then the current content, writes one object per size and finalises; its *)
(* row may be queued again, and its content replaced, at any point.        *)
(* The embedding side of MarkReady and of a commit is in Embedding.        *)
(***************************************************************************)
EXTENDS Integers, FiniteSets

CONSTANTS
    Asset,        \* ready assets; a larger number is claimed first
    Sizes,        \* number of thumbnail sizes, written in the order 1..Sizes
    Concurrency,  \* Config.WorkerConcurrency
    MaxEdits,     \* bound on regenerate requests and content commits
    MaxFaults     \* bound on stops, lost updates and overrun leases

ASSUME ThumbAssumption ==
    /\ Asset \subseteq Nat
    /\ IsFiniteSet(Asset)
    /\ Sizes \in Nat \ {0}
    /\ Concurrency \in Nat \ {0}
    /\ MaxEdits \in Nat
    /\ MaxFaults \in Nat

VARIABLES
    content,    \* current version of the primary file, numbered from 1
    hidden,     \* hidden_at IS NOT NULL
    status,     \* thumb_status
    version,    \* thumb_version
    claimedAt,  \* thumb_claimed_at, 0 for NULL
    overdue,    \* thumb_claimed_at is a lease timeout ago
    item,       \* the worker's items, by asset
    stored,     \* objects of the asset: version and size are the key
    clock,      \* time of the last claim
    edits, faults

row == <<status, version, claimedAt, overdue>>
bounds == <<edits, faults>>
tvars == <<content, hidden, row, item, stored, clock, bounds>>

Terminal == {"ready", "no_preview", "failed"}
Stage == {"none", "queued", "decoding", "writing"}

\* next is the size to write, source the content that was decoded.
Item == [stage : Stage, version : Nat, claimedAt : Nat, source : Nat, next : 1..(Sizes + 1)]
NoItem == [stage |-> "none", version |-> 0, claimedAt |-> 0, source |-> 0, next |-> 1]

TypeOK ==
    /\ content \in [Asset -> Nat]
    /\ hidden \in [Asset -> BOOLEAN]
    /\ status \in [Asset -> Terminal \cup {"pending", "working"}]
    /\ version \in [Asset -> Nat]
    /\ claimedAt \in [Asset -> Nat]
    /\ overdue \in [Asset -> BOOLEAN]
    /\ item \in [Asset -> Item]
    /\ stored \in [Asset -> SUBSET [version : Nat, size : 1..Sizes, source : Nat]]
    /\ clock \in Nat
    /\ edits \in 0..MaxEdits
    /\ faults \in 0..MaxFaults

\* The importer has inserted the rows as pending; the store is empty.
Init ==
    /\ content = [m \in Asset |-> 1]
    /\ hidden = [m \in Asset |-> FALSE]
    /\ status = [m \in Asset |-> "pending"]
    /\ version = [m \in Asset |-> 0]
    /\ claimedAt = [m \in Asset |-> 0]
    /\ overdue = [m \in Asset |-> FALSE]
    /\ item = [m \in Asset |-> NoItem]
    /\ stored = [m \in Asset |-> {}]
    /\ clock = 0
    /\ edits = 0
    /\ faults = 0

-----------------------------------------------------------------------------
(* Writers of the queue.                                                   *)

\* Back to pending under the next version, whatever the row was doing.
Requeue(S) ==
    /\ status' = [m \in Asset |-> IF m \in S THEN "pending" ELSE status[m]]
    /\ version' = [m \in Asset |-> IF m \in S THEN version[m] + 1 ELSE version[m]]
    /\ claimedAt' = [m \in Asset |-> IF m \in S THEN 0 ELSE claimedAt[m]]
    /\ overdue' = [m \in Asset |-> IF m \in S THEN FALSE ELSE overdue[m]]

Edit == edits < MaxEdits /\ edits' = edits + 1

\* A filter selects any of the owner's visible assets, in any thumb_status.
Enqueue(S) ==
    /\ \A m \in S : ~hidden[m]
    /\ Requeue(S)
    /\ Edit
    /\ UNCHANGED <<content, hidden, item, stored, clock, faults>>

\* Mutant: the commit forgets the derived work.
CommitOnly(m) ==
    /\ ~hidden[m]
    /\ content' = [content EXCEPT ![m] = @ + 1]
    /\ Edit
    /\ UNCHANGED <<hidden, row, item, stored, clock, faults>>

\* ApplyCommit on a primary file: the new version becomes current and
\* invalidatePrimaryDerivedWork queues the thumbnail in the same transaction.
ApplyCommit(m) ==
    /\ ~hidden[m]
    /\ content' = [content EXCEPT ![m] = @ + 1]
    /\ Requeue({m})
    /\ Edit
    /\ UNCHANGED <<hidden, item, stored, clock, faults>>

SetHidden(m, h) ==
    /\ hidden[m] # h
    /\ hidden' = [hidden EXCEPT ![m] = h]
    /\ UNCHANGED <<content, row, item, stored, clock, bounds>>

\* Mutant: the sweep takes over the visibility filter of the claim.
ExpiredVisible == {m \in Asset : status[m] = "working" /\ overdue[m] /\ ~hidden[m]}

\* Rows claimed a lease timeout ago, hidden or not.
Expired == {m \in Asset : status[m] = "working" /\ overdue[m]}

SweepLeases ==
    /\ Expired # {}
    /\ Requeue(Expired)
    /\ UNCHANGED <<content, hidden, item, stored, clock, bounds>>

-----------------------------------------------------------------------------
(* The worker.  drain claims up to 2*Concurrency rows, newest first, runs  *)
(* Concurrency of them at a time and returns when all are done; only then  *)
(* does it claim again.                                                    *)

Busy(stages) == {m \in Asset : item[m].stage \in stages}

Claimable == {m \in Asset : status[m] = "pending" /\ ~hidden[m]}

\* The newest n elements of S, or all of them.
Newest(S, n) == {m \in S : Cardinality({k \in S : k > m}) < n}

ClaimBatch ==
    LET batch == Newest(Claimable, 2 * Concurrency)
        now == clock + 1
    IN  /\ Busy(Stage \ {"none"}) = {}
        /\ batch # {}
        /\ clock' = now
        /\ status' = [m \in Asset |-> IF m \in batch THEN "working" ELSE status[m]]
        /\ claimedAt' = [m \in Asset |-> IF m \in batch THEN now ELSE claimedAt[m]]
        /\ item' = [m \in Asset |->
             IF m \in batch
               THEN [stage |-> "queued", version |-> version[m], claimedAt |-> now,
                     source |-> 0, next |-> 1]
               ELSE item[m]]
        /\ UNCHANGED <<content, hidden, version, overdue, stored, bounds>>

\* Mutant: one slot too few.
SlotToSpare == Cardinality(Busy({"decoding", "writing"})) + 1 < Concurrency

\* A slot of the semaphore is free.
SlotFree == Cardinality(Busy({"decoding", "writing"})) < Concurrency

\* The batch is started in its order.
StartItem(m) ==
    /\ m \in Newest(Busy({"queued"}), 1)
    /\ SlotFree
    /\ item' = [item EXCEPT ![m].stage = "decoding"]
    /\ UNCHANGED <<content, hidden, row, stored, clock, bounds>>

\* The preview of the version that is current now, not when it was claimed.
Decode(m) ==
    /\ item[m].stage = "decoding"
    /\ item' = [item EXCEPT ![m].stage = "writing", ![m].source = content[m]]
    /\ UNCHANGED <<content, hidden, row, stored, clock, bounds>>

\* Mutant: one iteration too many.
MoreOrOne(m) == item[m].next <= Sizes + 1

\* emitSizes has a size left to write.
More(m) == item[m].next <= Sizes

Occupied(m, v, k) == \E o \in stored[m] : o.version = v /\ o.size = k

\* The store never overwrites: an existing object is left as it is, and
\* ErrPathOccupied counts as success.
WriteSize(m) ==
    LET i == item[m]
    IN  /\ i.stage = "writing"
        /\ More(m)
        /\ stored' = [stored EXCEPT ![m] =
             IF Occupied(m, i.version, i.next) THEN @
               ELSE @ \cup {[version |-> i.version, size |-> i.next, source |-> i.source]}]
        /\ item' = [item EXCEPT ![m].next = @ + 1]
        /\ UNCHANGED <<content, hidden, row, clock, bounds>>

Drop(m) == item' = [item EXCEPT ![m] = NoItem]

\* The WHERE clause of the finalising statements.
Fence(m) ==
    /\ version[m] = item[m].version
    /\ claimedAt[m] = item[m].claimedAt

\* ErrClaimLost is swallowed.
Finalize(m, outcome) ==
    /\ IF Fence(m)
         THEN /\ status' = [status EXCEPT ![m] = outcome]
              /\ claimedAt' = [claimedAt EXCEPT ![m] = 0]
              /\ overdue' = [overdue EXCEPT ![m] = FALSE]
         ELSE UNCHANGED <<status, claimedAt, overdue>>
    /\ Drop(m)
    /\ UNCHANGED <<content, hidden, version, stored, clock, bounds>>

MarkReady(m) ==
    /\ item[m].stage = "writing"
    /\ ~More(m)
    /\ Finalize(m, "ready")

\* A format that is skipped, or whose preview is unsupported.
MarkNoPreview(m) == item[m].stage = "decoding" /\ Finalize(m, "no_preview")

\* The decode, an encode or a write failed.
MarkFailed(m) ==
    /\ item[m].stage = "decoding" \/ (item[m].stage = "writing" /\ More(m))
    /\ Finalize(m, "failed")

Fault == faults < MaxFaults /\ faults' = faults + 1

\* The item's context expired (MarkFailed runs under the same context), or
\* its finalising statement failed: the row is left to the sweep.
LoseItem(m) ==
    /\ item[m].stage \in {"decoding", "writing"}
    /\ Drop(m)
    /\ Fault
    /\ UNCHANGED <<content, hidden, row, stored, clock, edits>>

\* The process stops or dies with a batch in hand.
Stop ==
    /\ Busy(Stage \ {"none"}) # {}
    /\ item' = [m \in Asset |-> NoItem]
    /\ Fault
    /\ UNCHANGED <<content, hidden, row, stored, clock, edits>>

\* The lease of a row runs out.  A row whose item is still in hand has
\* overrun: the item's deadline is half the lease, but starts with its slot
\* and does not interrupt a decoder.
Expire(m) ==
    /\ status[m] = "working"
    /\ ~overdue[m]
    /\ overdue' = [overdue EXCEPT ![m] = TRUE]
    /\ IF item[m].stage = "none" THEN UNCHANGED faults ELSE Fault
    /\ UNCHANGED <<content, hidden, status, version, claimedAt, item, stored, clock, edits>>

-----------------------------------------------------------------------------
ItemStep(m) ==
    \/ StartItem(m)
    \/ Decode(m)
    \/ WriteSize(m)
    \/ MarkReady(m)
    \/ MarkNoPreview(m)
    \/ MarkFailed(m)

Next ==
    \/ \E S \in (SUBSET Asset) \ {{}} : Enqueue(S)
    \/ \E m \in Asset : ApplyCommit(m)
    \/ \E m \in Asset, h \in BOOLEAN : SetHidden(m, h)
    \/ SweepLeases
    \/ ClaimBatch
    \/ \E m \in Asset : ItemStep(m)
    \/ \E m \in Asset : LoseItem(m) \/ Expire(m)
    \/ Stop

Spec == Init /\ [][Next]_tvars

\* The tickers of runPoll and runSweep fire, time passes, and an item ends.
Fairness ==
    /\ WF_tvars(ClaimBatch)
    /\ WF_tvars(SweepLeases)
    /\ \A m \in Asset : WF_tvars(ItemStep(m))
    /\ \A m \in Asset : WF_tvars(item[m].stage = "none" /\ Expire(m))

FairSpec == Spec /\ Fairness

-----------------------------------------------------------------------------
(* Properties.                                                             *)

Holds(m, k, c) == [version |-> version[m], size |-> k, source |-> c] \in stored[m]

\* A ready row has every size in the store under its version, and each was
\* made from the content that is current: the reader checks status and
\* version only.
ReadyIsCurrent ==
    \A m \in Asset : status[m] = "ready" => \A k \in 1..Sizes : Holds(m, k, content[m])

\* "The bytes are valid": an object that emitSizes finds already written is
\* the one it was about to write.
OccupiedIsValid ==
    \A m \in Asset : \A o \in stored[m] :
        item[m].stage = "writing" /\ o.version = item[m].version
            => o.source = item[m].source

\* No attempt starts under a version that an earlier attempt wrote under, so
\* a retry never meets ErrPathOccupied.
PendingIsUnwritten ==
    \A m \in Asset : status[m] = "pending" =>
        \A o \in stored[m] : o.version < version[m]

\* A claim is lost only together with its version: of the two conditions of
\* the fence the one on thumb_claimed_at never decides.
VersionDecides ==
    \A m \in Asset : item[m].stage # "none" /\ item[m].version = version[m] => Fence(m)

\* A visible row settles, and keeps settling after each regeneration.
VisibleRowsSettle == \A m \in Asset : []<>(hidden[m] \/ status[m] \in Terminal)

\* A crashed worker never leaves a row wedged, hidden or not.
NoRowWedged == \A m \in Asset : status[m] = "working" ~> status[m] # "working"

\* What the other components see of a row: an attempt under way is still
\* pending, and a reader of a ready row is shown the objects of its version.
Preview(m) == IF status[m] = "working" THEN "pending" ELSE status[m]
Served(m) ==
    IF status[m] = "ready" THEN {o.source : o \in {p \in stored[m] : p.version = version[m]}}
      ELSE {}

\* The queue, the worker and the store keep what PreviewLedger promises.
Previews == INSTANCE PreviewLedger WITH
    preview <- [m \in Asset |-> Preview(m)],
    image <- content,
    served <- [m \in Asset |-> Served(m)]
ImplementsPreviews == Previews!Spec
=============================================================================
