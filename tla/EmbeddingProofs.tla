--------------------------- MODULE EmbeddingProofs ---------------------------
(***************************************************************************)
(* Safety of the embedding pipeline for every set of photos and models and *)
(* every batch size.  The count of a generation follows the set of its     *)
(* mappings.  Vectors stay current because of the claims: as long as a job *)
(* of the batch in hand is still held, what was read for it is the photo's *)
(* present input, and a commit writes only if all of them are held.        *)
(***************************************************************************)
EXTENDS Embedding, FiniteSetTheorems, TLAPS

Mapped(v) == {m \in Asset : v[m] # 0}

\* At most one generation is active.
OneActive == \A g, h \in Active : g = h

\* A generation without a row has no mappings.
NoRowNoVectors == \A g \in Model : state[g] = "none" => vec[g] = Zero

\* The batch belongs to the phase, and its generation exists during the call.
PhaseInv ==
    /\ phase \in {"idle", "dead"} => InBatch = {}
    /\ phase \in {"busy", "calling"} => working \in Model
    /\ phase = "calling" =>
         /\ state[working] # "none"
         /\ \A m \in InBatch : batch[m] = "ready"

\* What was read for a claim that is still held is current.
InputInv ==
    \A m \in Asset :
        /\ thumb[m] = "ready" => image[m] # 0
        /\ batch[m] = "ready" => input[m] # 0
        /\ batch[m] = "ready" /\ Held(m) => input[m] = image[m]

\* Only an operator brings a retired generation back.
CurrentInv == ~AdminPromotes => VectorsAreCurrent

IInv ==
    /\ TypeOK
    /\ CountIsExact
    /\ OneActive
    /\ NoRowNoVectors
    /\ PhaseInv
    /\ InputInv
    /\ CurrentInv

USE EmbeddingAssumption DEF NoJob, Job, Zero, Empty

LEMMA MappedFinite ==
    ASSUME NEW v PROVE IsFiniteSet(Mapped(v)) /\ Cardinality(Mapped(v)) \in Nat
  <1>1. Mapped(v) \in SUBSET Asset
    BY DEF Mapped
  <1> QED
    BY <1>1, FS_Subset, FS_CardinalityType

LEMMA CountOfMapped == CountIsExact <=> \A g \in Model : count[g] = Cardinality(Mapped(vec[g]))
  BY DEF CountIsExact, Mapped

LEMMA InitIInv == Init => IInv
  <1> SUFFICES ASSUME Init
               PROVE  IInv
    OBVIOUS
  <1> USE DEF Init
  <1>1. TypeOK
    BY DEF TypeOK
  <1>2. CountIsExact
    <2>1. \A g \in Model : {m \in Asset : vec[g][m] # 0} = {}
      OBVIOUS
    <2> QED
      BY <2>1, FS_EmptySet DEF CountIsExact
  <1>3. OneActive
    BY DEF OneActive, Active
  <1>4. NoRowNoVectors
    BY DEF NoRowNoVectors
  <1>5. PhaseInv
    BY DEF PhaseInv, InBatch
  <1>6. InputInv
    BY DEF InputInv
  <1>7. CurrentInv
    <2>1. \A g \in Model, m \in Asset : vec[g][m] = 0
      OBVIOUS
    <2> QED
      BY <2>1 DEF CurrentInv, VectorsAreCurrent, Live
  <1> QED
    BY <1>1, <1>2, <1>3, <1>4, <1>5, <1>6, <1>7 DEF IInv

-----------------------------------------------------------------------------
(* Each way of changing the vectors keeps the counts.                      *)

\* DropMappings removes m from the live generations and nothing else.
LEMMA DropMappingsCount ==
    ASSUME TypeOK, CountIsExact, NEW m \in Asset, DropMappings(m)
    PROVE  /\ vec' \in [Model -> [Asset -> Nat]]
           /\ count' \in [Model -> Nat]
           /\ CountIsExact'
           /\ \A g \in Live : vec'[g][m] = 0
           /\ \A g \in Model : \A k \in Asset : vec'[g][k] = 0 \/ vec'[g][k] = vec[g][k]
  <1> USE DEF DropMappings, TypeOK
  <1>1. vec' \in [Model -> [Asset -> Nat]]
    OBVIOUS
  <1>2. \A g \in Live : vec'[g][m] = 0
    BY DEF Live
  <1>3. \A g \in Model : \A k \in Asset : vec'[g][k] = 0 \/ vec'[g][k] = vec[g][k]
    OBVIOUS
  <1>4. ASSUME NEW g \in Model
        PROVE  count'[g] = Cardinality(Mapped(vec'[g]))
    <2>1. count[g] = Cardinality(Mapped(vec[g])) /\ count[g] \in Nat
      BY CountOfMapped
    <2>2. CASE g \in MappedIn(m)
      <3>1. Mapped(vec'[g]) = Mapped(vec[g]) \ {m}
        BY <2>2 DEF Mapped, MappedIn
      <3>2. m \in Mapped(vec[g])
        BY <2>2 DEF Mapped, MappedIn
      <3>3. count'[g] = count[g] - 1
        BY <2>2
      <3> QED
        <4>1. IsFiniteSet(Mapped(vec[g]))
          BY MappedFinite
        <4>2. Cardinality(Mapped(vec[g]) \ {m}) = Cardinality(Mapped(vec[g])) - 1
          BY <4>1, <3>2, FS_RemoveElement
        <4> QED
          BY <2>1, <3>1, <3>3, <4>2
    <2>3. CASE g \notin MappedIn(m)
      <3>1. Mapped(vec'[g]) = Mapped(vec[g])
        BY <2>3 DEF Mapped, MappedIn, Live
      <3>2. count'[g] = count[g]
        BY <2>3
      <3> QED
        BY <2>1, <3>1, <3>2
    <2> QED
      BY <2>2, <2>3
  <1>5. CountIsExact'
    BY <1>4 DEF CountIsExact, Mapped
  <1>6. count' \in [Model -> Nat]
    <2>1. ASSUME NEW g \in Model PROVE count'[g] \in Nat
      <3>1. Cardinality(Mapped(vec'[g])) \in Nat
        BY MappedFinite
      <3> QED
        BY <3>1, <1>4
    <2>2. count' = [g \in Model |-> count'[g]]
      OBVIOUS
    <2> QED
      BY <2>1, <2>2
  <1> QED
    BY <1>1, <1>2, <1>3, <1>5, <1>6

\* A commit adds the photos of the batch that had no mapping.
LEMMA CommitCount ==
    ASSUME IInv, CommitBatch, \A m \in InBatch : Held(m)
    PROVE  /\ vec' \in [Model -> [Asset -> Nat]]
           /\ count' \in [Model -> Nat]
           /\ CountIsExact'
  <1> USE DEF IInv, TypeOK
  <1>1. /\ working \in Model
        /\ vec' = [vec EXCEPT ![working] =
             [m \in Asset |-> IF m \in InBatch THEN input[m] ELSE @[m]]]
        /\ count' = [count EXCEPT ![working] =
             @ + Cardinality({m \in InBatch : vec[working][m] = 0})]
    BY DEF CommitBatch, PhaseInv
  <1>2. \A m \in InBatch : m \in Asset /\ input[m] # 0
    BY DEF CommitBatch, PhaseInv, InputInv, InBatch
  <1>3. vec' \in [Model -> [Asset -> Nat]]
    BY <1>1
  <1> DEFINE New == {m \in InBatch : vec[working][m] = 0}
  <1>4. IsFiniteSet(New) /\ Cardinality(New) \in Nat
    <2>1. New \in SUBSET Asset
      BY <1>2
    <2> QED
      BY <2>1, FS_Subset, FS_CardinalityType
  <1>5. ASSUME NEW g \in Model
        PROVE  count'[g] = Cardinality(Mapped(vec'[g]))
    <2>1. count[g] = Cardinality(Mapped(vec[g])) /\ count[g] \in Nat
      BY CountOfMapped
    <2>2. CASE g = working
      <3>1. Mapped(vec'[g]) = Mapped(vec[g]) \cup New
        BY <1>1, <1>2, <2>2 DEF Mapped
      <3>2. Mapped(vec[g]) \cap New = {}
        BY <2>2 DEF Mapped
      <3>3. Cardinality(Mapped(vec'[g])) = Cardinality(Mapped(vec[g])) + Cardinality(New)
        <4>1. IsFiniteSet(Mapped(vec[g])) /\ Cardinality(Mapped(vec[g])) \in Nat
          BY MappedFinite
        <4>2. Cardinality(Mapped(vec[g]) \cup New) =
                Cardinality(Mapped(vec[g])) + Cardinality(New) - Cardinality({})
          BY <4>1, <3>2, <1>4, FS_Union
        <4> QED
          BY <4>1, <4>2, <3>1, <1>4, FS_EmptySet
      <3>4. count'[g] = count[g] + Cardinality(New)
        BY <1>1, <2>2
      <3> QED
        BY <2>1, <3>3, <3>4
    <2>3. CASE g # working
      <3>1. vec'[g] = vec[g] /\ count'[g] = count[g]
        BY <1>1, <2>3
      <3> QED
        BY <2>1, <3>1
    <2> QED
      BY <2>2, <2>3
  <1>6. count' \in [Model -> Nat]
    BY <1>1, <1>4
  <1>7. CountIsExact'
    BY <1>5 DEF CountIsExact, Mapped
  <1> QED
    BY <1>3, <1>6, <1>7

LEMMA CompactCount ==
    ASSUME TypeOK, CountIsExact, NEW g \in Model, Compact(g)
    PROVE  /\ vec' \in [Model -> [Asset -> Nat]]
           /\ count' \in [Model -> Nat]
           /\ CountIsExact'
  <1> USE DEF Compact, TypeOK
  <1>1. vec' \in [Model -> [Asset -> Nat]] /\ count' \in [Model -> Nat]
    OBVIOUS
  <1>2. ASSUME NEW h \in Model
        PROVE  count'[h] = Cardinality(Mapped(vec'[h]))
    <2>1. CASE h = g
      <3>1. Mapped(vec'[h]) = {}
        BY <2>1 DEF Mapped
      <3> QED
        BY <2>1, <3>1, FS_EmptySet
    <2>2. CASE h # g
      BY <2>2, CountOfMapped
    <2> QED
      BY <2>1, <2>2
  <1>3. CountIsExact'
    BY <1>2 DEF CountIsExact, Mapped
  <1> QED
    BY <1>1, <1>3

-----------------------------------------------------------------------------
(* The steps.                                                              *)

\* A photo of a new visual input has no live vector and no held claim.
LEMMA NewImageIInv ==
    ASSUME IInv, NEW m \in Asset, NewImage(m), DropMappings(m),
           thumb' \in [Asset -> {"pending", "ready", "no_preview"}],
           \A k \in Asset \ {m} : thumb'[k] = thumb[k],
           skipped' \in [Asset -> BOOLEAN],
           failures' \in [Model -> [Asset -> 0..Budget]],
           job' \in [Asset -> {NoJob} \cup
                       [status : {"pending", "working", "blocked"}, model : Model]],
           ~Held(m)',
           \A k \in Asset \ {m} : job'[k] = job[k],
           edits' \in 0..MaxEdits,
           UNCHANGED <<config, rows, worker, scan, candidate, faults>>
    PROVE  IInv'
  <1> USE DEF rows, worker
  <1>1. TypeOK /\ CountIsExact /\ OneActive /\ NoRowNoVectors /\ PhaseInv /\ InputInv /\ CurrentInv
    BY DEF IInv
  <1>2. /\ image' = [image EXCEPT ![m] = @ + 1]
        /\ image[m] \in Nat
        /\ image'[m] # 0
        /\ image' \in [Asset -> Nat]
        /\ \A k \in Asset \ {m} : image'[k] = image[k]
    BY <1>1 DEF NewImage, TypeOK
  <1>3. /\ vec' \in [Model -> [Asset -> Nat]]
        /\ count' \in [Model -> Nat]
        /\ CountIsExact'
        /\ \A g \in Live : vec'[g][m] = 0
        /\ \A g \in Model : \A k \in Asset : vec'[g][k] = 0 \/ vec'[g][k] = vec[g][k]
    BY <1>1, DropMappingsCount
  <1>4. TypeOK'
    BY <1>1, <1>2, <1>3 DEF TypeOK
  <1>5. OneActive'
    BY <1>1 DEF OneActive, Active
  <1>6. NoRowNoVectors'
    BY <1>1, <1>3 DEF NoRowNoVectors, TypeOK
  <1>7. PhaseInv'
    BY <1>1 DEF PhaseInv, InBatch
  <1>8. InputInv'
    BY <1>1, <1>2 DEF InputInv, Held
  <1>9. CurrentInv'
    <2> SUFFICES ASSUME ~AdminPromotes, NEW g \in Live, NEW k \in Asset
                 PROVE  vec'[g][k] \in {0, image'[k]}
      BY DEF CurrentInv, VectorsAreCurrent, Live
    <2>1. vec[g][k] \in {0, image[k]}
      BY <1>1 DEF CurrentInv, VectorsAreCurrent
    <2>2. CASE k = m
      BY <1>3, <2>2
    <2>3. CASE k # m
      BY <1>2, <1>3, <2>1, <2>3 DEF Live
    <2> QED
      BY <2>2, <2>3
  <1> QED
    BY <1>3, <1>4, <1>5, <1>6, <1>7, <1>8, <1>9 DEF IInv

LEMMA ThumbReadyIInv == ASSUME IInv, NEW m \in Asset, ThumbReady(m) PROVE IInv'
  <1> USE DEF ThumbReady, OnThumbRegen, bounds
  <1>1. TypeOK
    BY DEF IInv
  <1>2. thumb' \in [Asset -> {"pending", "ready", "no_preview"}]
    BY <1>1 DEF TypeOK
  <1>3. \A k \in Asset \ {m} : thumb'[k] = thumb[k] /\ job'[k] = job[k]
    BY <1>1 DEF TypeOK
  <1>4. job' \in [Asset -> {NoJob} \cup [status : {"pending", "working", "blocked"}, model : Model]]
    BY <1>1 DEF TypeOK
  <1>5. ~Held(m)'
    BY <1>1 DEF TypeOK, Superseded, Held
  <1> QED
    BY <1>1, <1>2, <1>3, <1>4, <1>5, NewImageIInv DEF TypeOK

LEMMA ApplyCommitIInv == ASSUME IInv, NEW m \in Asset, ApplyCommit(m) PROVE IInv'
  <1> USE DEF ApplyCommit, Edit, bounds
  <1>1. TypeOK
    BY DEF IInv
  <1>2. thumb' \in [Asset -> {"pending", "ready", "no_preview"}]
    BY <1>1 DEF TypeOK
  <1>3. \A k \in Asset \ {m} : thumb'[k] = thumb[k] /\ job'[k] = job[k]
    BY <1>1 DEF TypeOK
  <1>4. job' \in [Asset -> {NoJob} \cup [status : {"pending", "working", "blocked"}, model : Model]]
    BY <1>1 DEF TypeOK
  <1>5. ~Held(m)'
    BY <1>1 DEF TypeOK, Held
  <1>6. failures' \in [Model -> [Asset -> 0..Budget]]
    BY <1>1 DEF TypeOK
  <1>7. skipped' \in [Asset -> BOOLEAN]
    BY <1>1 DEF TypeOK
  <1>8. edits' \in 0..MaxEdits
    BY <1>1 DEF TypeOK
  <1> QED
    BY <1>1, <1>2, <1>3, <1>4, <1>5, <1>6, <1>7, <1>8, NewImageIInv DEF TypeOK

\* A step that leaves the images, vectors, generations and the worker alone
\* keeps everything, if it takes no photo to ready and gives no job to a
\* claim that lost it.
LEMMA QueueIInv ==
    ASSUME IInv, TypeOK',
           UNCHANGED <<image, rows, vectors, worker>>,
           \A m \in Asset : thumb'[m] = "ready" => thumb[m] = "ready",
           \A m \in Asset : Held(m)' => Held(m)
    PROVE  IInv'
  <1> USE DEF rows, vectors, worker
  <1>1. CountIsExact /\ OneActive /\ NoRowNoVectors /\ PhaseInv /\ InputInv /\ CurrentInv
    BY DEF IInv
  <1>2. CountIsExact' /\ OneActive' /\ NoRowNoVectors' /\ PhaseInv'
    BY <1>1 DEF CountIsExact, OneActive, Active, NoRowNoVectors, PhaseInv, InBatch
  <1>3. InputInv'
    BY <1>1 DEF InputInv
  <1>4. CurrentInv'
    BY <1>1 DEF CurrentInv, VectorsAreCurrent, Live
  <1> QED
    BY <1>2, <1>3, <1>4 DEF IInv
LEMMA RequestIInv ==
    ASSUME IInv, NEW m \in Asset, ThumbNoPreview(m) \/ Regenerate(m)
    PROVE  IInv'
  <1> USE DEF ThumbNoPreview, Regenerate, Edit, bounds, rows, vectors, worker
  <1>1. TypeOK
    BY DEF IInv
  <1>2. thumb' \in [Asset -> {"pending", "ready", "no_preview"}]
    <2>1. thumb \in [Asset -> {"pending", "ready", "no_preview"}]
      BY <1>1 DEF TypeOK
    <2>2. PICK s \in {"pending", "no_preview"} : thumb' = [thumb EXCEPT ![m] = s]
      OBVIOUS
    <2> QED
      BY <2>1, <2>2
  <1>3. TypeOK'
    BY <1>1, <1>2 DEF TypeOK
  <1>4. \A k \in Asset : thumb'[k] = "ready" => thumb[k] = "ready"
    BY <1>1 DEF TypeOK
  <1> QED
    BY <1>3, <1>4, QueueIInv DEF Held

LEMMA ScanIInv ==
    ASSUME IInv,
           GapScan \/ ActivatorRead \/ \E m \in Asset, g \in Model : EnqueueClaim(m, g)
    PROVE  IInv'
  <1> USE DEF bounds, rows, vectors, worker, assets
  <1>1. TypeOK
    BY DEF IInv
  <1>2. CASE GapScan
    <2>1. PICK g \in Model : scan' = Candidates(g) \X {config}
      BY <1>2 DEF GapScan
    <2>2. scan' \subseteq Asset \X Model
      BY <1>1, <2>1 DEF Candidates, TypeOK
    <2>3. TypeOK'
      BY <1>1, <1>2, <2>2 DEF TypeOK, GapScan
    <2> QED
      BY <1>2, <2>3, QueueIInv DEF GapScan, Held
  <1>3. CASE ActivatorRead
    <2>1. TypeOK'
      BY <1>1, <1>3 DEF TypeOK, ActivatorRead
    <2> QED
      BY <1>3, <2>1, QueueIInv DEF ActivatorRead, Held
  <1>4. ASSUME NEW m \in Asset, NEW g \in Model, EnqueueClaim(m, g)
        PROVE  IInv'
    <2>1. job' \in [Asset -> {NoJob} \cup
                      [status : {"pending", "working", "blocked"}, model : Model]]
      BY <1>1, <1>4 DEF TypeOK, EnqueueClaim
    <2>2. TypeOK'
      BY <1>1, <1>4, <2>1 DEF TypeOK, EnqueueClaim
    <2>3. \A k \in Asset : Held(k)' => Held(k)
      BY <1>1, <1>4 DEF TypeOK, EnqueueClaim, Held
    <2> QED
      BY <1>4, <2>2, <2>3, QueueIInv DEF EnqueueClaim
  <1> QED
    BY <1>2, <1>3, <1>4

\* A job that is working is a job of some model.
LEMMA HeldJob ==
    ASSUME TypeOK, NEW m \in Asset, Held(m)
    PROVE  job[m] \in [status : {"pending", "working", "blocked"}, model : Model]
  BY DEF TypeOK, Held

LEMMA SweepIInv == ASSUME IInv, NEW m \in Asset, SweepLease(m) PROVE IInv'
  <1> USE DEF bounds, rows, vectors, worker, assets, SweepLease, Fault
  <1>1. TypeOK
    BY DEF IInv
  <1>2. job' \in [Asset -> {NoJob} \cup [status : {"pending", "working", "blocked"}, model : Model]]
    <2> DEFINE JobRow == [status : {"pending", "working", "blocked"}, model : Model]
    <2>1. job' = [job EXCEPT ![m].status = "pending"] /\ job[m] \in JobRow
      BY <1>1, HeldJob DEF Held
    <2>2. [job[m] EXCEPT !.status = "pending"] \in JobRow
      BY <2>1
    <2> QED
      BY <1>1, <2>1, <2>2 DEF TypeOK
  <1>3. faults' \in 0..MaxFaults
    BY <1>1 DEF TypeOK
  <1>4. TypeOK'
    BY <1>1, <1>2, <1>3 DEF TypeOK
  <1>5. \A k \in Asset : Held(k)' => Held(k)
    BY <1>1 DEF TypeOK, Held
  <1> QED
    BY <1>4, <1>5, QueueIInv

-----------------------------------------------------------------------------
(* Generations come and go without their vectors changing hands.           *)

\* FindOrCreateBuilding at most adds an empty generation.
LEMMA CreateIInv ==
    ASSUME IInv, NEW g \in Model, FindOrCreateBuilding(g),
           TypeOK', InputInv', PhaseInv',
           UNCHANGED <<vectors, image>>
    PROVE  IInv'
  <1> USE DEF rows, vectors
  <1>1. TypeOK /\ CountIsExact /\ OneActive /\ NoRowNoVectors /\ CurrentInv
    BY DEF IInv
  <1>2. \A h \in Model : state'[h] = state[h] \/ (state[h] = "none" /\ state'[h] = "building")
    BY <1>1 DEF FindOrCreateBuilding, TypeOK
  <1>3. CountIsExact'
    BY <1>1 DEF CountIsExact
  <1>4. OneActive'
    BY <1>1, <1>2 DEF OneActive, Active
  <1>5. NoRowNoVectors'
    BY <1>1, <1>2 DEF NoRowNoVectors
  <1>6. CurrentInv'
    <2> SUFFICES ASSUME ~AdminPromotes, NEW h \in Model, state'[h] \in {"building", "active"},
                        NEW m \in Asset
                 PROVE  vec'[h][m] \in {0, image'[m]}
      BY DEF CurrentInv, VectorsAreCurrent, Live
    <2>1. CASE state'[h] = state[h]
      BY <1>1, <2>1 DEF CurrentInv, VectorsAreCurrent, Live
    <2>2. CASE state[h] = "none"
      BY <1>1, <2>2 DEF NoRowNoVectors
    <2> QED
      BY <1>2, <2>1, <2>2
  <1> QED
    BY <1>3, <1>4, <1>5, <1>6 DEF IInv

LEMMA CreateType ==
    ASSUME TypeOK, NEW g \in Model, FindOrCreateBuilding(g)
    PROVE  /\ state' \in [Model -> {"none", "building", "active", "retired"}]
           /\ id' \in [Model -> Nat]
           /\ lastId' \in Nat
           /\ \A h \in Model : state[h] # "none" => state'[h] # "none"
           /\ state'[g] # "none"
  <1> USE DEF TypeOK, FindOrCreateBuilding, rows
  <1>1. CASE state[g] # "none"
    BY <1>1
  <1>2. CASE state[g] = "none"
    <2>1. /\ state' = [state EXCEPT ![g] = "building"]
          /\ id' = [id EXCEPT ![g] = lastId + 1]
          /\ lastId' = lastId + 1
      BY <1>2
    <2>2. state' \in [Model -> {"none", "building", "active", "retired"}]
      BY <2>1
    <2>3. id' \in [Model -> Nat] /\ lastId' \in Nat
      BY <2>1
    <2>4. \A h \in Model : state[h] # "none" => state'[h] # "none"
      BY <2>1
    <2>5. state'[g] # "none"
      BY <2>1
    <2> QED
      BY <2>2, <2>3, <2>4, <2>5
  <1> QED
    BY <1>1, <1>2

LEMMA SettingsIInv == ASSUME IInv, Backfill \/ \E g \in Model : Apply(g) PROVE IInv'
  <1> USE DEF bounds, vectors, worker, assets, Edit
  <1>1. TypeOK /\ PhaseInv /\ InputInv
    BY DEF IInv
  <1>2. ASSUME NEW g \in Model, Apply(g)
        PROVE  IInv'
    <2>1. FindOrCreateBuilding(g)
      BY <1>2 DEF Apply
    <2>2. TypeOK'
      BY <1>1, <1>2, <2>1, CreateType DEF TypeOK, Apply
    <2>3. InputInv'
      BY <1>1, <1>2 DEF InputInv, Apply, Held
    <2>4. PhaseInv'
      BY <1>1, <1>2, <2>1, CreateType DEF PhaseInv, InBatch, Apply
    <2> QED
      BY <1>2, <2>1, <2>2, <2>3, <2>4, CreateIInv DEF Apply
  <1>3. CASE Backfill
    <2>1. FindOrCreateBuilding(config) /\ config \in Model
      BY <1>1, <1>3 DEF Backfill, TypeOK
    <2>2. scan' \subseteq Asset \X Model
      BY <1>1, <1>3 DEF Backfill, Candidates, TypeOK
    <2>3. TypeOK'
      BY <1>1, <1>3, <2>1, <2>2, CreateType DEF TypeOK, Backfill
    <2>4. InputInv'
      BY <1>1, <1>3 DEF InputInv, Backfill, Held
    <2>5. PhaseInv'
      BY <1>1, <1>3, <2>1, CreateType DEF PhaseInv, InBatch, Backfill
    <2> QED
      BY <1>3, <2>1, <2>3, <2>4, <2>5, CreateIInv DEF Backfill
  <1> QED
    BY <1>2, <1>3

\* Promotion moves one generation to active and the active one out.
LEMMA PromoteIInv ==
    ASSUME IInv, NEW g \in Model, Promote(g),
           state[g] = "building" \/ AdminPromotes,
           state[g] # "none",
           TypeOK',
           UNCHANGED <<assets, vectors, job, worker>>
    PROVE  IInv'
  <1> USE DEF assets, vectors, worker
  <1>1. TypeOK /\ CountIsExact /\ OneActive /\ NoRowNoVectors /\ PhaseInv /\ InputInv /\ CurrentInv
    BY DEF IInv
  <1>2. \A h \in Model : state'[h] = IF h = g THEN "active"
                                     ELSE IF h \in Active THEN "retired" ELSE state[h]
    BY DEF Promote
  <1>3. CountIsExact'
    BY <1>1 DEF CountIsExact
  <1>4. OneActive'
    BY <1>2 DEF OneActive, Active
  <1>5. NoRowNoVectors'
    BY <1>1, <1>2 DEF NoRowNoVectors
  <1>6. PhaseInv'
    BY <1>1, <1>2 DEF PhaseInv, InBatch
  <1>7. InputInv'
    BY <1>1 DEF InputInv, Held
  <1>8. CurrentInv'
    <2> SUFFICES ASSUME ~AdminPromotes, NEW h \in Model, state'[h] \in {"building", "active"},
                        NEW m \in Asset
                 PROVE  vec'[h][m] \in {0, image'[m]}
      BY DEF CurrentInv, VectorsAreCurrent, Live
    <2>1. h \in Live
      BY <1>2 DEF Live, Active
    <2> QED
      BY <1>1, <2>1 DEF CurrentInv, VectorsAreCurrent
  <1> QED
    BY <1>3, <1>4, <1>5, <1>6, <1>7, <1>8 DEF IInv

LEMMA ActivationIInv ==
    ASSUME IInv, ActivatorPromote \/ \E g \in Model : PromoteRetired(g)
    PROVE  IInv'
  <1> USE DEF bounds, vectors, worker, assets, Edit
  <1>1. TypeOK
    BY DEF IInv
  <1>2. ASSUME NEW g \in Model, PromoteRetired(g)
        PROVE  IInv'
    <2>1. TypeOK'
      BY <1>1, <1>2 DEF TypeOK, PromoteRetired, Promote
    <2> QED
      BY <1>2, <2>1, PromoteIInv DEF PromoteRetired
  <1>3. CASE ActivatorPromote
    <2>1. candidate \in Model
      BY <1>1, <1>3 DEF ActivatorPromote, TypeOK
    <2>2. TypeOK'
      BY <1>1, <1>3 DEF TypeOK, ActivatorPromote, Promote
    <2>3. CASE state[candidate] = "building"
      BY <1>3, <2>1, <2>2, <2>3, PromoteIInv DEF ActivatorPromote
    <2>4. CASE state[candidate] # "building"
      BY <1>3, <2>2, <2>4, QueueIInv DEF ActivatorPromote, rows, Held
    <2> QED
      BY <2>3, <2>4
  <1> QED
    BY <1>2, <1>3

LEMMA CompactIInv == ASSUME IInv, NEW g \in Model, Compact(g) PROVE IInv'
  <1> USE DEF Compact, bounds, worker, assets
  <1>1. TypeOK /\ CountIsExact /\ OneActive /\ NoRowNoVectors /\ PhaseInv /\ InputInv /\ CurrentInv
    BY DEF IInv
  <1>2. /\ vec' \in [Model -> [Asset -> Nat]]
        /\ count' \in [Model -> Nat]
        /\ CountIsExact'
    BY <1>1, CompactCount
  <1>3. TypeOK'
    BY <1>1, <1>2 DEF TypeOK
  <1>4. \A h \in Model : state'[h] = IF h = g THEN "none" ELSE state[h]
    BY <1>1 DEF TypeOK
  <1>5. \A h \in Model : vec'[h] = IF h = g THEN Zero ELSE vec[h]
    BY <1>1 DEF TypeOK
  <1>6. OneActive'
    BY <1>1, <1>4 DEF OneActive, Active
  <1>7. NoRowNoVectors'
    BY <1>1, <1>4, <1>5 DEF NoRowNoVectors
  <1>8. PhaseInv'
    BY <1>1, <1>4 DEF PhaseInv, InBatch
  <1>9. InputInv'
    BY <1>1 DEF InputInv, Held
  <1>10. CurrentInv'
    BY <1>1, <1>4, <1>5 DEF CurrentInv, VectorsAreCurrent, Live
  <1> QED
    BY <1>2, <1>3, <1>6, <1>7, <1>8, <1>9, <1>10 DEF IInv
-----------------------------------------------------------------------------
(* The worker.                                                             *)

\* Settling claims of a batch, or giving it up, keeps the batch in order.
LEMMA BatchIInv ==
    ASSUME IInv, TypeOK',
           Leave(InBatch) \/ Exit \/ \E S \in SUBSET Asset : Leave(S),
           UNCHANGED <<thumb, image, rows, vectors>>,
           \A m \in Asset : Held(m)' => Held(m)
    PROVE  IInv'
  <1> USE DEF rows, vectors
  <1>1. TypeOK /\ CountIsExact /\ OneActive /\ NoRowNoVectors /\ PhaseInv /\ InputInv /\ CurrentInv
    BY DEF IInv
  <1>2. PICK S \in SUBSET Asset : Leave(S) \/ Exit
    BY DEF InBatch
  <1>3. CountIsExact' /\ OneActive' /\ NoRowNoVectors'
    BY <1>1 DEF CountIsExact, OneActive, Active, NoRowNoVectors
  <1>4. CurrentInv'
    BY <1>1 DEF CurrentInv, VectorsAreCurrent, Live
  <1>5. PhaseInv'
    <2>1. CASE Leave(S)
      <3>1. \A m \in Asset : batch'[m] = IF m \in S THEN "none" ELSE batch[m]
        BY <2>1 DEF Leave
      <3>2. CASE InBatch \subseteq S
        <4>1. phase' = "idle"
          BY <2>1, <3>2 DEF Leave
        <4> QED
          BY <3>1, <3>2, <4>1 DEF PhaseInv, InBatch
      <3>3. CASE ~(InBatch \subseteq S)
        <4>1. phase' = phase /\ working' = working
          BY <2>1, <3>3 DEF Leave
        <4> QED
          BY <1>1, <3>1, <4>1 DEF PhaseInv, InBatch
      <3> QED
        BY <3>2, <3>3
    <2>2. CASE Exit
      BY <2>2 DEF PhaseInv, InBatch, Exit
    <2> QED
      BY <1>2, <2>1, <2>2
  <1>6. InputInv'
    BY <1>1, <1>2 DEF InputInv, Leave, Exit
  <1> QED
    BY <1>3, <1>4, <1>5, <1>6 DEF IInv

\* The types of what Leave and Exit assign, and of a released job.
LEMMA LeaveType ==
    ASSUME TypeOK, NEW S, Leave(S) \/ Exit
    PROVE  /\ phase' \in {"idle", "busy", "calling", "dead"}
           /\ working' \in Model \cup {None}
           /\ batch' \in [Asset -> {"none", "unread", "pending", "no_preview", "error", "ready"}]
           /\ input' \in [Asset -> Nat]
  BY DEF TypeOK, Leave, Exit

LEMMA ReleaseType ==
    ASSUME TypeOK, NEW S, job' = Release(S)
    PROVE  /\ job' \in [Asset -> {NoJob} \cup
                         [status : {"pending", "working", "blocked"}, model : Model]]
           /\ \A m \in Asset : Held(m)' => Held(m)
  BY DEF TypeOK, Release, Held

LEMMA ClaimBatchIInv == IInv /\ ClaimBatch => IInv'
  <1> SUFFICES ASSUME IInv, ClaimBatch
               PROVE  IInv'
    OBVIOUS
  <1> USE DEF assets, rows, vectors, bounds
  <1>1. TypeOK /\ CountIsExact /\ OneActive /\ NoRowNoVectors /\ PhaseInv /\ InputInv /\ CurrentInv
    BY DEF IInv
  <1>2. PICK S \in SUBSET Claimable :
          /\ job' = [m \in Asset |-> IF m \in S THEN Job("working", config) ELSE Unblocked(m)]
          /\ batch' = [m \in Asset |-> IF m \in S THEN "unread" ELSE "none"]
          /\ IF S = {} THEN UNCHANGED <<phase, working>> ELSE phase' = "busy" /\ working' = config
    BY DEF ClaimBatch
  <1>3. phase = "idle" /\ UNCHANGED <<assets, failures, config, rows, vectors, input, scan, candidate, bounds>>
    BY DEF ClaimBatch
  <1>4. S \subseteq Asset
    BY DEF Claimable
  <1>5. ASSUME NEW m \in Asset
        PROVE  Unblocked(m) \in {NoJob} \cup
                 [status : {"pending", "working", "blocked"}, model : Model]
    <2>1. job[m] \in {NoJob} \cup [status : {"pending", "working", "blocked"}, model : Model]
      BY <1>1 DEF TypeOK
    <2> QED
      BY <2>1 DEF Unblocked
  <1>6. job' \in [Asset -> {NoJob} \cup [status : {"pending", "working", "blocked"}, model : Model]]
    BY <1>1, <1>2, <1>5 DEF TypeOK
  <1>7. batch' \in [Asset -> {"none", "unread", "pending", "no_preview", "error", "ready"}]
    BY <1>2
  <1>8. phase' \in {"idle", "busy", "calling", "dead"} /\ working' \in Model \cup {None}
    BY <1>1, <1>2 DEF TypeOK
  <1>9. TypeOK'
    BY <1>1, <1>3, <1>6, <1>7, <1>8 DEF TypeOK
  <1>10. CountIsExact' /\ OneActive' /\ NoRowNoVectors'
    BY <1>1, <1>3 DEF CountIsExact, OneActive, Active, NoRowNoVectors
  <1>11. CurrentInv'
    BY <1>1, <1>3 DEF CurrentInv, VectorsAreCurrent, Live
  <1>12. PhaseInv'
    BY <1>1, <1>2, <1>3 DEF PhaseInv, InBatch, TypeOK
  <1>13. InputInv'
    BY <1>1, <1>2, <1>3 DEF InputInv
  <1> QED
    BY <1>9, <1>10, <1>11, <1>12, <1>13 DEF IInv

\* What is read while the thumbnail is ready is the present image.
LEMMA ReadIInv ==
    ASSUME IInv, NEW m \in Asset, Resolve(m) \/ ResolveFails(m)
    PROVE  IInv'
  <1> USE DEF assets, rows, vectors, bounds
  <1>1. TypeOK /\ CountIsExact /\ OneActive /\ NoRowNoVectors /\ PhaseInv /\ InputInv /\ CurrentInv
    BY DEF IInv
  <1>2. PICK outcome \in {"pending", "no_preview", "error", "ready"}, i \in Nat :
          /\ Read(m, outcome, i)
          /\ outcome = "ready" => thumb[m] = "ready" /\ i = image[m]
    <2>1. thumb[m] \in {"pending", "ready", "no_preview"} /\ image[m] \in Nat
      BY <1>1 DEF TypeOK
    <2>2. CASE Resolve(m) /\ thumb[m] # "ready"
      <3>1. Read(m, thumb[m], 0) /\ thumb[m] \in {"pending", "no_preview"}
        BY <2>1, <2>2 DEF Resolve
      <3> QED
        BY <3>1
    <2>3. CASE Resolve(m) /\ thumb[m] = "ready" /\ m \notin Unreadable
      <3>1. Read(m, "ready", image[m])
        BY <2>3 DEF Resolve
      <3> QED
        BY <2>1, <2>3, <3>1
    <2>4. CASE Read(m, "error", 0)
      BY <2>4
    <2> QED
      BY <2>2, <2>3, <2>4 DEF Resolve, ResolveFails
  <1>3. /\ batch[m] = "unread"
        /\ batch' = [batch EXCEPT ![m] = outcome]
        /\ input' = [input EXCEPT ![m] = i]
        /\ UNCHANGED <<assets, failures, config, rows, vectors, job, phase, working, scan,
                       candidate, edits>>
    BY <1>2 DEF Read
  <1>4. faults' \in 0..MaxFaults
    BY <1>1 DEF TypeOK, Resolve, ResolveFails, Fault
  <1>5. TypeOK'
    BY <1>1, <1>3, <1>4 DEF TypeOK
  <1>6. CountIsExact' /\ OneActive' /\ NoRowNoVectors'
    BY <1>1, <1>3 DEF CountIsExact, OneActive, Active, NoRowNoVectors
  <1>7. CurrentInv'
    BY <1>1, <1>3 DEF CurrentInv, VectorsAreCurrent, Live
  <1>8. PhaseInv'
    BY <1>1, <1>3 DEF PhaseInv, InBatch, TypeOK
  <1>9. InputInv'
    BY <1>1, <1>2, <1>3 DEF InputInv, Held, TypeOK
  <1> QED
    BY <1>5, <1>6, <1>7, <1>8, <1>9 DEF IInv

LEMMA ClassifyIInv ==
    ASSUME IInv, NEW m \in Asset, BlockClaim(m) \/ SkipClaim(m) \/ RejectClaim(m)
    PROVE  IInv'
  <1> USE DEF assets, rows, vectors, bounds
  <1>1. TypeOK
    BY DEF IInv
  <1>2. Leave({m}) \/ Exit
    BY DEF BlockClaim, SkipClaim, RejectClaim
  <1>3. /\ job' \in [Asset -> {NoJob} \cup
                      [status : {"pending", "working", "blocked"}, model : Model]]
        /\ \A k \in Asset : Held(k)' => Held(k)
    <2>1. CASE BlockClaim(m)
      <3>1. CASE Held(m)
        <4>1. job' = [job EXCEPT ![m].status = "blocked"]
          BY <2>1, <3>1 DEF BlockClaim
        <4>2. job[m] \in [status : {"pending", "working", "blocked"}, model : Model]
          BY <1>1, <3>1, HeldJob
        <4> QED
          BY <1>1, <4>1, <4>2 DEF Held, TypeOK
      <3>2. CASE ~Held(m)
        BY <1>1, <2>1, <3>2 DEF BlockClaim, Held, TypeOK
      <3> QED
        BY <3>1, <3>2
    <2>2. CASE SkipClaim(m) \/ RejectClaim(m)
      BY <1>1, <2>2, ReleaseType DEF SkipClaim, RejectClaim
    <2> QED
      BY <2>1, <2>2
  <1>4. skipped' \in [Asset -> BOOLEAN]
    BY <1>1 DEF TypeOK, BlockClaim, SkipClaim, RejectClaim
  <1>5. UNCHANGED <<thumb, image, failures, config, rows, vectors, scan, candidate, bounds>>
    BY DEF BlockClaim, SkipClaim, RejectClaim
  <1>6. TypeOK'
    BY <1>1, <1>2, <1>3, <1>4, <1>5, LeaveType DEF TypeOK
  <1> QED
    BY <1>2, <1>3, <1>5, <1>6, BatchIInv

LEMMA FailIInv == ASSUME IInv, NEW S \in SUBSET InBatch, FailClaims(S) PROVE IInv'
  <1> USE DEF assets, rows, vectors, bounds, FailClaims
  <1>1. TypeOK /\ PhaseInv
    BY DEF IInv
  <1>2. working \in Model
    BY <1>1 DEF PhaseInv
  <1>3. failures' \in [Model -> [Asset -> 0..Budget]]
    BY <1>1, <1>2 DEF TypeOK
  <1>4. TypeOK'
    BY <1>1, <1>3, LeaveType, ReleaseType DEF TypeOK
  <1>5. S \in SUBSET Asset
    BY DEF InBatch
  <1> QED
    BY <1>1, <1>4, <1>5, ReleaseType, BatchIInv

LEMMA ResolveGenerationIInv == IInv /\ ResolveGeneration => IInv'
  <1> SUFFICES ASSUME IInv, ResolveGeneration
               PROVE  IInv'
    OBVIOUS
  <1> USE DEF assets, vectors, bounds, ResolveGeneration
  <1>1. TypeOK /\ PhaseInv /\ InputInv
    BY DEF IInv
  <1>2. working \in Model /\ FindOrCreateBuilding(working)
    BY <1>1 DEF PhaseInv, Classifying
  <1>3. TypeOK'
    BY <1>1, <1>2, CreateType DEF TypeOK
  <1>4. InputInv'
    BY <1>1 DEF InputInv, Held
  <1>5. PhaseInv'
    BY <1>1, <1>2, CreateType DEF PhaseInv, InBatch
  <1> QED
    BY <1>2, <1>3, <1>4, <1>5, CreateIInv

LEMMA CommitBatchIInv == IInv /\ CommitBatch => IInv'
  <1> SUFFICES ASSUME IInv, CommitBatch
               PROVE  IInv'
    OBVIOUS
  <1> USE DEF assets, rows, bounds
  <1>1. TypeOK /\ CountIsExact /\ OneActive /\ NoRowNoVectors /\ PhaseInv /\ InputInv /\ CurrentInv
    BY DEF IInv
  <1>2. /\ phase = "calling"
        /\ working \in Model
        /\ state[working] # "none"
        /\ UNCHANGED <<assets, config, rows, scan, candidate, bounds>>
    BY <1>1 DEF CommitBatch, PhaseInv
  <1>3. CASE ~ \A m \in InBatch : Held(m)
    <2>1. UNCHANGED <<vectors, failures, job>> /\ Exit
      BY <1>3 DEF CommitBatch
    <2>2. TypeOK'
      BY <1>1, <1>2, <2>1, LeaveType DEF TypeOK, vectors
    <2> QED
      BY <1>2, <2>1, <2>2, BatchIInv DEF Held
  <1>4. CASE \A m \in InBatch : Held(m)
    <2>1. /\ vec' = [vec EXCEPT ![working] =
               [m \in Asset |-> IF m \in InBatch THEN input[m] ELSE @[m]]]
          /\ failures' = [failures EXCEPT ![working] =
               [m \in Asset |-> IF m \in InBatch THEN 0 ELSE @[m]]]
          /\ job' = Release(InBatch)
          /\ Leave(InBatch)
      BY <1>4 DEF CommitBatch
    <2>2. /\ vec' \in [Model -> [Asset -> Nat]]
          /\ count' \in [Model -> Nat]
          /\ CountIsExact'
      BY <1>4, CommitCount
    <2>3. failures' \in [Model -> [Asset -> 0..Budget]]
      BY <1>1, <1>2, <2>1 DEF TypeOK
    <2>4. TypeOK'
      BY <1>1, <1>2, <2>1, <2>2, <2>3, LeaveType, ReleaseType DEF TypeOK
    <2>5. phase' = "idle" /\ \A m \in Asset : batch'[m] = "none"
      BY <2>1 DEF Leave, InBatch
    <2>6. OneActive'
      BY <1>1, <1>2 DEF OneActive, Active
    <2>7. NoRowNoVectors'
      BY <1>1, <1>2, <2>1 DEF NoRowNoVectors, TypeOK
    <2>8. PhaseInv'
      BY <2>5 DEF PhaseInv, InBatch
    <2>9. InputInv'
      BY <1>1, <1>2, <2>5 DEF InputInv
    <2>10. CurrentInv'
      <3> SUFFICES ASSUME ~AdminPromotes, NEW g \in Live, NEW m \in Asset
                   PROVE  vec'[g][m] \in {0, image[m]}
        BY <1>2 DEF CurrentInv, VectorsAreCurrent, Live
      <3>1. g \in Model /\ vec[g][m] \in {0, image[m]}
        BY <1>1 DEF CurrentInv, VectorsAreCurrent, Live
      <3>2. m \in InBatch => input[m] = image[m]
        BY <1>1, <1>2, <1>4 DEF InputInv, PhaseInv
      <3> QED
        BY <1>1, <2>1, <3>1, <3>2 DEF TypeOK
    <2> QED
      BY <2>2, <2>4, <2>6, <2>7, <2>8, <2>9, <2>10 DEF IInv
  <1> QED
    BY <1>3, <1>4

LEMMA RestartIInv == IInv /\ Restart => IInv'
  <1> SUFFICES ASSUME IInv, Restart
               PROVE  IInv'
    OBVIOUS
  <1> USE DEF Restart, Fault, assets, rows, vectors
  <1>1. TypeOK /\ CountIsExact /\ OneActive /\ NoRowNoVectors /\ PhaseInv /\ InputInv /\ CurrentInv
    BY DEF IInv
  <1>2. TypeOK'
    BY <1>1 DEF TypeOK
  <1>3. CountIsExact' /\ OneActive' /\ NoRowNoVectors'
    BY <1>1 DEF CountIsExact, OneActive, Active, NoRowNoVectors
  <1>4. CurrentInv'
    BY <1>1 DEF CurrentInv, VectorsAreCurrent, Live
  <1>5. PhaseInv' /\ InputInv'
    BY <1>1 DEF PhaseInv, InBatch, InputInv
  <1> QED
    BY <1>2, <1>3, <1>4, <1>5 DEF IInv
-----------------------------------------------------------------------------
LEMMA NextIInv == IInv /\ [Next]_evars => IInv'
  <1> SUFFICES ASSUME IInv, [Next]_evars
               PROVE  IInv'
    OBVIOUS
  <1>1. ASSUME NEW m \in Asset,
               ThumbReady(m) \/ ThumbNoPreview(m) \/ Regenerate(m) \/ ApplyCommit(m)
        PROVE  IInv'
    BY <1>1, ThumbReadyIInv, RequestIInv, ApplyCommitIInv
  <1>2. ASSUME NEW g \in Model, Apply(g) \/ PromoteRetired(g) \/ Compact(g)
        PROVE  IInv'
    BY <1>2, SettingsIInv, ActivationIInv, CompactIInv
  <1>3. CASE ActivatorRead \/ GapScan \/ \E m \in Asset, g \in Model : EnqueueClaim(m, g)
    BY <1>3, ScanIInv
  <1>4. CASE ActivatorPromote
    BY <1>4, ActivationIInv
  <1>5. CASE Backfill
    BY <1>5, SettingsIInv
  <1>6. CASE WorkerStep
    <2>1. ASSUME NEW m \in Asset, Resolve(m) \/ BlockClaim(m) \/ SkipClaim(m) \/ RejectClaim(m)
          PROVE  IInv'
      BY <2>1, ReadIInv, ClassifyIInv
    <2>2. ASSUME NEW S \in (SUBSET InBatch) \ {{}}, FailClaims(S)
          PROVE  IInv'
      BY <2>2, FailIInv
    <2> QED
      BY <1>6, <2>1, <2>2, ClaimBatchIInv, ResolveGenerationIInv, CommitBatchIInv DEF WorkerStep
  <1>7. ASSUME NEW m \in Asset, ResolveFails(m) \/ SweepLease(m)
        PROVE  IInv'
    BY <1>7, ReadIInv, SweepIInv
  <1>8. CASE Restart
    BY <1>8, RestartIInv
  <1>9. CASE UNCHANGED evars
    <2>1. TypeOK'
      BY <1>9 DEF IInv, TypeOK, evars, assets, rows, vectors, worker, bounds
    <2> QED
      BY <1>9, <2>1, QueueIInv DEF evars, assets, Held
  <1> QED
    BY <1>1, <1>2, <1>3, <1>4, <1>5, <1>6, <1>7, <1>8, <1>9 DEF Next

LEMMA SpecIInv == Spec => []IInv
  BY InitIInv, NextIInv, PTL DEF Spec

\* The variables keep their types; in particular no embedded_count is ever
\* decremented below zero.
THEOREM TypeCorrect == Spec => []TypeOK
  <1>1. IInv => TypeOK
    BY DEF IInv
  <1> QED
    BY <1>1, SpecIInv, PTL

\* As long as no operator promotes a retired generation, every vector of a
\* building or active generation was made from the photo's present input.
THEOREM VectorsCurrent ==
  ASSUME ~AdminPromotes
  PROVE  Spec => []VectorsAreCurrent
  <1>1. IInv => VectorsAreCurrent
    BY DEF IInv, CurrentInv
  <1> QED
    BY <1>1, SpecIInv, PTL

\* embedded_count is the number of mappings of its generation, also in the
\* retired ones.
THEOREM CountExact == Spec => []CountIsExact
  <1>1. IInv => CountIsExact
    BY DEF IInv
  <1> QED
    BY <1>1, SpecIInv, PTL

\* Once a generation is active, exactly one is active for ever: promotion
\* replaces it and nothing else takes it out of service.
THEOREM ActiveKept == Spec => ActiveIsKept
  <1>1. IInv /\ [Next]_evars => [Active # {} => Cardinality(Active') = 1]_evars
    <2> SUFFICES ASSUME IInv, Next, NEW a \in Active
                 PROVE  Cardinality(Active') = 1
      BY DEF Active
    <2>1. TypeOK /\ OneActive
      BY DEF IInv
    <2>2. Active = {a}
      BY <2>1 DEF OneActive
    <2>3. Active' = {a} \/ \E g \in Model : Active' = {g}
      <3>1. CASE UNCHANGED state
        BY <2>2, <3>1 DEF Active
      <3>2. ASSUME NEW g \in Model, FindOrCreateBuilding(g)
            PROVE  Active' = {a}
        BY <2>1, <2>2, <3>2 DEF Active, FindOrCreateBuilding, TypeOK, rows
      <3>3. ASSUME NEW g \in Model, Promote(g)
            PROVE  Active' = {g}
        BY <3>3 DEF Active, Promote
      <3>4. ASSUME NEW g \in Model, Compact(g)
            PROVE  Active' = {a}
        BY <2>1, <2>2, <3>4 DEF Active, Compact, TypeOK
      <3>5. CASE ActivatorPromote
        BY <2>1, <3>1, <3>3, <3>5 DEF ActivatorPromote, TypeOK
      <3>6. CASE Backfill
        BY <2>1, <3>2, <3>6 DEF Backfill, TypeOK
      <3>7. CASE ResolveGeneration
        <4>1. working \in Model
          BY <3>7 DEF IInv, PhaseInv, ResolveGeneration, Classifying
        <4> QED
          BY <3>2, <3>7, <4>1 DEF ResolveGeneration
      <3>8. ASSUME NEW g \in Model, Apply(g) \/ PromoteRetired(g)
            PROVE  Active' = {a} \/ \E h \in Model : Active' = {h}
        BY <3>2, <3>3, <3>8 DEF Apply, PromoteRetired
      <3>9. ASSUME NEW m \in Asset,
                   ThumbReady(m) \/ ThumbNoPreview(m) \/ Regenerate(m) \/ ApplyCommit(m)
                     \/ ResolveFails(m) \/ SweepLease(m)
            PROVE  UNCHANGED state
        BY <3>9
        DEF ThumbReady, ThumbNoPreview, Regenerate, ApplyCommit, ResolveFails, Read, SweepLease,
            rows
      <3>10. ASSUME ActivatorRead \/ GapScan \/ Restart
                      \/ \E m \in Asset, g \in Model : EnqueueClaim(m, g)
             PROVE  UNCHANGED state
        BY <3>10 DEF ActivatorRead, GapScan, Restart, EnqueueClaim, rows
      <3>11. ASSUME WorkerStep, ~ResolveGeneration
             PROVE  UNCHANGED state
        <4>1. ASSUME NEW m \in Asset,
                     Resolve(m) \/ BlockClaim(m) \/ SkipClaim(m) \/ RejectClaim(m)
              PROVE  UNCHANGED state
          BY <4>1 DEF Resolve, Read, BlockClaim, SkipClaim, RejectClaim, rows
        <4>2. ASSUME NEW S, FailClaims(S) PROVE UNCHANGED state
          BY <4>2 DEF FailClaims, rows
        <4> QED
          BY <3>11, <4>1, <4>2 DEF WorkerStep, ClaimBatch, CommitBatch, rows
      <3> QED
        BY <3>1, <3>4, <3>5, <3>6, <3>7, <3>8, <3>9, <3>10, <3>11 DEF Next
    <2> QED
      BY <2>3, FS_Singleton
  <1> QED
    BY <1>1, SpecIInv, PTL DEF Spec, ActiveIsKept

\* What this module lets happen to a preview is what PreviewLedger lets happen
\* to it, with every rendering an image of its own.
THEOREM PreviewsImplemented == Spec => ImplementsPreviews
  <1>1. Init => Previews!Init
    BY DEF Init, Previews!Init
  <1>2. TypeOK /\ [Next]_evars => [Previews!Next]_Previews!pvars
    <2> SUFFICES ASSUME TypeOK, [Next]_evars
                 PROVE  Previews!Next \/ UNCHANGED Previews!pvars
      OBVIOUS
    <2>1. thumb \in [Asset -> {"pending", "ready", "no_preview"}] /\ image \in [Asset -> Nat]
      BY DEF TypeOK
    <2>2. ASSUME UNCHANGED <<thumb, image>> PROVE UNCHANGED Previews!pvars
      BY <2>2 DEF Previews!pvars
    <2>3. ASSUME NEW m \in Asset, ThumbReady(m) PROVE Previews!Next
      <3>1. /\ thumb[m] = "pending"
            /\ thumb' = [thumb EXCEPT ![m] = "ready"]
            /\ image' = [image EXCEPT ![m] = @ + 1]
        BY <2>3 DEF ThumbReady, NewImage
      <3>2. Previews!Render(m)
        BY <2>1, <3>1 DEF Previews!Render, Previews!NewImage
      <3> QED
        BY <3>2 DEF Previews!Next
    <2>4. ASSUME NEW m \in Asset, ThumbNoPreview(m) PROVE Previews!Next
      <3>1. /\ thumb[m] = "pending"
            /\ thumb' = [thumb EXCEPT ![m] = "no_preview"]
            /\ UNCHANGED image
        BY <2>4 DEF ThumbNoPreview
      <3>2. Previews!GiveUp(m, "no_preview")
        BY <2>1, <3>1 DEF Previews!GiveUp
      <3> QED
        BY <3>2 DEF Previews!Next
    <2>5. ASSUME NEW m \in Asset, Regenerate(m) PROVE Previews!Next
      <3>1. thumb' = [thumb EXCEPT ![m] = "pending"] /\ UNCHANGED image
        BY <2>5 DEF Regenerate
      <3>2. Previews!Again({m})
        BY <2>1, <3>1 DEF Previews!Again, Previews!Withdraw
      <3> QED
        BY <3>2 DEF Previews!Next
    <2>6. ASSUME NEW m \in Asset, ApplyCommit(m) PROVE Previews!Next
      <3>1. /\ thumb' = [thumb EXCEPT ![m] = "pending"]
            /\ image' = [image EXCEPT ![m] = @ + 1]
        BY <2>6 DEF ApplyCommit, NewImage
      <3>2. Previews!Commit(m)
        BY <2>1, <3>1 DEF Previews!Commit, Previews!NewImage, Previews!Withdraw
      <3> QED
        BY <3>2 DEF Previews!Next
    <2>7. CASE WorkerStep
      BY <2>2, <2>7
      DEF WorkerStep, ClaimBatch, Resolve, Read, BlockClaim, SkipClaim, RejectClaim,
          ResolveGeneration, FailClaims, CommitBatch, assets
    <2>8. CASE \/ \E g \in Model : Apply(g) \/ PromoteRetired(g) \/ Compact(g)
               \/ ActivatorRead \/ ActivatorPromote \/ GapScan \/ Backfill
               \/ \E m \in Asset, g \in Model : EnqueueClaim(m, g)
      BY <2>2, <2>8
      DEF Apply, PromoteRetired, Compact, ActivatorRead, ActivatorPromote, GapScan, Backfill,
          EnqueueClaim, assets
    <2>9. CASE \/ \E m \in Asset : ResolveFails(m) \/ SweepLease(m)
               \/ Restart
               \/ UNCHANGED evars
      BY <2>2, <2>9 DEF ResolveFails, Read, SweepLease, Restart, evars, assets
    <2> QED
      BY <2>3, <2>4, <2>5, <2>6, <2>7, <2>8, <2>9 DEF Next
  <1> QED
    BY <1>1, <1>2, TypeCorrect, PTL DEF Spec, ImplementsPreviews, Previews!Spec

-----------------------------------------------------------------------------
(* What a step may do to one vector.                                       *)

Kept(g, m) == vec'[g][m] = vec[g][m] /\ image'[m] = image[m]

\* A new image takes the mappings of the live generations with it.
Redrawn(g, m) ==
    /\ image'[m] # image[m]
    /\ state'[g] = state[g]
    /\ IF g \in Live THEN vec'[g][m] = 0 ELSE vec'[g][m] = vec[g][m]

Stored(g, m) ==
    /\ vec'[g][m] # 0
    /\ vec'[g][m] = image'[m]
    /\ state'[g] = state[g]

Gone(g, m) == state[g] = "retired" /\ state'[g] = "none" /\ image'[m] = image[m]

\* A generation comes into service from building, or by an operator's hand.
Lifecycle(g) ==
    state'[g] \in {"building", "active"} =>
        \/ state[g] \in {"none", "building", "active"}
        \/ state[g] = "retired" /\ state'[g] = "active"

VectorStep(g, m) ==
    /\ Kept(g, m) \/ Redrawn(g, m) \/ Stored(g, m) \/ Gone(g, m)
    /\ Lifecycle(g)

LEMMA ImageStep ==
    ASSUME TypeOK, NEW n \in Asset, NewImage(n), DropMappings(n), UNCHANGED state
    PROVE  \A g \in Model, m \in Asset : VectorStep(g, m)
  <1> SUFFICES ASSUME NEW g \in Model, NEW m \in Asset
               PROVE  VectorStep(g, m)
    OBVIOUS
  <1>1. vec' = [h \in Model |-> IF h \in Live THEN [vec[h] EXCEPT ![n] = 0] ELSE vec[h]]
    BY DEF DropMappings
  <1>2. vec[g] \in [Asset -> Nat] /\ state[g] \in {"none", "building", "active", "retired"}
    BY DEF TypeOK
  <1>3. image'[n] = image[n] + 1 /\ image[n] \in Nat /\ \A k \in Asset \ {n} : image'[k] = image[k]
    BY DEF TypeOK, NewImage
  <1>4. Lifecycle(g)
    BY <1>2 DEF Lifecycle
  <1>5. CASE m = n
    BY <1>1, <1>2, <1>3, <1>4, <1>5 DEF VectorStep, Redrawn
  <1>6. CASE m # n
    BY <1>1, <1>2, <1>3, <1>4, <1>6 DEF VectorStep, Kept
  <1> QED
    BY <1>5, <1>6

\* A claim that is still held stores the present image.
LEMMA StoreStep ==
    ASSUME IInv, CommitBatch
    PROVE  \A g \in Model, m \in Asset : VectorStep(g, m)
  <1> SUFFICES ASSUME NEW g \in Model, NEW m \in Asset
               PROVE  VectorStep(g, m)
    OBVIOUS
  <1>1. /\ vec \in [Model -> [Asset -> Nat]]
        /\ state[g] \in {"none", "building", "active", "retired"}
        /\ UNCHANGED <<image, state>>
    BY DEF IInv, TypeOK, CommitBatch, assets, rows
  <1>2. Lifecycle(g)
    BY <1>1 DEF Lifecycle
  <1>3. CASE /\ g = working
             /\ m \in InBatch
             /\ \A k \in InBatch : Held(k)
    <2>1. vec' = [vec EXCEPT ![working] = [k \in Asset |-> IF k \in InBatch THEN input[k] ELSE @[k]]]
      BY <1>3 DEF CommitBatch
    <2>2. vec'[g][m] = input[m]
      BY <1>1, <1>3, <2>1
    <2>3. batch[m] = "ready"
      BY <1>3 DEF CommitBatch, IInv, PhaseInv
    <2>4. input[m] # 0 /\ input[m] = image[m]
      BY <1>3, <2>3 DEF IInv, InputInv
    <2> QED
      BY <1>1, <1>2, <2>2, <2>4 DEF VectorStep, Stored
  <1>4. CASE /\ ~(g = working /\ m \in InBatch)
             /\ \A k \in InBatch : Held(k)
    <2>1. vec' = [vec EXCEPT ![working] = [k \in Asset |-> IF k \in InBatch THEN input[k] ELSE @[k]]]
      BY <1>4 DEF CommitBatch
    <2>2. vec'[g][m] = vec[g][m]
      BY <1>1, <1>4, <2>1
    <2> QED
      BY <1>1, <1>2, <2>2 DEF VectorStep, Kept
  <1>5. CASE \E k \in InBatch : ~Held(k)
    <2>1. UNCHANGED vec
      BY <1>5 DEF CommitBatch, vectors
    <2> QED
      BY <1>1, <1>2, <2>1 DEF VectorStep, Kept
  <1> QED
    BY <1>3, <1>4, <1>5

\* Steps that change no vector and no image, and leave retired generations
\* retired or promote them.
LEMMA KeepStep ==
    ASSUME TypeOK, UNCHANGED <<vec, image>>,
           \A g \in Model :
               \/ state'[g] = state[g]
               \/ state[g] = "none"
               \/ state'[g] \in {"active", "retired"}
    PROVE  \A g \in Model, m \in Asset : VectorStep(g, m)
  BY DEF TypeOK, VectorStep, Kept, Lifecycle

LEMMA NextVectorStep ==
    ASSUME IInv, [Next]_evars
    PROVE  \A g \in Model, m \in Asset : VectorStep(g, m)
  <1>1. TypeOK
    BY DEF IInv
  <1>2. ASSUME NEW n \in Asset, ThumbReady(n) PROVE \A g \in Model, m \in Asset : VectorStep(g, m)
    BY <1>1, <1>2, ImageStep DEF ThumbReady, OnThumbRegen, rows
  <1>3. ASSUME NEW n \in Asset, ApplyCommit(n) PROVE \A g \in Model, m \in Asset : VectorStep(g, m)
    BY <1>1, <1>3, ImageStep DEF ApplyCommit, rows
  <1>4. CASE CommitBatch
    BY <1>4, StoreStep
  <1>5. ASSUME NEW h \in Model, Compact(h) PROVE \A g \in Model, m \in Asset : VectorStep(g, m)
    <2>1. /\ state[h] = "retired"
          /\ state'[h] = "none"
          /\ UNCHANGED image
          /\ \A g \in Model \ {h} : vec'[g] = vec[g] /\ state'[g] = state[g]
      BY <1>1, <1>5 DEF Compact, TypeOK, assets
    <2> SUFFICES ASSUME NEW g \in Model, NEW m \in Asset
                 PROVE  VectorStep(g, m)
      OBVIOUS
    <2>2. CASE g = h
      BY <2>1, <2>2 DEF VectorStep, Gone, Lifecycle
    <2>3. CASE g # h
      BY <1>1, <2>1, <2>3 DEF VectorStep, Kept, Lifecycle, TypeOK
    <2> QED
      BY <2>2, <2>3
  <1>6. CASE (\E g \in Model : Apply(g)) \/ Backfill \/ ResolveGeneration
    <2>1. PICK h \in Model : FindOrCreateBuilding(h)
      BY <1>1, <1>6 DEF Apply, Backfill, ResolveGeneration, TypeOK, IInv, PhaseInv, Classifying
    <2>2. \A g \in Model : state'[g] = state[g] \/ state[g] = "none"
      BY <1>1, <2>1 DEF FindOrCreateBuilding, TypeOK, rows
    <2>3. UNCHANGED <<vec, image>>
      BY <1>6 DEF Apply, Backfill, ResolveGeneration, vectors, assets
    <2> QED
      BY <1>1, <2>2, <2>3, KeepStep
  <1>7. CASE ActivatorPromote \/ \E g \in Model : PromoteRetired(g)
    <2>1. \A g \in Model : state'[g] = state[g] \/ state'[g] \in {"active", "retired"}
      BY <1>1, <1>7 DEF ActivatorPromote, PromoteRetired, Promote, Active, TypeOK
    <2>2. UNCHANGED <<vec, image>>
      BY <1>7 DEF ActivatorPromote, PromoteRetired, vectors, assets
    <2> QED
      BY <1>1, <2>1, <2>2, KeepStep
  <1>8. CASE \/ \E m \in Asset : ThumbNoPreview(m) \/ Regenerate(m)
             \/ ActivatorRead \/ GapScan
             \/ \E m \in Asset, g \in Model : EnqueueClaim(m, g)
    <2>1. UNCHANGED <<vec, image, state>>
      BY <1>8
      DEF ThumbNoPreview, Regenerate, ActivatorRead, GapScan, EnqueueClaim, vectors, assets, rows
    <2> QED
      BY <1>1, <2>1, KeepStep
  <1>9. CASE \/ ClaimBatch
             \/ \E m \in Asset : Resolve(m) \/ BlockClaim(m) \/ SkipClaim(m) \/ RejectClaim(m)
             \/ \E S \in (SUBSET InBatch) \ {{}} : FailClaims(S)
    <2>1. UNCHANGED <<vec, image, state>>
      BY <1>9
      DEF ClaimBatch, Resolve, Read, BlockClaim, SkipClaim, RejectClaim, FailClaims,
          vectors, assets, rows
    <2> QED
      BY <1>1, <2>1, KeepStep
  <1>10. CASE \/ \E m \in Asset : ResolveFails(m) \/ SweepLease(m)
              \/ Restart
              \/ UNCHANGED evars
    <2>1. UNCHANGED <<vec, image, state>>
      BY <1>10 DEF ResolveFails, Read, SweepLease, Restart, vectors, assets, rows, evars
    <2> QED
      BY <1>1, <2>1, KeepStep
  <1> QED
    BY <1>2, <1>3, <1>4, <1>5, <1>6, <1>7, <1>8, <1>9, <1>10 DEF Next, WorkerStep

\* With operators who promote as they please, a vector in service is of an
\* older image only in a generation that came back from retirement.
THEOREM StalePromoted == Spec => StaleByPromotionOnly
  <1>1. IInv /\ [Next]_evars =>
          [\A g \in Model, m \in Asset :
             Stale(g, m)' => Stale(g, m) \/ (state[g] = "retired" /\ state'[g] = "active")]_evars
    <2> SUFFICES ASSUME IInv, Next, NEW g \in Model, NEW m \in Asset, Stale(g, m)'
                 PROVE  Stale(g, m) \/ (state[g] = "retired" /\ state'[g] = "active")
      OBVIOUS
    <2>1. VectorStep(g, m)
      BY NextVectorStep
    <2>2. state'[g] \in {"building", "active"} /\ vec'[g][m] \notin {0, image'[m]}
      BY DEF Stale, Live
    <2>3. Kept(g, m)
      <3>1. ~Gone(g, m) /\ ~Stored(g, m)
        BY <2>2 DEF Gone, Stored
      <3>2. ~Redrawn(g, m)
        BY <2>2 DEF Redrawn, Live
      <3> QED
        BY <2>1, <3>1, <3>2 DEF VectorStep
    <2>4. state[g] # "none"
      BY <2>2, <2>3 DEF Kept, IInv, NoRowNoVectors
    <2> QED
      BY <2>1, <2>2, <2>3, <2>4 DEF VectorStep, Lifecycle, Kept, Stale, Live
  <1> QED
    BY <1>1, SpecIInv, PTL DEF Spec, StaleByPromotionOnly

\* No lost claim, replaced vector, sweep or restart costs a photo the vector
\* it has: it goes with the image it shows or with a generation that is retired.
THEOREM VectorsKept == Spec => VectorsAreKept
  <1>1. IInv /\ [Next]_evars =>
          [\A g \in Model, m \in Asset :
             vec[g][m] # 0 /\ vec'[g][m] = 0 =>
                 image'[m] # image[m] \/ (state[g] = "retired" /\ state'[g] = "none")]_evars
    BY NextVectorStep DEF VectorStep, Kept, Redrawn, Stored, Gone
  <1> QED
    BY <1>1, SpecIInv, PTL DEF Spec, VectorsAreKept
=============================================================================
