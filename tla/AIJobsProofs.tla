---------------------------- MODULE AIJobsProofs ----------------------------
(***************************************************************************)
(* Safety of the tag and caption jobs for every set of photos, owners and  *)
(* fingerprints and every limit.  The argument for ResultIsCurrent: a      *)
(* commit removes the job of its photo, only a claim makes a job working   *)
(* again, and the worker does not claim while it has a photo in hand.  So  *)
(* what a call was given is still current whenever its claim still holds.  *)
(***************************************************************************)
EXTENDS AIJobs, TLAPS

JobRec == {NoJob} \cup
    [status : {"pending", "working", "blocked"}, model : Model,
     attempts : 0..(MaxAttempts - 1), reason : {"none", "ack", "thumb"}]
ItemRec == [asset : Asset \cup {None}, image : 0..(MaxEdits + 1),
            at : {"none", "owner", "unacked", "preview", "unready", "previewless",
                  "skipping", "calling", "failing"}]
ScanRec == [todo : SUBSET Asset, clear : SUBSET Asset, model : Model \cup {None}, force : BOOLEAN]
ResultRec == [model : Model \cup {None}, image : 0..(MaxEdits + 1)]

\* TypeOK in these sets.
Typed ==
    /\ content \in [Asset -> 1..(MaxEdits + 1)]
    /\ thumb \in [Asset -> {"pending", "ready", "no_preview", "failed"}]
    /\ acked \subseteq Principal
    /\ config \in Model
    /\ enabled \in BOOLEAN
    /\ result \in [Asset -> ResultRec]
    /\ failure \in [Asset -> SUBSET Model]
    /\ skipped \in [Asset -> BOOLEAN]
    /\ job \in [Asset -> JobRec]
    /\ \A m \in Asset : job[m].status = "blocked" <=> job[m].reason # "none"
    /\ phase \in {"idle", "acked", "thumbs", "claim", "work"}
    /\ using \in Model \cup {None}
    /\ hand \subseteq Asset
    /\ item \in ItemRec
    /\ scan \in [Scanner -> ScanRec]
    /\ edits \in 0..MaxEdits
    /\ faults \in 0..MaxFaults

\* Every version of a file but its first takes an edit.
Bounded == \A m \in Asset : content[m] <= edits + 1

\* A batch runs under a snapshot, and only while it runs is a claim in hand.
BatchInv ==
    /\ phase # "idle" => using \in Model
    /\ item # NoItem \/ hand # {} => phase = "work"

ScanInv == \A k \in Scanner : scan[k].todo # {} \/ scan[k].clear # {} => scan[k].model \in Model

\* As long as the claim holds, what the provider was sent is what is current.
CallInv == \A m \in Asset : Handling(m, "calling") /\ Held(m) => item.image = content[m]

IInv ==
    /\ TypeOK
    /\ Bounded
    /\ BatchInv
    /\ ScanInv
    /\ CallInv
    /\ ResultIsCurrent

USE AIJobsAssumption

LEMMA TypeParts == TypeOK <=> Typed
  BY DEF TypeOK, Typed, JobRec, ItemRec, ScanRec, ResultRec

LEMMA TypeNext == Typed' => TypeOK'
  BY DEF TypeOK, Typed, JobRec, ItemRec, ScanRec, ResultRec

USE DEF Typed

LEMMA JobFacts ==
    /\ NoJob \in JobRec
    /\ \A g \in Model : Pending(g) \in JobRec /\ Pending(g).status = "pending" /\ Pending(g).reason = "none"
    /\ NoJob.status = "none" /\ NoJob.reason = "none"
  <1>1. NoJob \in JobRec /\ NoJob.status = "none" /\ NoJob.reason = "none"
    BY DEF JobRec, NoJob
  <1>2. ASSUME NEW g \in Model
        PROVE  Pending(g) = [status |-> "pending", model |-> g, attempts |-> 0, reason |-> "none"]
    BY DEF Pending, NoJob
  <1>3. 0 \in 0..(MaxAttempts - 1)
    OBVIOUS
  <1> QED
    BY <1>1, <1>2, <1>3 DEF JobRec

LEMMA ItemFacts == NoItem \in ItemRec /\ NoItem.asset = None /\ NoItem.at = "none"
  BY DEF ItemRec, NoItem

LEMMA ScanFacts == NoScan \in ScanRec /\ NoScan.todo = {} /\ NoScan.clear = {}
  BY DEF ScanRec, NoScan

LEMMA ResultFacts == NoResult \in ResultRec
  BY DEF ResultRec, NoResult

LEMMA InitIInv == Init => IInv
  <1> SUFFICES ASSUME Init
               PROVE  IInv
    OBVIOUS
  <1>1. TypeOK
    <2>1. /\ job \in [Asset -> JobRec]
          /\ \A m \in Asset : job[m].status = "blocked" <=> job[m].reason # "none"
      BY JobFacts DEF Init
    <2>2. content \in [Asset -> 1..(MaxEdits + 1)] /\ edits \in 0..MaxEdits /\ faults \in 0..MaxFaults
      BY DEF Init
    <2> QED
      BY <2>1, <2>2, ItemFacts, ScanFacts, ResultFacts, TypeParts DEF Init
  <1>2. Bounded
    BY DEF Init, Bounded
  <1>3. BatchInv
    BY DEF Init, BatchInv
  <1>4. ScanInv
    BY ScanFacts DEF Init, ScanInv
  <1>5. CallInv
    BY ItemFacts DEF Init, CallInv, Handling
  <1>6. ResultIsCurrent
    BY DEF Init, ResultIsCurrent
  <1> QED
    BY <1>1, <1>2, <1>3, <1>4, <1>5, <1>6 DEF IInv

LEMMA EditBound ==
    ASSUME TypeOK, Edit
    PROVE  /\ edits' = edits + 1 /\ edits' \in 0..MaxEdits /\ faults' = faults /\ faults \in 0..MaxFaults
           /\ edits \in Nat
  BY DEF TypeOK, Edit

LEMMA FaultBound ==
    ASSUME TypeOK, Fault
    PROVE  /\ edits' = edits /\ faults' \in 0..MaxFaults
  BY DEF TypeOK, Fault

\* A step that leaves results, files and the call in hand alone, and makes no
\* job working that was not, keeps what depends on them.
LEMMA CallKept ==
    ASSUME IInv,
           UNCHANGED <<content, result>>,
           item' = item \/ item' = NoItem \/ \A m \in Asset : ~Handling(m, "calling")',
           \A m \in Asset : Handling(m, "calling") /\ Held(m)' => Held(m)
    PROVE  CallInv' /\ ResultIsCurrent'
  <1>1. ResultIsCurrent'
    BY DEF IInv, ResultIsCurrent
  <1>2. CallInv'
    <2>1. CASE item' = item
      BY <2>1 DEF IInv, CallInv, Handling, Held
    <2>2. CASE item' = NoItem
      BY <2>2, ItemFacts DEF CallInv, Handling
    <2>3. CASE \A m \in Asset : ~Handling(m, "calling")'
      BY <2>3 DEF CallInv
    <2> QED
      BY <2>1, <2>2, <2>3
  <1> QED
    BY <1>1, <1>2

\* The steps around the queue other than a commit.
LEMMA AroundIInv ==
    ASSUME IInv,
           \/ \E m \in Asset : ThumbSettles(m)
           \/ \E S \in SUBSET Asset : Regenerate(S)
           \/ \E p \in Principal : Acknowledge(p)
           \/ \E g \in Model, on \in BOOLEAN : Apply(g, on)
    PROVE  IInv'
  <1> USE DEF avars, media, settings, outcomes, worker, bounds
  <1>1. UNCHANGED <<content, result, failure, skipped, job, phase, using, hand, item, scan>>
    BY DEF ThumbSettles, Regenerate, Acknowledge, Apply
  <1>2. TypeOK'
    <2>1. /\ thumb' \in [Asset -> {"pending", "ready", "no_preview", "failed"}]
          /\ acked' \subseteq Principal
          /\ config' \in Model
          /\ enabled' \in BOOLEAN
      BY DEF IInv, TypeOK, ThumbSettles, Regenerate, Acknowledge, Apply
    <2>2. edits' \in 0..MaxEdits /\ faults' \in 0..MaxFaults
      BY EditBound DEF IInv, TypeOK, ThumbSettles, Regenerate, Acknowledge, Apply
    <2> QED
      BY <1>1, <2>1, <2>2 DEF IInv, TypeOK
  <1>3. edits' >= edits /\ edits' \in Nat /\ edits \in Nat
    BY EditBound DEF IInv, TypeOK, ThumbSettles, Regenerate, Acknowledge, Apply
  <1>4. Bounded'
    BY <1>1, <1>3 DEF IInv, TypeOK, Bounded
  <1>5. BatchInv' /\ ScanInv'
    BY <1>1 DEF IInv, BatchInv, ScanInv
  <1>6. CallInv' /\ ResultIsCurrent'
    BY <1>1, CallKept DEF Held, Handling
  <1> QED
    BY <1>2, <1>4, <1>5, <1>6 DEF IInv

LEMMA CommitIInv ==
    ASSUME IInv, NEW m \in Asset, ApplyCommit(m)
    PROVE  IInv'
  <1> USE DEF media, settings, outcomes, worker, bounds
  <1>1. /\ edits' = edits + 1 /\ edits' \in 0..MaxEdits /\ faults' \in 0..MaxFaults /\ edits \in Nat
        /\ content' = [content EXCEPT ![m] = content[m] + 1]
        /\ thumb' = [thumb EXCEPT ![m] = "pending"]
        /\ result' = [result EXCEPT ![m] = NoResult]
        /\ job' = [job EXCEPT ![m] = NoJob]
        /\ failure' = [failure EXCEPT ![m] = {}]
        /\ skipped' = [skipped EXCEPT ![m] = FALSE]
        /\ UNCHANGED <<acked, config, enabled, phase, using, hand, item, scan>>
    BY EditBound DEF IInv, TypeOK, ApplyCommit
  <1>2. \A n \in Asset : content'[n] \in Nat /\ content'[n] >= 1 /\ content'[n] <= edits + 2
    BY <1>1 DEF IInv, TypeOK, Bounded
  <1>3. Bounded'
    BY <1>1, <1>2 DEF Bounded
  <1>4. TypeOK'
    <2>1. content' \in [Asset -> 1..(MaxEdits + 1)]
      BY <1>1, <1>2 DEF IInv, TypeOK
    <2>2. job' \in [Asset -> JobRec] /\ \A n \in Asset : job'[n].status = "blocked" <=> job'[n].reason # "none"
      BY <1>1, JobFacts, TypeParts DEF IInv
    <2>3. result' \in [Asset -> ResultRec]
      BY <1>1, ResultFacts, TypeParts DEF IInv
    <2>4. /\ thumb' \in [Asset -> {"pending", "ready", "no_preview", "failed"}]
          /\ failure' \in [Asset -> SUBSET Model]
          /\ skipped' \in [Asset -> BOOLEAN]
      BY <1>1, TypeParts DEF IInv
    <2> QED
      BY <1>1, <2>1, <2>2, <2>3, <2>4, TypeParts, TypeNext DEF IInv
  <1>5. BatchInv' /\ ScanInv'
    BY <1>1 DEF IInv, BatchInv, ScanInv
  <1>6. CallInv'
    <2> SUFFICES ASSUME NEW n \in Asset, Handling(n, "calling")', Held(n)'
                 PROVE  item'.image = content'[n]
      BY DEF CallInv
    <2>1. n # m
      BY <1>1, JobFacts, TypeParts DEF IInv, Held
    <2> QED
      BY <1>1, <2>1, TypeParts DEF IInv, CallInv, Handling, Held
  <1>7. ResultIsCurrent'
    BY <1>1 DEF IInv, TypeOK, ResultIsCurrent
  <1> QED
    BY <1>3, <1>4, <1>5, <1>6, <1>7 DEF IInv

\* The scans change jobs to pending ones, failures and themselves.
LEMMA ScanKept ==
    ASSUME IInv,
           UNCHANGED <<content, thumb, acked, config, enabled, result, skipped, phase, using, hand, item>>,
           failure' \in [Asset -> SUBSET Model],
           job' \in [Asset -> JobRec],
           \A m \in Asset : \/ job'[m] = job[m]
                            \/ job'[m].status = "pending" /\ job'[m].reason = "none",
           scan' \in [Scanner -> ScanRec],
           ScanInv',
           edits' >= edits, edits' \in 0..MaxEdits, faults' \in 0..MaxFaults
    PROVE  IInv'
  <1>1. \A m \in Asset : job'[m].status = "blocked" <=> job'[m].reason # "none"
    BY DEF IInv, TypeOK
  <1>2. TypeOK'
    BY <1>1, TypeParts, TypeNext DEF IInv
  <1>3. Bounded'
    <2>1. edits \in Nat /\ edits' \in Nat /\ \A m \in Asset : content[m] \in Nat
      BY DEF IInv, TypeOK
    <2> QED
      BY <2>1 DEF IInv, Bounded
  <1>4. BatchInv'
    BY DEF IInv, BatchInv
  <1>5. CallInv' /\ ResultIsCurrent'
    BY CallKept DEF Held
  <1> QED
    BY <1>2, <1>3, <1>4, <1>5 DEF IInv

\* A scan that begins is under the settings in force.
LEMMA BeginKept ==
    ASSUME TypeOK, ScanInv, NEW k \in Scanner, NEW todo \in SUBSET Asset, NEW clear \in SUBSET Asset,
           NEW force \in BOOLEAN, Begin(k, todo, clear, force)
    PROVE  scan' \in [Scanner -> ScanRec] /\ ScanInv'
  <1> DEFINE r == [todo |-> todo, clear |-> clear, model |-> config, force |-> force]
  <1>1. r \in ScanRec /\ r.model \in Model
    BY DEF TypeOK, ScanRec
  <1>2. scan' = [scan EXCEPT ![k] = r]
    BY DEF Begin
  <1> HIDE DEF r
  <1> QED
    BY <1>1, <1>2, TypeParts DEF ScanInv

LEMMA BeginIInv ==
    ASSUME IInv,
           \/ \E p \in Principal, force \in BOOLEAN : Backfill(p, force)
           \/ \E p \in Principal : RetryFailed(p)
           \/ \E m \in Asset : RetryPhoto(m)
           \/ GapScan
    PROVE  IInv'
  <1> USE DEF media, settings, outcomes, worker, bounds
  <1>1. "gap" \in Scanner /\ "owner" \in Scanner /\ Candidates(config) \subseteq Asset
    BY DEF Scanner, Candidates
  <1>2. /\ UNCHANGED <<content, thumb, acked, config, enabled, result, skipped, job, phase, using, hand, item>>
        /\ failure' \in [Asset -> SUBSET Model]
        /\ edits' >= edits /\ edits' \in 0..MaxEdits /\ faults' \in 0..MaxFaults
    <2>1. UNCHANGED <<content, thumb, acked, config, enabled, result, skipped, job, phase, using, hand, item>>
      BY DEF Backfill, RetryFailed, RetryPhoto, GapScan
    <2>2. failure' \in [Asset -> SUBSET Model]
      <3>1. CASE \E p \in Principal : RetryFailed(p)
        <4>1. PICK p \in Principal : RetryFailed(p)
          BY <3>1
        <4> DEFINE listed == {m \in Of(p) : config \in failure[m]}
        <4>2. failure' = [m \in Asset |-> IF m \in listed THEN failure[m] \ {config} ELSE failure[m]]
          BY <4>1 DEF RetryFailed
        <4> HIDE DEF listed
        <4> QED
          BY <4>2, TypeParts DEF IInv
      <3>2. CASE UNCHANGED failure
        BY <3>2, TypeParts DEF IInv
      <3> QED
        BY <3>1, <3>2 DEF Backfill, RetryPhoto, GapScan
    <2>3. Edit \/ UNCHANGED <<edits, faults>>
      BY DEF Backfill, RetryFailed, RetryPhoto, GapScan
    <2>4. edits' >= edits /\ edits' \in 0..MaxEdits /\ faults' \in 0..MaxFaults
      BY <2>3, EditBound DEF IInv, TypeOK
    <2> QED
      BY <2>1, <2>2, <2>4
  <1>3. scan' \in [Scanner -> ScanRec] /\ ScanInv'
    <2>1. CASE \E p \in Principal, force \in BOOLEAN : Backfill(p, force)
      <3>1. PICK p \in Principal, force \in BOOLEAN : Backfill(p, force)
        BY <2>1
      <3> DEFINE todo == IF force THEN Of(p) ELSE Candidates(config) \cap Of(p)
      <3>2. todo \in SUBSET Asset /\ {} \in SUBSET Asset
        BY <1>1 DEF Of
      <3>3. Begin("owner", todo, {}, force)
        BY <3>1 DEF Backfill
      <3> HIDE DEF todo
      <3> QED
        BY <1>1, <3>2, <3>3, BeginKept DEF IInv
    <2>2. CASE \E p \in Principal : RetryFailed(p)
      <3>1. PICK p \in Principal : RetryFailed(p)
        BY <2>2
      <3> DEFINE todo == {m \in Of(p) : config \in failure[m]}
      <3>2. todo \in SUBSET Asset /\ {} \in SUBSET Asset /\ TRUE \in BOOLEAN
        BY DEF Of
      <3>3. Begin("owner", todo, {}, TRUE)
        BY <3>1 DEF RetryFailed
      <3> HIDE DEF todo
      <3> QED
        BY <1>1, <3>2, <3>3, BeginKept DEF IInv
    <2>3. CASE \E m \in Asset : RetryPhoto(m)
      <3>1. PICK m \in Asset : RetryPhoto(m)
        BY <2>3
      <3>2. {m} \in SUBSET Asset /\ TRUE \in BOOLEAN
        OBVIOUS
      <3>3. Begin("owner", {m}, {m}, TRUE)
        BY <3>1 DEF RetryPhoto
      <3> QED
        BY <1>1, <3>2, <3>3, BeginKept DEF IInv
    <2>4. CASE GapScan
      <3>1. First(Candidates(config)) \in SUBSET Asset /\ {} \in SUBSET Asset /\ FALSE \in BOOLEAN
        BY <1>1 DEF First
      <3>2. Begin("gap", First(Candidates(config)), {}, FALSE)
        BY <2>4 DEF GapScan
      <3> QED
        BY <1>1, <3>1, <3>2, BeginKept DEF IInv
    <2> QED
      BY <2>1, <2>2, <2>3, <2>4
  <1>4. job' \in [Asset -> JobRec] /\ \A m \in Asset : job'[m] = job[m]
    BY <1>2, TypeParts DEF IInv
  <1> QED
    BY <1>2, <1>3, <1>4, ScanKept

LEMMA ScanIInv ==
    ASSUME IInv, NEW k \in Scanner, ScanStep(k)
    PROVE  IInv'
  <1> USE DEF media, settings, outcomes, worker, bounds
  <1>1. PICK m \in Asset : ScanOne(k, m) \/ (k = "owner" /\ ClearFailure(m))
    BY DEF ScanStep
  <1>2. scan[k] \in ScanRec /\ job \in [Asset -> JobRec] /\ "owner" \in Scanner
    BY TypeParts DEF IInv, Scanner
  <1>3. edits' >= edits /\ edits' \in 0..MaxEdits /\ faults' \in 0..MaxFaults
    BY <1>1 DEF IInv, TypeOK, ScanOne, ClearFailure
  <1>4. CASE ScanOne(k, m)
    <2>1. scan[k].model \in Model
      BY <1>4 DEF IInv, ScanInv, ScanOne
    <2>2. job' = job \/ job' = [job EXCEPT ![m] = IF job[m].model = scan[k].model THEN job[m] ELSE Pending(scan[k].model)]
      BY <1>4 DEF ScanOne, EnqueueClaim
    <2>3. /\ job' \in [Asset -> JobRec]
          /\ \A n \in Asset : \/ job'[n] = job[n]
                              \/ job'[n].status = "pending" /\ job'[n].reason = "none"
      BY <1>2, <2>1, <2>2, JobFacts
    <2> DEFINE s == IF scan[k].todo = {m} /\ scan[k].clear = {} THEN NoScan
                      ELSE [scan[k] EXCEPT !.todo = scan[k].todo \ {m}]
    <2>4. scan' = [scan EXCEPT ![k] = s]
      BY <1>4 DEF ScanOne
    <2>5. s \in ScanRec /\ (s.todo # {} \/ s.clear # {} => s.model \in Model)
      BY <1>2, <2>1, ScanFacts DEF ScanRec
    <2> HIDE DEF s
    <2>6. scan' \in [Scanner -> ScanRec]
      BY <2>4, <2>5, TypeParts DEF IInv
    <2>7. ScanInv'
      BY <2>4, <2>5, TypeParts DEF IInv, ScanInv
    <2>8. /\ UNCHANGED <<content, thumb, acked, config, enabled, result, skipped, phase, using, hand, item>>
          /\ failure' \in [Asset -> SUBSET Model]
      BY <1>4 DEF ScanOne, IInv, TypeOK
    <2> QED
      BY <1>3, <2>3, <2>6, <2>7, <2>8, ScanKept
  <1>5. CASE ClearFailure(m)
    <2>1. scan' = [scan EXCEPT !["owner"] = NoScan]
      BY <1>5 DEF ClearFailure
    <2>2. scan' \in [Scanner -> ScanRec]
      BY <1>2, <2>1, ScanFacts, TypeParts DEF IInv
    <2>3. ScanInv'
      BY <1>2, <2>1, ScanFacts, TypeParts DEF IInv, ScanInv
    <2>4. /\ UNCHANGED <<content, thumb, acked, config, enabled, result, skipped, job, phase, using, hand, item>>
          /\ failure' \in [Asset -> SUBSET Model]
      BY <1>5 DEF ClearFailure, IInv, TypeOK
    <2> QED
      BY <1>2, <1>3, <2>2, <2>3, <2>4, ScanKept
  <1> QED
    BY <1>1, <1>4, <1>5

\* What the statements of the queue make of a row is a row.
LEMMA UnblockRow ==
    ASSUME NEW r \in JobRec, r.status = "blocked"
    PROVE  LET p == [r EXCEPT !.status = "pending", !.reason = "none"]
           IN  p \in JobRec /\ p.status = "pending" /\ p.reason = "none"
  <1>1. r \in [status : {"pending", "working", "blocked"}, model : Model,
              attempts : 0..(MaxAttempts - 1), reason : {"none", "ack", "thumb"}]
    BY DEF JobRec, NoJob
  <1> QED
    BY <1>1 DEF JobRec

LEMMA ClaimRow ==
    ASSUME NEW r \in JobRec, r.status = "pending"
    PROVE  LET p == [r EXCEPT !.status = "working"]
           IN  p \in JobRec /\ p.status = "working" /\ p.reason = r.reason
  <1>1. r \in [status : {"pending", "working", "blocked"}, model : Model,
              attempts : 0..(MaxAttempts - 1), reason : {"none", "ack", "thumb"}]
    BY DEF JobRec, NoJob
  <1> QED
    BY <1>1 DEF JobRec

LEMMA SweepRow ==
    ASSUME NEW r \in JobRec, r.status = "working"
    PROVE  LET p == [r EXCEPT !.status = "pending"]
           IN  p \in JobRec /\ p.status = "pending" /\ p.reason = r.reason
  <1>1. r \in [status : {"pending", "working", "blocked"}, model : Model,
              attempts : 0..(MaxAttempts - 1), reason : {"none", "ack", "thumb"}]
    BY DEF JobRec, NoJob
  <1> QED
    BY <1>1 DEF JobRec

LEMMA BlockRow ==
    ASSUME NEW r \in JobRec, r.status = "working", NEW why \in {"ack", "thumb"}
    PROVE  LET p == [r EXCEPT !.status = "blocked", !.reason = why]
           IN  p \in JobRec /\ p.status = "blocked" /\ p.reason = why
  <1>1. r \in [status : {"pending", "working", "blocked"}, model : Model,
              attempts : 0..(MaxAttempts - 1), reason : {"none", "ack", "thumb"}]
    BY DEF JobRec, NoJob
  <1> QED
    BY <1>1 DEF JobRec

LEMMA RetryRow ==
    ASSUME NEW r \in JobRec, r.status = "working", NEW k \in 0..(MaxAttempts - 1)
    PROVE  LET p == [r EXCEPT !.status = "pending", !.attempts = k]
           IN  p \in JobRec /\ p.status = "pending" /\ p.reason = r.reason
  <1>1. r \in [status : {"pending", "working", "blocked"}, model : Model,
              attempts : 0..(MaxAttempts - 1), reason : {"none", "ack", "thumb"}]
    BY DEF JobRec, NoJob
  <1> QED
    BY <1>1 DEF JobRec

\* The item and the phase after handleOne has returned.
LEMMA ReturnKept ==
    ASSUME IInv, Return
    PROVE  /\ UNCHANGED <<using, hand>>
           /\ item' = NoItem /\ item' \in ItemRec
           /\ phase' \in {"idle", "acked", "thumbs", "claim", "work"}
           /\ BatchInv'
  BY ItemFacts, TypeParts DEF IInv, Return, BatchInv

\* A step of the worker that leaves files, settings, results and scans alone.
LEMMA WorkKept ==
    ASSUME IInv,
           UNCHANGED <<content, thumb, acked, config, enabled, result, scan, edits>>,
           faults' \in 0..MaxFaults,
           failure' \in [Asset -> SUBSET Model],
           skipped' \in [Asset -> BOOLEAN],
           job' \in [Asset -> JobRec],
           \A m \in Asset : job'[m].status = "blocked" <=> job'[m].reason # "none",
           phase' \in {"idle", "acked", "thumbs", "claim", "work"},
           using' \in Model \cup {None},
           hand' \subseteq Asset,
           item' \in ItemRec,
           BatchInv',
           item' = item \/ item' = NoItem \/ \A m \in Asset : ~Handling(m, "calling")',
           \A m \in Asset : Handling(m, "calling") /\ Held(m)' => Held(m)
    PROVE  IInv'
  <1>1. TypeOK'
    BY TypeParts, TypeNext DEF IInv
  <1>2. Bounded' /\ ScanInv'
    BY DEF IInv, Bounded, ScanInv
  <1>3. CallInv' /\ ResultIsCurrent'
    BY CallKept
  <1> QED
    BY <1>1, <1>2, <1>3 DEF IInv

LEMMA RunOnceIInv ==
    ASSUME IInv, RunOnce
    PROVE  IInv'
  <1> USE DEF media, settings, outcomes, bounds
  <1>1. /\ using' \in Model /\ phase' = "acked" /\ item = NoItem /\ hand = {}
        /\ UNCHANGED <<content, thumb, acked, config, enabled, result, failure, skipped,
                       job, hand, item, scan, edits, faults>>
    BY TypeParts DEF IInv, BatchInv, RunOnce
  <1>2. BatchInv'
    BY <1>1 DEF BatchInv
  <1> QED
    BY <1>1, <1>2, TypeParts, WorkKept DEF IInv, Held

\* Promoting blocked jobs makes them pending.
LEMMA PromoteIInv ==
    ASSUME IInv, PromoteAckedBlocked \/ PromoteThumbReadyBlocked
    PROVE  IInv'
  <1> USE DEF media, settings, outcomes, bounds
  <1>1. /\ phase # "idle" /\ phase # "work" /\ phase' \in {"thumbs", "claim"}
        /\ UNCHANGED <<content, thumb, acked, config, enabled, result, failure, skipped,
                       using, hand, item, scan, edits, faults>>
    BY DEF PromoteAckedBlocked, PromoteThumbReadyBlocked
  <1>2. BatchInv' /\ item = NoItem
    BY <1>1 DEF IInv, BatchInv
  <1>3. PICK S \in SUBSET Asset :
          /\ \A m \in S : job[m].reason # "none"
          /\ job' = [m \in Asset |->
               IF m \in S THEN [job[m] EXCEPT !.status = "pending", !.reason = "none"] ELSE job[m]]
    <2>1. CASE PromoteAckedBlocked
      BY <2>1 DEF PromoteAckedBlocked, Unblock
    <2>2. CASE PromoteThumbReadyBlocked
      BY <2>2 DEF PromoteThumbReadyBlocked, Unblock
    <2> QED
      BY <2>1, <2>2
  <1>4. ASSUME NEW m \in Asset
        PROVE  /\ job'[m] \in JobRec
               /\ job'[m].status = "blocked" <=> job'[m].reason # "none"
               /\ Held(m)' => Held(m)
    <2>1. job[m] \in JobRec /\ (job[m].status = "blocked" <=> job[m].reason # "none")
      BY TypeParts DEF IInv
    <2>2. CASE m \in S
      BY <1>3, <2>1, <2>2, UnblockRow DEF Held
    <2>3. CASE m \notin S
      BY <1>3, <2>1, <2>3 DEF Held
    <2> QED
      BY <2>2, <2>3
  <1>5. job' \in [Asset -> JobRec]
    BY <1>3, <1>4
  <1> QED
    BY <1>1, <1>2, <1>4, <1>5, TypeParts, WorkKept DEF IInv

\* A batch is claimed with nothing in hand.
LEMMA ClaimIInv ==
    ASSUME IInv, ClaimBatch
    PROVE  IInv'
  <1> USE DEF media, settings, outcomes, bounds
  <1>1. PICK S \in SUBSET Claimable :
          /\ job' = [m \in Asset |-> IF m \in S THEN [job[m] EXCEPT !.status = "working"] ELSE job[m]]
          /\ hand' = S
          /\ phase' = IF S = {} THEN "idle" ELSE "work"
    BY DEF ClaimBatch
  <1>2. /\ phase = "claim"
        /\ UNCHANGED <<content, thumb, acked, config, enabled, result, failure, skipped,
                       using, item, scan, edits, faults>>
    BY DEF ClaimBatch
  <1>3. BatchInv' /\ item = NoItem /\ hand' \subseteq Asset
        /\ phase' \in {"idle", "acked", "thumbs", "claim", "work"}
    BY <1>1, <1>2 DEF IInv, BatchInv, Claimable
  <1>4. \A m \in Asset : ~Handling(m, "calling")
    BY <1>3, ItemFacts DEF Handling
  <1>5. ASSUME NEW m \in Asset
        PROVE  /\ job'[m] \in JobRec
               /\ job'[m].status = "blocked" <=> job'[m].reason # "none"
    <2>1. job[m] \in JobRec /\ (job[m].status = "blocked" <=> job[m].reason # "none")
      BY TypeParts DEF IInv
    <2>2. CASE m \in S
      BY <1>1, <2>1, <2>2, ClaimRow DEF Claimable
    <2>3. CASE m \notin S
      BY <1>1, <2>1, <2>3
    <2> QED
      BY <2>2, <2>3
  <1>6. job' \in [Asset -> JobRec]
    BY <1>1, <1>5
  <1> QED
    BY <1>2, <1>3, <1>4, <1>5, <1>6, TypeParts, WorkKept DEF IInv

\* Steps that only move the item on.
LEMMA ItemIInv ==
    ASSUME IInv, NEW m \in Asset, StartItem(m) \/ LookAck(m)
    PROVE  IInv'
  <1> USE DEF media, settings, outcomes, bounds
  <1>1. /\ UNCHANGED <<content, thumb, acked, config, enabled, result, failure, skipped,
                       job, phase, using, scan, edits, faults>>
        /\ hand' \subseteq hand
    BY DEF StartItem, LookAck, Goto
  <1>2. item' \in ItemRec /\ item'.at # "calling"
    BY TypeParts DEF IInv, StartItem, LookAck, Goto, ItemRec
  <1>3. phase = "work"
    <2>1. CASE StartItem(m)
      BY <2>1 DEF IInv, BatchInv, StartItem
    <2>2. CASE LookAck(m)
      BY <2>2, ItemFacts DEF IInv, BatchInv, LookAck, Handling
    <2> QED
      BY <2>1, <2>2
  <1>4. BatchInv'
    BY <1>1, <1>3 DEF IInv, BatchInv
  <1> QED
    BY <1>1, <1>2, <1>4, TypeParts, WorkKept DEF IInv, Handling, Held

LEMMA ResolveIInv ==
    ASSUME IInv, NEW m \in Asset, ResolvePreview(m)
    PROVE  IInv'
  <1> USE DEF media, settings, outcomes, bounds
  <1>1. /\ UNCHANGED <<content, thumb, acked, config, enabled, result, failure, skipped,
                       job, phase, using, hand, scan, edits, faults>>
        /\ item.asset = m /\ item # NoItem
    BY ItemFacts DEF ResolvePreview, Handling
  <1>2. /\ item' \in ItemRec
        /\ item'.asset = m
        /\ item'.at = "calling" => item'.image = content[m]
    <2>1. content[m] \in 0..(MaxEdits + 1) /\ 0 \in 0..(MaxEdits + 1)
      BY TypeParts DEF IInv
    <2>2. PICK stage \in {"calling", "previewless", "unready"} :
            /\ stage = "calling" <=> thumb[m] = "ready"
            /\ item' = [item EXCEPT !.at = stage, !.image = IF thumb[m] = "ready" THEN content[m] ELSE 0]
      BY DEF ResolvePreview
    <2> QED
      BY <1>1, <2>1, <2>2, TypeParts DEF IInv, ItemRec
  <1>3. BatchInv'
    BY <1>1 DEF IInv, BatchInv
  <1>4. TypeOK'
    BY <1>1, <1>2, TypeParts, TypeNext DEF IInv
  <1>5. CallInv'
    BY <1>1, <1>2 DEF CallInv, Handling
  <1>6. Bounded' /\ ScanInv' /\ ResultIsCurrent'
    BY <1>1 DEF IInv, Bounded, ScanInv, ResultIsCurrent
  <1> QED
    BY <1>3, <1>4, <1>5, <1>6 DEF IInv

\* A claim is given up or completed: its row changes only if it is held.
LEMMA ReleaseIInv ==
    ASSUME IInv, NEW m \in Asset, item.asset = m,
           UNCHANGED <<content, thumb, acked, config, enabled, result, scan, edits>>,
           faults' \in 0..MaxFaults,
           failure' \in [Asset -> SUBSET Model],
           skipped' \in [Asset -> BOOLEAN],
           NEW r \in JobRec,
           r.status = "blocked" <=> r.reason # "none",
           r.status # "working",
           job' = job \/ job' = [job EXCEPT ![m] = r],
           \/ Return
           \/ UNCHANGED <<phase, using, hand>> /\ item' \in ItemRec /\ item'.at # "calling"
    PROVE  IInv'
  <1>1. ASSUME NEW n \in Asset
        PROVE  /\ job'[n] \in JobRec
               /\ job'[n].status = "blocked" <=> job'[n].reason # "none"
               /\ Held(n)' => Held(n)
    BY TypeParts DEF IInv, Held
  <1>2. job' \in [Asset -> JobRec]
    BY TypeParts DEF IInv
  <1>3. CASE Return
    BY <1>1, <1>2, <1>3, ReturnKept, TypeParts, WorkKept DEF IInv
  <1>4. CASE UNCHANGED <<phase, using, hand>> /\ item' \in ItemRec /\ item'.at # "calling"
    <2>1. BatchInv'
      BY <1>4, ItemFacts DEF IInv, BatchInv
    <2> QED
      BY <1>1, <1>2, <1>4, <2>1, TypeParts, WorkKept DEF IInv, Handling
  <1> QED
    BY <1>3, <1>4

LEMMA BlockIInv ==
    ASSUME IInv, NEW m \in Asset, NEW stage, NEW why \in {"ack", "thumb"}, MarkBlocked(m, stage, why)
    PROVE  IInv'
  <1> USE DEF media, settings, outcomes, bounds
  <1>1. /\ UNCHANGED <<content, thumb, acked, config, enabled, result, failure, skipped, scan, edits, faults>>
        /\ item.asset = m /\ Return
    BY DEF MarkBlocked, Handling
  <1>2. CASE Held(m)
    <2> DEFINE r == [job[m] EXCEPT !.status = "blocked", !.reason = why]
    <2>1. r \in JobRec /\ r.status = "blocked" /\ r.reason = why /\ why # "none"
      BY <1>2, BlockRow, TypeParts DEF IInv, Held
    <2>2. job' = [job EXCEPT ![m] = r]
      BY <1>2 DEF MarkBlocked
    <2> HIDE DEF r
    <2> QED
      BY <1>1, <2>1, <2>2, ReleaseIInv, TypeParts DEF IInv
  <1>3. CASE ~Held(m)
    <2>1. job' = job
      BY <1>3, TypeParts DEF IInv, MarkBlocked
    <2> QED
      BY <1>1, <2>1, JobFacts, ReleaseIInv, TypeParts DEF IInv
  <1> QED
    BY <1>2, <1>3

\* Finish removes the row or leaves it.
LEMMA FinishKept ==
    ASSUME IInv, NEW m \in Asset, Finish(m)
    PROVE  job' = job \/ job' = [job EXCEPT ![m] = NoJob]
  BY TypeParts DEF IInv, Finish

\* Only a stage that calls the provider carries the image on.
LEMMA GotoKept ==
    ASSUME IInv, NEW stage \in {"skipping", "failing"}, Goto(stage)
    PROVE  UNCHANGED <<phase, using, hand>> /\ item' \in ItemRec /\ item'.at # "calling"
  BY TypeParts DEF IInv, Goto, ItemRec

LEMMA MarkFailedIInv ==
    ASSUME IInv, NEW m \in Asset, NEW stage, Handling(m, stage), MarkFailed(m),
           edits' = edits, faults' \in 0..MaxFaults
    PROVE  IInv'
  <1> USE DEF media, settings, outcomes
  <1>1. /\ UNCHANGED <<content, thumb, acked, config, enabled, result, failure, skipped, scan, edits>>
        /\ item.asset = m
    BY DEF MarkFailed, Handling
  <1>2. job' = job \/ job' = [job EXCEPT ![m] = NoJob]
    BY FinishKept DEF MarkFailed
  <1>3. Return \/ (UNCHANGED <<phase, using, hand>> /\ item' \in ItemRec /\ item'.at # "calling")
    BY GotoKept DEF MarkFailed
  <1> QED
    BY <1>1, <1>2, <1>3, JobFacts, ReleaseIInv, TypeParts DEF IInv

LEMMA OutcomeIInv ==
    ASSUME IInv, NEW m \in Asset, RecordSkip(m) \/ MarkDone(m) \/ RecordFailure(m)
    PROVE  IInv'
  <1> USE DEF media, settings, outcomes, bounds
  <1>1. /\ UNCHANGED <<content, thumb, acked, config, enabled, result, scan, edits, faults>>
        /\ item.asset = m /\ item # NoItem
    BY ItemFacts DEF RecordSkip, MarkDone, RecordFailure, Handling
  <1>2. using \in Model
    BY <1>1 DEF IInv, BatchInv
  <1>3. failure' \in [Asset -> SUBSET Model] /\ skipped' \in [Asset -> BOOLEAN]
    <2>1. CASE RecordSkip(m)
      BY <2>1, TypeParts DEF IInv, RecordSkip
    <2>2. CASE MarkDone(m)
      BY <2>2, TypeParts DEF IInv, MarkDone
    <2>3. CASE RecordFailure(m)
      <3>1. failure' = [failure EXCEPT ![m] = failure[m] \cup {using}] /\ skipped' = skipped
        BY <2>3 DEF RecordFailure
      <3> QED
        BY <1>2, <3>1, TypeParts DEF IInv
    <2> QED
      BY <2>1, <2>2, <2>3
  <1>4. job' = job \/ job' = [job EXCEPT ![m] = NoJob]
    BY FinishKept DEF RecordSkip, MarkDone, RecordFailure
  <1>5. Return \/ (UNCHANGED <<phase, using, hand>> /\ item' \in ItemRec /\ item'.at # "calling")
    BY GotoKept DEF RecordSkip, MarkDone, RecordFailure
  <1> QED
    BY <1>1, <1>3, <1>4, <1>5, JobFacts, ReleaseIInv, TypeParts DEF IInv

LEMMA RetryIInv ==
    ASSUME IInv, NEW m \in Asset, MaybeRetryOrFail(m)
    PROVE  IInv'
  <1> USE DEF media, settings, outcomes
  <1>1. PICK stage \in Failing : Handling(m, stage)
    BY DEF MaybeRetryOrFail
  <1>2. edits' = edits /\ faults' \in 0..MaxFaults
    <2>1. Fault \/ UNCHANGED bounds
      BY DEF MaybeRetryOrFail, Trouble
    <2> QED
      BY <2>1, FaultBound, TypeParts DEF IInv, bounds
  <1>3. CASE job[m].attempts + 1 >= MaxAttempts
    <2>1. MarkFailed(m)
      BY <1>3 DEF MaybeRetryOrFail
    <2> QED
      BY <1>1, <1>2, <2>1, MarkFailedIInv
  <1>4. CASE ~(job[m].attempts + 1 >= MaxAttempts)
    <2>1. /\ UNCHANGED <<content, thumb, acked, config, enabled, result, failure, skipped, scan, edits>>
          /\ faults' \in 0..MaxFaults
          /\ item.asset = m /\ Return
          /\ job' = [job EXCEPT ![m] =
               IF Held(m) THEN [job[m] EXCEPT !.status = "pending", !.attempts = job[m].attempts + 1]
                 ELSE job[m]]
      BY <1>1, <1>4, <1>2 DEF MaybeRetryOrFail, Handling
    <2>2. job[m] \in JobRec /\ job[m].attempts \in Nat /\ (Held(m) => job[m].reason = "none")
      BY TypeParts DEF IInv, JobRec, NoJob, Held
    <2>3. CASE Held(m)
      <3> DEFINE r == [job[m] EXCEPT !.status = "pending", !.attempts = job[m].attempts + 1]
      <3>1. job[m].attempts + 1 \in 0..(MaxAttempts - 1)
        BY <1>4, <2>2
      <3>2. r \in JobRec /\ r.status = "pending" /\ r.reason = "none"
        BY <2>2, <2>3, <3>1, RetryRow DEF Held
      <3>3. job' = [job EXCEPT ![m] = r]
        BY <2>1, <2>3
      <3> HIDE DEF r
      <3> QED
        BY <2>1, <3>2, <3>3, ReleaseIInv, TypeParts DEF IInv
    <2>4. CASE ~Held(m)
      <3>1. job' = job
        BY <2>1, <2>4, TypeParts DEF IInv
      <3> QED
        BY <2>1, <3>1, JobFacts, ReleaseIInv, TypeParts DEF IInv
    <2> QED
      BY <2>3, <2>4
  <1> QED
    BY <1>3, <1>4

\* The answer of a claim that still holds is of what is current.
LEMMA WriteIInv ==
    ASSUME IInv, NEW m \in Asset, WriteAndMarkDone(m)
    PROVE  IInv'
  <1> USE DEF media, settings, outcomes, bounds
  <1>1. /\ UNCHANGED <<content, thumb, acked, config, enabled, skipped, scan, edits, faults>>
        /\ Handling(m, "calling") /\ item.asset = m /\ Return
    BY DEF WriteAndMarkDone, Handling
  <1>2. job' = job \/ job' = [job EXCEPT ![m] = NoJob]
    BY FinishKept DEF WriteAndMarkDone
  <1>3. CASE ~Held(m)
    <2>1. UNCHANGED <<result, failure>>
      BY <1>3 DEF WriteAndMarkDone
    <2> QED
      BY <1>1, <1>2, <2>1, JobFacts, ReleaseIInv, TypeParts DEF IInv
  <1>4. CASE Held(m)
    <2>1. /\ result' = [result EXCEPT ![m] = [model |-> using, image |-> item.image]]
          /\ failure' = [failure EXCEPT ![m] = failure[m] \ {using}]
      BY <1>4 DEF WriteAndMarkDone
    <2>2. item.image = content[m] /\ item.image \in 0..(MaxEdits + 1)
      BY <1>1, <1>4, TypeParts DEF IInv, CallInv, ItemRec
    <2>3. [model |-> using, image |-> item.image] \in ResultRec
      BY <2>2, TypeParts DEF IInv, ResultRec
    <2>4. result' \in [Asset -> ResultRec] /\ failure' \in [Asset -> SUBSET Model]
      BY <2>1, <2>3, TypeParts DEF IInv
    <2>5. /\ job' \in [Asset -> JobRec]
          /\ \A n \in Asset : job'[n].status = "blocked" <=> job'[n].reason # "none"
      BY <1>2, JobFacts, TypeParts DEF IInv
    <2>6. TypeOK'
      BY <1>1, <2>4, <2>5, ReturnKept, TypeParts, TypeNext DEF IInv
    <2>7. ResultIsCurrent'
      BY <1>1, <2>1, <2>2, TypeParts DEF IInv, ResultIsCurrent
    <2>8. Bounded' /\ ScanInv'
      BY <1>1 DEF IInv, Bounded, ScanInv
    <2>9. BatchInv' /\ CallInv'
      BY <1>1, ReturnKept, ItemFacts DEF CallInv, Handling
    <2> QED
      BY <2>6, <2>7, <2>8, <2>9 DEF IInv
  <1> QED
    BY <1>3, <1>4

\* The sweep makes a working job pending.
LEMMA SweepIInv ==
    ASSUME IInv, NEW m \in Asset, SweepLease(m)
    PROVE  IInv'
  <1> USE DEF media, settings, outcomes, worker, bounds
  <1>1. /\ UNCHANGED <<content, thumb, acked, config, enabled, result, failure, skipped,
                       phase, using, hand, item, scan>>
        /\ Held(m) /\ job' = [job EXCEPT ![m].status = "pending"]
    BY DEF SweepLease
  <1>2. edits' = edits /\ faults' \in 0..MaxFaults
    BY FaultBound, TypeParts DEF IInv, SweepLease
  <1>3. job'[m] = [job[m] EXCEPT !.status = "pending"]
    BY <1>1, TypeParts DEF IInv
  <1>4. ASSUME NEW n \in Asset
        PROVE  /\ job'[n] \in JobRec
               /\ job'[n].status = "blocked" <=> job'[n].reason # "none"
               /\ Held(n)' => Held(n)
    <2>1. job[n] \in JobRec /\ (job[n].status = "blocked" <=> job[n].reason # "none")
      BY TypeParts DEF IInv
    <2>2. CASE n = m
      BY <1>1, <1>3, <2>1, <2>2, SweepRow DEF Held
    <2>3. CASE n # m
      BY <1>1, <2>1, <2>3, TypeParts DEF IInv, Held
    <2> QED
      BY <2>2, <2>3
  <1>5. job' \in [Asset -> JobRec]
    BY <1>1, <1>4, TypeParts DEF IInv
  <1>6. TypeOK'
    BY <1>1, <1>2, <1>4, <1>5, TypeParts, TypeNext DEF IInv
  <1>7. Bounded' /\ BatchInv' /\ ScanInv'
    BY <1>1, <1>2 DEF IInv, Bounded, BatchInv, ScanInv
  <1>8. CallInv' /\ ResultIsCurrent'
    BY <1>1, <1>4, CallKept
  <1> QED
    BY <1>6, <1>7, <1>8 DEF IInv

LEMMA RestartIInv ==
    ASSUME IInv, Restart
    PROVE  IInv'
  <1> USE DEF media, settings, outcomes, worker
  <1>1. /\ UNCHANGED <<content, thumb, acked, config, enabled, result, failure, skipped, job>>
        /\ phase' = "idle" /\ using' = None /\ hand' = {} /\ item' = NoItem
        /\ scan' = [k \in Scanner |-> NoScan]
        /\ edits' = edits /\ faults' \in 0..MaxFaults
    BY FaultBound DEF IInv, Restart
  <1>2. TypeOK'
    BY <1>1, ItemFacts, ScanFacts, TypeParts, TypeNext DEF IInv
  <1>3. Bounded' /\ BatchInv' /\ ScanInv'
    BY <1>1, ScanFacts DEF IInv, Bounded, BatchInv, ScanInv
  <1>4. CallInv' /\ ResultIsCurrent'
    BY <1>1, CallKept DEF Held
  <1> QED
    BY <1>2, <1>3, <1>4 DEF IInv

LEMMA StutterIInv ==
    ASSUME IInv, UNCHANGED avars
    PROVE  IInv'
  <1> USE DEF avars, media, settings, outcomes, worker, bounds
  <1>1. TypeOK'
    BY TypeParts, TypeNext DEF IInv
  <1>2. Bounded' /\ BatchInv' /\ ScanInv'
    BY DEF IInv, Bounded, BatchInv, ScanInv
  <1>3. CallInv' /\ ResultIsCurrent'
    BY CallKept DEF Held
  <1> QED
    BY <1>1, <1>2, <1>3 DEF IInv

LEMMA HandleIInv ==
    ASSUME IInv, NEW m \in Asset, Handle(m)
    PROVE  IInv'
  <1>1. CASE StartItem(m) \/ LookAck(m)
    BY <1>1, ItemIInv
  <1>2. CASE ResolvePreview(m)
    BY <1>2, ResolveIInv
  <1>3. CASE MarkBlocked(m, "unacked", "ack") \/ MarkBlocked(m, "unready", "thumb")
    BY <1>3, BlockIInv
  <1>4. CASE RecordSkip(m) \/ MarkDone(m) \/ RecordFailure(m)
    BY <1>4, OutcomeIInv
  <1>5. CASE WriteAndMarkDone(m)
    BY <1>5, WriteIInv
  <1>6. CASE Rejected(m)
    BY <1>6, MarkFailedIInv, TypeParts DEF IInv, Rejected, bounds
  <1>7. CASE MaybeRetryOrFail(m)
    BY <1>7, RetryIInv
  <1> QED
    BY <1>1, <1>2, <1>3, <1>4, <1>5, <1>6, <1>7 DEF Handle

LEMMA NextIInv == IInv /\ [Next]_avars => IInv'
  <1> SUFFICES ASSUME IInv, [Next]_avars
               PROVE  IInv'
    OBVIOUS
  <1>1. CASE \/ \E m \in Asset : ThumbSettles(m)
             \/ \E S \in SUBSET Asset : Regenerate(S)
             \/ \E p \in Principal : Acknowledge(p)
             \/ \E g \in Model, on \in BOOLEAN : Apply(g, on)
    BY <1>1, AroundIInv
  <1>2. CASE \E m \in Asset : ApplyCommit(m)
    BY <1>2, CommitIInv
  <1>3. CASE \/ \E p \in Principal, force \in BOOLEAN : Backfill(p, force)
             \/ \E p \in Principal : RetryFailed(p)
             \/ \E m \in Asset : RetryPhoto(m)
             \/ GapScan
    BY <1>3, BeginIInv
  <1>4. CASE \E k \in Scanner : ScanStep(k)
    BY <1>4, ScanIInv
  <1>5. CASE WorkerStep
    BY <1>5, RunOnceIInv, PromoteIInv, ClaimIInv, HandleIInv DEF WorkerStep
  <1>6. CASE \E m \in Asset : SweepLease(m)
    BY <1>6, SweepIInv
  <1>7. CASE Restart
    BY <1>7, RestartIInv
  <1>8. CASE UNCHANGED avars
    BY <1>8, StutterIInv
  <1> QED
    BY <1>1, <1>2, <1>3, <1>4, <1>5, <1>6, <1>7, <1>8 DEF Next

\* The invariant all results below follow from.
LEMMA Invariance == Spec => []IInv
  BY InitIInv, NextIInv, PTL DEF Spec

\* Jobs, claims and scans have their types for every set of photos, owners and
\* fingerprints: no job is queued without a fingerprint, and none takes more
\* than its attempts.
THEOREM TypeCorrect == Spec => []TypeOK
  BY Invariance, PTL DEF IInv

\* The active result of a photo was made from the file it has now.
THEOREM ResultCurrent == Spec => []ResultIsCurrent
  BY Invariance, PTL DEF IInv

\* What this module lets happen to a preview is what PreviewLedger lets happen
\* to it, and the thumbnail pipeline does no more (PreviewsImplemented of
\* ThumbPipelineProofs).
THEOREM PreviewsImplemented == Spec => ImplementsPreviews
  <1>1. Init => Previews!Init
    BY DEF Init, Previews!Init
  <1>2. TypeOK /\ [Next]_avars => [Previews!Next]_Previews!pvars
    <2> SUFFICES ASSUME TypeOK, [Next]_avars
                 PROVE  Previews!Next \/ UNCHANGED Previews!pvars
      OBVIOUS
    <2>1. thumb \in [Asset -> {"pending", "ready", "no_preview", "failed"}]
          /\ content \in [Asset -> Nat]
      BY DEF TypeOK
    <2>2. ASSUME UNCHANGED <<thumb, content>> PROVE UNCHANGED Previews!pvars
      BY <2>2 DEF Previews!pvars
    <2>3. ASSUME NEW m \in Asset, ThumbSettles(m) PROVE Previews!Next
      <3>1. PICK s \in {"ready", "no_preview", "failed"} : thumb' = [thumb EXCEPT ![m] = s]
        BY <2>3 DEF ThumbSettles
      <3>2. thumb[m] = "pending" /\ UNCHANGED content
        BY <2>3 DEF ThumbSettles
      <3>3. CASE s = "ready"
        BY <2>1, <3>1, <3>2, <3>3 DEF Previews!Next, Previews!Render
      <3>4. CASE s # "ready"
        BY <2>1, <3>1, <3>2, <3>4 DEF Previews!Next, Previews!GiveUp
      <3> QED
        BY <3>3, <3>4
    <2>4. ASSUME NEW S \in SUBSET Asset, Regenerate(S) PROVE Previews!Next
      <3>1. /\ thumb' = [m \in Asset |-> IF m \in S THEN "pending" ELSE thumb[m]]
            /\ UNCHANGED content
        BY <2>4 DEF Regenerate
      <3>2. Previews!Again(S)
        BY <2>1, <3>1 DEF Previews!Again, Previews!Withdraw
      <3> QED
        BY <3>2 DEF Previews!Next
    <2>5. ASSUME NEW m \in Asset, ApplyCommit(m) PROVE Previews!Next
      <3>1. /\ thumb' = [thumb EXCEPT ![m] = "pending"]
            /\ content' = [content EXCEPT ![m] = @ + 1]
        BY <2>5 DEF ApplyCommit
      <3>2. Previews!Commit(m)
        BY <2>1, <3>1 DEF Previews!Commit, Previews!NewImage, Previews!Withdraw
      <3> QED
        BY <3>2 DEF Previews!Next
    <2>6. CASE WorkerStep
      <3>1. UNCHANGED <<thumb, content>>
        BY <2>6
        DEF WorkerStep, RunOnce, PromoteAckedBlocked, PromoteThumbReadyBlocked, ClaimBatch,
            Handle, StartItem, LookAck, ResolvePreview, MarkBlocked, RecordSkip, MarkDone,
            WriteAndMarkDone, Rejected, MaybeRetryOrFail, MarkFailed, RecordFailure, media
      <3> QED
        BY <2>2, <3>1
    <2>7. CASE GapScan \/ \E k \in Scanner : ScanStep(k)
      BY <2>2, <2>7 DEF GapScan, ScanStep, ScanOne, ClearFailure, media
    <2>8. CASE \/ \E p \in Principal : Acknowledge(p) \/ RetryFailed(p)
               \/ \E p \in Principal, force \in BOOLEAN : Backfill(p, force)
               \/ \E m \in Asset : RetryPhoto(m) \/ SweepLease(m)
      BY <2>2, <2>8 DEF Acknowledge, RetryFailed, Backfill, RetryPhoto, SweepLease, media
    <2>9. CASE \/ \E g \in Model, on \in BOOLEAN : Apply(g, on)
               \/ Restart
               \/ UNCHANGED avars
      BY <2>2, <2>9 DEF Apply, Restart, avars, media
    <2> QED
      BY <2>3, <2>4, <2>5, <2>6, <2>7, <2>8, <2>9 DEF Next
  <1> QED
    BY <1>1, <1>2, TypeCorrect, PTL DEF Spec, ImplementsPreviews, Previews!Spec
=============================================================================
