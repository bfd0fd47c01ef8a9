-------------------------------- MODULE Import -------------------------------
(***************************************************************************)
(* Import of source files: the durable ledger of content operations in the *)
(* catalog, Docbank on the other side of the storage boundary, the         *)
(* concurrent workers of one import and the recovery command.  Catalog and *)
(* Docbank share no transaction, sources change while they are imported,   *)
(* and the process may stop between any two steps.                         *)
(***************************************************************************)
EXTENDS Naturals, FiniteSets

CONSTANTS
    File,        \* source files
    Group,       \* the related files that become one asset: disjoint sets of files
    Digest,      \* contents
    Asset,       \* asset ids; one per content is always enough
    Worker,      \* ConcurrentWorkers of one import
    Recoverer,   \* the recovery command
    NoAsset,
    MaxEdits,    \* bound: changes made by others to the sources or in Docbank, and commits
    MaxFaults    \* bound: stops and failed calls

ASSUME ConstantAssumption ==
    /\ Group \subseteq (SUBSET File) \ {{}}
    /\ NoAsset \notin Asset
    /\ Recoverer \notin Worker
    /\ MaxEdits \in Nat /\ MaxFaults \in Nat

Proc == Worker \cup {Recoverer}

VARIABLES
    source,      \* [digest, stamp, there]: content, size with mtime, reachable
    asset,       \* assets.state, "none" without a row
    holder,      \* content_operations.asset_id by expected_sha256, unique per owner
    op,          \* content_operations.status
    recorded,    \* media_files.sha256 of the file reserved for a content, as a set:
                 \* empty without a receipt, and for a content outside Digest
    vault,       \* what Docbank has at the path reserved for a content
    meta,        \* assets whose source metadata is recorded
    projected,   \* assets with their text row and AI job or skip
    lock,        \* who holds the import lock
    todo,        \* groups no worker has taken yet
    visit,       \* assets recovery has not finished with
    proc,        \* the workers and the recovery
    reported,    \* contents some import has reported as imported or duplicate
    edits, commits, faults

durable == <<asset, holder, op, recorded, vault, meta, projected>>
vars == <<source, asset, holder, op, recorded, vault, meta, projected, lock, todo, visit,
          proc, reported, edits, commits, faults>>

Phases == {"idle", "hash", "lookup", "reserve", "store", "create", "receipt",
           "adopt", "project", "finalize", "index"}
Unknown == [d \in Digest |-> [asset |-> NoAsset, status |-> "none"]]
Statuses == {"none", "pending", "applied", "conflict"}

Idle == [at |-> "idle", group |-> {}, stamp |-> [f \in File |-> 0],
         sum |-> {}, known |-> Unknown, left |-> {},
         now |-> {}, asset |-> NoAsset, again |-> FALSE, missing |-> FALSE]

(***************************************************************************)
(* `sum' pairs the files of the group with the digests they were found to  *)
(* have; `left' are the contents still to look up, to store or to adopt,   *)
(* `now' the one in hand.                                                  *)
(***************************************************************************)
Sums(p) == {x[2] : x \in proc[p].sum}
FileOf(p, d) == CHOOSE f \in File : <<f, d>> \in proc[p].sum

\* Contents are taken one after the other in a fixed order; which one is of no account.
First(p) == CHOOSE d \in Digest : d \in proc[p].left

Contents(a) == {d \in Digest : holder[d] = a}
\* Mutant: one receipt is enough.
CompleteAny(a) == \E d \in Contents(a) : op[d] = "applied"

Complete(a) == \A d \in Contents(a) : op[d] = "applied"

Process ==
    [at : Phases, group : SUBSET File, stamp : [File -> 0..MaxEdits],
     sum : SUBSET (File \X Digest),
     known : [Digest -> [asset : Asset \cup {NoAsset}, status : Statuses]],
     left : SUBSET Digest, now : SUBSET Digest, asset : Asset \cup {NoAsset},
     again : BOOLEAN, missing : BOOLEAN]

TypeOK ==
    /\ source \in [File -> [digest : Digest, stamp : 0..MaxEdits, there : BOOLEAN]]
    /\ asset \in [Asset -> {"none", "pending", "ready", "conflict"}]
    /\ holder \in [Digest -> Asset \cup {NoAsset}]
    /\ op \in [Digest -> Statuses]
    /\ recorded \in [Digest -> SUBSET Digest]
    /\ vault \in [Digest -> {"absent", "same", "other"}]
    /\ meta \subseteq Asset /\ projected \subseteq Asset
    /\ lock \in {"free", "import", "recover"}
    /\ todo \subseteq Group /\ visit \subseteq Asset
    /\ proc \in [Proc -> Process]
    /\ reported \subseteq Digest
    /\ edits \in Nat /\ commits \in Nat /\ edits + commits <= MaxEdits
    /\ faults \in 0..MaxFaults

Init ==
    /\ source \in [File -> [digest : Digest, stamp : {0}, there : {TRUE}]]
    /\ asset = [a \in Asset |-> "none"]
    /\ holder = [d \in Digest |-> NoAsset]
    /\ op = [d \in Digest |-> "none"]
    /\ recorded = [d \in Digest |-> {}]
    /\ vault = [d \in Digest |-> "absent"]
    /\ meta = {} /\ projected = {}
    /\ lock = "free" /\ todo = {} /\ visit = {}
    /\ proc = [p \in Proc |-> Idle]
    /\ reported = {}
    /\ edits = 0 /\ commits = 0 /\ faults = 0

-----------------------------------------------------------------------------
(* The world outside *)

\* Another program rewrites a source file, with or without a trace in size and mtime; the
\* trace is of account only to a process that has observed the file.
Edit(f) ==
    \E d \in Digest, trace \in 0..1 :
        /\ edits + commits < MaxEdits
        /\ d # source[f].digest
        /\ trace = 1 => \E p \in Proc : f \in proc[p].group
        /\ edits' = edits + 1
        /\ source' = [source EXCEPT ![f] = [@ EXCEPT
                        !.digest = d, !.stamp = source[f].stamp + trace]]
        /\ UNCHANGED <<durable, lock, todo, visit, proc, reported, commits, faults>>

\* The source medium goes away or comes back with the same files.
Mount(f) ==
    /\ source[f].there => edits + commits < MaxEdits
    /\ edits' = IF source[f].there THEN edits + 1 ELSE edits
    /\ source' = [source EXCEPT ![f] = [@ EXCEPT !.there = ~source[f].there]]
    /\ UNCHANGED <<durable, lock, todo, visit, proc, reported, commits, faults>>

\* Something else is put at a path reserved for a content.
Foreign(d) ==
    /\ edits + commits < MaxEdits
    /\ holder[d] # NoAsset /\ vault[d] = "absent"
    /\ edits' = edits + 1
    /\ vault' = [vault EXCEPT ![d] = "other"]
    /\ UNCHANGED <<source, asset, holder, op, recorded, meta, projected, lock, todo,
                   visit, proc, reported, commits, faults>>

\* A checkout commits another content to a file of a ready asset, one that no file of the
\* owner has recorded; a reservation without its receipt does not count.  What was
\* imported stays an earlier version at its path.
ApplyCommit(d) ==
    /\ edits + commits < MaxEdits
    /\ holder[d] # NoAsset /\ asset[holder[d]] = "ready"
    /\ commits' = commits + 1
    /\ \E new \in {{}} \cup {{e} : e \in Digest \ UNION {recorded[k] : k \in Digest}} :
         recorded' = [recorded EXCEPT ![d] = new]
    /\ UNCHANGED <<source, asset, holder, op, vault, meta, projected, lock, todo, visit,
                   proc, reported, edits, faults>>

-----------------------------------------------------------------------------
(* Ends of a group *)

\* processGroup returns: contents reported as in the library, or nothing said.
Return(p, ok) ==
    /\ proc' = [proc EXCEPT ![p] = Idle]
    /\ reported' = IF ok THEN reported \cup Sums(p) ELSE reported
    /\ visit' = visit \ {proc[p].asset}
    /\ UNCHANGED <<source, lock, todo, edits, commits>>

\* A statement or a call of Docbank fails.  A recovery ends with the error.
Fails(p) ==
    /\ proc[p].at # "idle" /\ faults < MaxFaults
    /\ faults' = faults + 1
    /\ proc' = [proc EXCEPT ![p] = Idle]
    /\ visit' = {}
    /\ lock' = IF p = Recoverer THEN "free" ELSE lock
    /\ UNCHANGED <<durable, source, todo, reported, edits, commits>>

\* The process stops, or the request is cancelled; the flock goes with it.
Stop ==
    /\ lock # "free" /\ faults < MaxFaults
    /\ faults' = faults + 1
    /\ proc' = [p \in Proc |-> Idle]
    /\ lock' = "free" /\ todo' = {} /\ visit' = {}
    /\ UNCHANGED <<durable, source, reported, edits, commits>>

Goto(p, phase) ==
    /\ proc' = [proc EXCEPT ![p] = [@ EXCEPT !.at = phase]]
    /\ UNCHANGED <<source, lock, todo, visit, reported, edits, commits, faults>>

\* Mutant: without the condition that the asset is still pending.
MarkContentConflictAlways(p) ==
    LET a == proc[p].asset IN
    /\ asset' = [asset EXCEPT ![a] = "conflict"]
    /\ op' = [d \in Digest |-> IF holder[d] = a THEN "conflict" ELSE op[d]]
    /\ Return(p, FALSE)
    /\ UNCHANGED <<holder, recorded, vault, meta, projected, faults>>

\* MarkContentConflict and the return of the group: a ready asset is left alone and
\* counts as a duplicate.
MarkContentConflict(p) ==
    LET a == proc[p].asset IN
    /\ asset' = [asset EXCEPT ![a] = IF @ = "pending" THEN "conflict" ELSE @]
    /\ op' = [d \in Digest |-> IF asset[a] = "pending" /\ holder[d] = a
                               THEN "conflict" ELSE op[d]]
    /\ Return(p, asset[a] = "ready" /\ p # Recoverer)
    /\ UNCHANGED <<holder, recorded, vault, meta, projected, faults>>

-----------------------------------------------------------------------------
(* processGroup *)

StartImport ==
    /\ lock = "free"
    /\ lock' = "import" /\ todo' = Group
    /\ UNCHANGED <<durable, source, visit, proc, reported, edits, commits, faults>>

\* The workers are alike: which idle one takes a group is of no account.
NextWorker == CHOOSE p \in Worker : proc[p].at = "idle"

\* prepareGroup, settleCandidate: two equal observations of size and mtime.
Take(p, g) ==
    /\ lock = "import" /\ p \in Worker /\ proc[p].at = "idle" /\ p = NextWorker
    /\ g \in todo /\ \A f \in g : source[f].there
    /\ todo' = todo \ {g}
    /\ proc' = [proc EXCEPT ![p] = [Idle EXCEPT
                  !.at = "hash", !.group = g,
                  !.stamp = [f \in File |-> IF f \in g THEN source[f].stamp ELSE 0]]]
    /\ UNCHANGED <<durable, source, lock, visit, reported, edits, commits, faults>>

\* settleCandidate fails: the file is gone or still changing.
Unsettled(g) ==
    /\ lock = "import" /\ g \in todo /\ \E f \in g : ~source[f].there
    /\ todo' = todo \ {g}
    /\ UNCHANGED <<durable, source, lock, visit, proc, reported, edits, commits,
                   faults>>

\* The hash is taken after the second observation.
Hash(p) ==
    /\ proc[p].at = "hash"
    /\ LET sums == {<<f, source[f].digest>> : f \in proc[p].group} IN
       /\ proc' = [proc EXCEPT ![p] = [@ EXCEPT !.at = "lookup", !.sum = sums,
                               !.left = {x[2] : x \in sums}]]
       /\ UNCHANGED <<durable, source, lock, todo, visit, reported, edits, commits,
                      faults>>

\* Mutant: the state of the asset is taken for the status of the operation.
LookupState(p, d) ==
    /\ proc[p].at = "lookup" /\ d \in proc[p].left /\ d = First(p)
    /\ proc' = [proc EXCEPT ![p] = [@ EXCEPT !.left = proc[p].left \ {d},
                  !.known = [proc[p].known EXCEPT ![d] = [asset |-> holder[d],
                    status |-> IF holder[d] = NoAsset THEN "none" ELSE asset[holder[d]]]]]]
    /\ UNCHANGED <<durable, source, lock, todo, visit, reported, edits, commits,
                   faults>>

\* FindContentReservation: one query per content.
Lookup(p, d) ==
    /\ proc[p].at = "lookup" /\ d \in proc[p].left /\ d = First(p)
    /\ proc' = [proc EXCEPT ![p] = [@ EXCEPT !.left = proc[p].left \ {d},
                  !.known = [proc[p].known EXCEPT ![d] =
                               [asset |-> holder[d], status |-> op[d]]]]]
    /\ UNCHANGED <<durable, source, lock, todo, visit, reported, edits, commits,
                   faults>>

HeldBy(p) == {proc[p].known[d].asset : d \in Sums(p)}
StatusesOf(p) == {proc[p].known[d].status : d \in Sums(p)}

\* resolveReservations found that the group belongs to one asset that may be resumed.
Compatible(p, a) == HeldBy(p) = {a} /\ a # NoAsset /\ "conflict" \notin StatusesOf(p)

\* Two files of a group have the same content, only some contents are reserved, or they
\* are reserved for different assets: reported as a conflict, nothing is changed.
Incompatible(p) ==
    \/ Cardinality(Sums(p)) # Cardinality(proc[p].group)
    \/ Cardinality(HeldBy(p)) > 1
    \/ "conflict" \in StatusesOf(p)

Resolved(p) == proc[p].at = "lookup" /\ proc[p].left = {}

ResolveConflict(p) ==
    /\ Resolved(p)
    /\ \/ Incompatible(p)
       \/ \E a \in Asset : Compatible(p, a) /\ asset[a] = "conflict"
    /\ Return(p, FALSE)
    /\ UNCHANGED <<durable, faults>>

ResolveDuplicate(p) ==
    /\ Resolved(p) /\ ~Incompatible(p)
    /\ \E a \in Asset : Compatible(p, a) /\ asset[a] = "ready"
    /\ Return(p, TRUE)
    /\ UNCHANGED <<durable, faults>>

\* Mutant: only reservations nothing of which has been stored are resumed.
ResolveUntouched(p) ==
    /\ Resolved(p) /\ ~Incompatible(p) /\ StatusesOf(p) = {"pending"}
    /\ \E a \in Asset :
         /\ Compatible(p, a) /\ asset[a] = "pending"
         /\ proc' = [proc EXCEPT ![p] = [@ EXCEPT
              !.at = "store", !.asset = a, !.left = Sums(p), !.known = Unknown]]
    /\ UNCHANGED <<durable, source, lock, todo, visit, reported, edits, commits,
                   faults>>

\* The group takes over the ids and paths of the reservation it found.
ResolvePending(p) ==
    /\ Resolved(p) /\ ~Incompatible(p)
    /\ \E a \in Asset :
         /\ Compatible(p, a) /\ asset[a] = "pending"
         /\ LET rest == {d \in Sums(p) : proc[p].known[d].status # "applied"} IN
            proc' = [proc EXCEPT ![p] = [@ EXCEPT
              !.at = IF rest = {} THEN "project" ELSE "store",
              !.asset = a, !.left = rest, !.known = Unknown]]
    /\ UNCHANGED <<durable, source, lock, todo, visit, reported, edits, commits,
                   faults>>

\* Nothing is reserved; the second time ReserveImport's own error is returned.
ResolveNone(p) ==
    /\ Resolved(p) /\ ~Incompatible(p) /\ HeldBy(p) = {NoAsset}
    /\ \/ ~proc[p].again /\ Goto(p, "reserve")
       \/ proc[p].again /\ Return(p, FALSE) /\ UNCHANGED faults
    /\ UNCHANGED durable

\* A fresh id; which one is of no account.
NewAsset == CHOOSE a \in Asset : asset[a] = "none"

\* Mutant: no unique index on owner and digest.
ReserveAgain(p) ==
    /\ proc[p].at = "reserve"
    /\ \E a \in Asset : asset[a] = "none"
    /\ LET a == NewAsset IN
       /\ asset' = [asset EXCEPT ![a] = "pending"]
       /\ holder' = [d \in Digest |-> IF d \in Sums(p) THEN a ELSE holder[d]]
       /\ op' = [d \in Digest |-> IF d \in Sums(p) THEN "pending" ELSE op[d]]
       /\ proc' = [proc EXCEPT ![p] = [@ EXCEPT
              !.at = "store", !.asset = a, !.left = Sums(p), !.known = Unknown]]
    /\ UNCHANGED <<source, recorded, vault, meta, projected, lock, todo, visit,
                   reported, edits, commits, faults>>

\* ReserveImport: one transaction, all contents or none.
Reserve(p) ==
    /\ proc[p].at = "reserve" /\ \A d \in Sums(p) : holder[d] = NoAsset
    /\ \E a \in Asset : asset[a] = "none"
    /\ LET a == NewAsset IN
       /\ asset' = [asset EXCEPT ![a] = "pending"]
       /\ holder' = [d \in Digest |-> IF d \in Sums(p) THEN a ELSE holder[d]]
       /\ op' = [d \in Digest |-> IF d \in Sums(p) THEN "pending" ELSE op[d]]
       /\ proc' = [proc EXCEPT ![p] = [@ EXCEPT
              !.at = "store", !.asset = a, !.left = Sums(p), !.known = Unknown]]
    /\ UNCHANGED <<source, recorded, vault, meta, projected, lock, todo, visit,
                   reported, edits, commits, faults>>

\* The unique index refuses it: another worker was first.  Look again.
ReserveLost(p) ==
    /\ proc[p].at = "reserve" /\ \E d \in Sums(p) : holder[d] # NoAsset
    /\ proc' = [proc EXCEPT ![p] = [@ EXCEPT
                  !.at = "lookup", !.left = Sums(p), !.again = TRUE]]
    /\ UNCHANGED <<durable, source, lock, todo, visit, reported, edits, commits,
                   faults>>

\* revalidateObservation
Unchanged(p, d) ==
    LET f == FileOf(p, d) IN source[f].there /\ source[f].stamp = proc[p].stamp[f]

Revalidate(p, d) ==
    /\ proc[p].at = "store" /\ d \in proc[p].left /\ d = First(p)
    /\ \/ /\ Unchanged(p, d)
          /\ proc' = [proc EXCEPT ![p] = [@ EXCEPT !.at = "create", !.now = {d}]]
          /\ UNCHANGED <<durable, source, lock, todo, visit, reported, edits, commits,
                         faults>>
       \/ ~Unchanged(p, d) /\ MarkContentConflict(p)

\* A commit has replaced what the import stored under the path of a content.
Replaced(d) == op[d] = "applied" /\ recorded[d] # {d}

\* Mutant: a create of what is already there is refused.
CreateOnce(p, d) ==
    LET src == source[FileOf(p, d)] IN
    /\ proc[p].at = "create" /\ d \in proc[p].now
    /\ \/ ~src.there /\ Return(p, FALSE) /\ UNCHANGED <<durable, faults>>
       \/ src.there /\ (vault[d] # "absent" \/ src.digest # d) /\ MarkContentConflict(p)
       \/ /\ src.there /\ vault[d] = "absent" /\ src.digest = d
          /\ vault' = [vault EXCEPT ![d] = "same"]
          /\ proc' = [proc EXCEPT ![p] = [@ EXCEPT !.at = "receipt"]]
          /\ UNCHANGED <<source, asset, holder, op, recorded, meta, projected, lock,
                         todo,
                         visit, reported, edits, commits, faults>>

\* Docbank refuses another content at the path, one that a commit put there included, and
\* bytes that do not have the expected digest.  Repeating a create returns the first receipt.
Create(p, d) ==
    LET src == source[FileOf(p, d)] IN
    /\ proc[p].at = "create" /\ d \in proc[p].now
    /\ \/ ~src.there /\ Return(p, FALSE) /\ UNCHANGED <<durable, faults>>
       \/ /\ src.there
          /\ vault[d] = "other" \/ src.digest # d \/ Replaced(d)
          /\ MarkContentConflict(p)
       \/ /\ src.there
          /\ \/ vault[d] = "absent" /\ src.digest = d
             \/ vault[d] = "same" /\ ~Replaced(d)
          /\ vault' = [vault EXCEPT ![d] = "same"]
          /\ proc' = [proc EXCEPT ![p] = [@ EXCEPT !.at = "receipt"]]
          /\ UNCHANGED <<source, asset, holder, op, recorded, meta, projected, lock,
                         todo,
                         visit, reported, edits, commits, faults>>

\* Another file of the owner has recorded the content already: media_files is unique on
\* owner and sha256.
Taken(d) == op[d] = "pending" /\ \E k \in Digest : d \in recorded[k]

\* ApplyContentReceipt where it succeeds, again without effect once it has.
Applied(d) ==
    /\ op[d] \in {"pending", "applied"} /\ ~Taken(d)
    /\ op' = [op EXCEPT ![d] = "applied"]
    /\ recorded' = IF op[d] = "pending" THEN [recorded EXCEPT ![d] = {d}] ELSE recorded

\* ApplyContentReceipt in a worker: refused after a conflict and by the unique index, which
\* leaves the operation pending.
Receipt(p, d) ==
    /\ proc[p].at = "receipt" /\ d \in proc[p].now
    /\ \/ /\ op[d] = "conflict" \/ Taken(d)
          /\ Return(p, FALSE) /\ UNCHANGED <<durable, faults>>
       \/ /\ Applied(d)
          /\ proc' = [proc EXCEPT ![p] = [@ EXCEPT
               !.at = IF proc[p].left = {d} THEN "project" ELSE "store",
               !.left = proc[p].left \ {d}, !.now = {}]]
          /\ UNCHANGED <<source, asset, holder, vault, meta, projected, lock, todo,
                         visit, reported, edits, commits, faults>>

\* projectAssetMetadata: needs the version of the primary file, which an asset that was
\* only stored in part may lack, still to be the current one when the projection is
\* written, which a commit in between prevents, and no conflict.
Project(p) ==
    LET a == proc[p].asset IN
    /\ proc[p].at = "project"
    /\ \/ /\ asset[a] # "conflict"
          /\ meta' = meta \cup {a}
          /\ Goto(p, "finalize")
          /\ UNCHANGED <<asset, holder, op, recorded, vault, projected>>
       \/ /\ asset[a] = "conflict" \/ ~Complete(a) \/ \E d \in Contents(a) : Replaced(d)
          /\ Return(p, FALSE) /\ UNCHANGED <<durable, faults>>

\* Mutant: an asset made ready by recovery gets no text row and no job.
FinalizeQuietly(p) ==
    LET a == proc[p].asset IN
    /\ proc[p].at = "finalize"
    /\ asset[a] \in {"pending", "ready"} /\ Complete(a)
    /\ asset' = [asset EXCEPT ![a] = "ready"]
    /\ IF p = Recoverer THEN Return(p, TRUE) /\ UNCHANGED faults ELSE Goto(p, "index")
    /\ UNCHANGED <<holder, op, recorded, vault, meta, projected>>

\* FinalizeReady: also succeeds when another worker was first.
FinalizeReady(p) ==
    LET a == proc[p].asset IN
    /\ proc[p].at = "finalize"
    /\ \/ /\ asset[a] \in {"pending", "ready"} /\ Complete(a)
          /\ asset' = [asset EXCEPT ![a] = "ready"]
          /\ Goto(p, "index")
          /\ UNCHANGED <<holder, op, recorded, vault, meta, projected>>
       \/ /\ asset[a] = "conflict" \/ ~Complete(a)
          /\ Return(p, FALSE) /\ UNCHANGED <<durable, faults>>

\* refreshFTS, EnqueueForPhoto or RecordVideoSkip.
Index(p) ==
    /\ proc[p].at = "index"
    /\ projected' = projected \cup {proc[p].asset}
    /\ Return(p, TRUE)
    /\ UNCHANGED <<asset, holder, op, recorded, vault, meta, faults>>

\* A worker only warns when they fail, and reports the group as imported.
IndexWarns(p) ==
    /\ p \in Worker /\ proc[p].at = "index" /\ faults < MaxFaults
    /\ faults' = faults + 1
    /\ Return(p, TRUE)
    /\ UNCHANGED durable

EndImport ==
    /\ lock = "import" /\ todo = {} /\ \A p \in Proc : proc[p].at = "idle"
    /\ lock' = "free"
    /\ UNCHANGED <<durable, source, todo, visit, proc, reported, edits, commits,
                   faults>>

-----------------------------------------------------------------------------
(* RecoverOwner *)

\* The lock keeps importers out, so the list read at the start stays true.
StartRecovery ==
    /\ lock = "free"
    /\ lock' = "recover" /\ visit' = {a \in Asset : asset[a] # "none"}
    /\ UNCHANGED <<durable, source, todo, proc, reported, edits, commits, faults>>

Visit(a) ==
    /\ lock = "recover" /\ a \in visit /\ proc[Recoverer].at = "idle"
    /\ \/ /\ asset[a] = "conflict"
          /\ visit' = visit \ {a} /\ UNCHANGED proc
       \/ /\ asset[a] # "conflict"
          /\ proc' = [proc EXCEPT ![Recoverer] = [Idle EXCEPT !.at = "adopt", !.asset = a,
                        !.left = {d \in Contents(a) : op[d] = "pending"}]]
          /\ UNCHANGED visit
    /\ UNCHANGED <<durable, source, lock, todo, reported, edits, commits, faults>>

\* The receipt is refused: recovery ends with the error, whatever it has still to visit.
AdoptRefused ==
    /\ proc' = [proc EXCEPT ![Recoverer] = Idle]
    /\ visit' = {} /\ lock' = "free"
    /\ UNCHANGED <<durable, source, todo, reported, edits, commits, faults>>

\* Mutant: the first content that is not there ends the work on the asset.
AdoptUntilMissing(d) ==
    LET r == Recoverer IN
    /\ proc[r].at = "adopt" /\ d \in proc[r].left
    /\ \/ /\ vault[d] = "absent"
          /\ proc' = [proc EXCEPT ![r] = [@ EXCEPT !.left = {}, !.missing = TRUE]]
          /\ UNCHANGED <<durable, source, lock, todo, visit, reported, edits, commits,
                         faults>>
       \/ /\ vault[d] = "same"
          /\ Applied(d)
          /\ proc' = [proc EXCEPT ![r] = [@ EXCEPT !.left = proc[r].left \ {d}]]
          /\ UNCHANGED <<source, asset, holder, vault, meta, projected, lock, todo,
                         visit, reported, edits, commits, faults>>
       \/ vault[d] = "same" /\ Taken(d) /\ AdoptRefused
       \/ vault[d] = "other" /\ MarkContentConflict(r)

\* Stat at the reserved path decides: nothing there, the reserved content, another.
Adopt(d) ==
    LET r == Recoverer IN
    /\ proc[r].at = "adopt" /\ d \in proc[r].left
    /\ \/ /\ vault[d] = "absent"
          /\ proc' = [proc EXCEPT ![r] = [@ EXCEPT !.left = proc[r].left \ {d}, !.missing = TRUE]]
          /\ UNCHANGED <<durable, source, lock, todo, visit, reported, edits, commits,
                         faults>>
       \/ /\ vault[d] = "same"
          /\ Applied(d)
          /\ proc' = [proc EXCEPT ![r] = [@ EXCEPT !.left = proc[r].left \ {d}]]
          /\ UNCHANGED <<source, asset, holder, vault, meta, projected, lock, todo,
                         visit, reported, edits, commits, faults>>
       \/ vault[d] = "same" /\ Taken(d) /\ AdoptRefused
       \/ vault[d] = "other" /\ MarkContentConflict(r)

Adopted ==
    LET r == Recoverer IN
    /\ proc[r].at = "adopt" /\ proc[r].left = {}
    /\ \/ /\ ~proc[r].missing /\ asset[proc[r].asset] = "pending"
          /\ Goto(r, "project")
       \/ /\ proc[r].missing \/ asset[proc[r].asset] # "pending"
          /\ Return(r, FALSE) /\ UNCHANGED faults
    /\ UNCHANGED durable

EndRecovery ==
    /\ lock = "recover" /\ visit = {} /\ proc[Recoverer].at = "idle"
    /\ lock' = "free"
    /\ UNCHANGED <<durable, source, todo, visit, proc, reported, edits, commits,
                   faults>>

-----------------------------------------------------------------------------

GroupStep(p) ==
    \/ \E g \in Group : Take(p, g)
    \/ Hash(p)
    \/ \E d \in Digest : Lookup(p, d) \/ Revalidate(p, d) \/ Create(p, d) \/ Receipt(p, d)
    \/ ResolveConflict(p) \/ ResolveDuplicate(p) \/ ResolvePending(p) \/ ResolveNone(p)
    \/ Reserve(p) \/ ReserveLost(p)
    \/ Project(p) \/ FinalizeReady(p) \/ Index(p)

RecoveryStep == (\E a \in Asset : Visit(a)) \/ (\E d \in Digest : Adopt(d)) \/ Adopted

Outside ==
    \/ \E f \in File : Edit(f) \/ Mount(f)
    \/ \E d \in Digest : Foreign(d) \/ ApplyCommit(d)

Skip == \E g \in Group : Unsettled(g)

Next ==
    \/ \E p \in Proc : GroupStep(p) \/ Fails(p) \/ IndexWarns(p)
    \/ RecoveryStep \/ Skip \/ EndImport \/ EndRecovery
    \/ StartImport \/ StartRecovery
    \/ Stop \/ Outside

Spec == Init /\ [][Next]_vars

\* Whoever holds the lock goes on with one of the things to do, and the operator runs the
\* import again and again, as the import guide says.  No fairness between workers is
\* needed, and none for recovery.
Work ==
    \/ \E p \in Proc : GroupStep(p)
    \/ RecoveryStep \/ Skip \/ EndImport \/ EndRecovery

Fairness == WF_vars(Work) /\ SF_vars(StartImport)

FairSpec == Spec /\ Fairness

-----------------------------------------------------------------------------
(* Properties *)

\* A ready asset has all its contents: Docbank holds each under its reserved path, each
\* operation has its receipt, and the source metadata was recorded before.  Several
\* workers may store the parts of one asset, and any of them may finish it.
ReadyIsComplete ==
    \A a \in Asset : asset[a] = "ready" =>
        /\ a \in meta
        /\ \A d \in Contents(a) : op[d] = "applied" /\ vault[d] = "same"

\* What an import reported as imported or as a duplicate is in the library, also when the
\* report comes from a worker that lost its race with another one.
SuccessIsDurable ==
    \A d \in reported : \E a \in Asset : holder[d] = a /\ asset[a] = "ready"

\* Races, stops and failed calls alone never end in the terminal conflict: something
\* outside changed a source or a path.
ConflictHasCause == (\E a \in Asset : asset[a] = "conflict") => edits > 0

\* A conflict takes all operations of the asset with it, applied ones included, and no
\* late receipt brings one back.
ConflictIsWhole ==
    \A d \in Digest : holder[d] # NoAsset =>
        (op[d] = "conflict" <=> asset[holder[d]] = "conflict")

\* A ready asset without text row and AI job, and nobody about to add them.
Unprojected(a) ==
    /\ asset[a] = "ready" /\ a \notin projected
    /\ \A p \in Proc : proc[p].at = "index" => proc[p].asset # a

\* Only the very step that stops the process or fails a statement leaves a ready asset
\* without text row and AI job: neither a second import nor recovery would add them.
UnprojectedIsInterrupted ==
    [][\A a \in Asset : Unprojected(a)' => Unprojected(a) \/ faults' > faults]_vars

\* When recovery ends without an error, a pending asset lacks a content in Docbank, and
\* nothing that Docbank has was left unadopted.
RecoveryIsComplete ==
    [][EndRecovery => \A a \in Asset : asset[a] = "pending" =>
         /\ ~Complete(a)
         /\ \A d \in Contents(a) : op[d] = "pending" => vault[d] # "same"]_vars

\* The files of a pending asset lie ready in the source tree, as when it was reserved.
Supplied(a) ==
    \E g \in Group :
        /\ \A f \in g : source[f].there
        /\ {source[f].digest : f \in g} = Contents(a)
        /\ Cardinality(g) = Cardinality(Contents(a))

\* The asset needs a content that a commit has meanwhile given to another file.
Blocked(a) == \E d \in Contents(a) : Taken(d)

\* A pending asset the imports could finish.
Unfinished(a) == asset[a] = "pending" /\ Supplied(a) /\ ~Blocked(a)

\* An interrupted asset whose source files are there is finished by the imports and
\* recoveries that follow: no interruption leaves it in a state they cannot go on from.
\* A commit does, when it gives the content of the asset to another file of the owner.
InterruptedIsFinished == \A a \in Asset : []<>~Unfinished(a)

\* Every step of imports and recoveries is a step of the ledger or changes nothing in it.
Ledger == INSTANCE ImportLedger WITH
    state <- asset, stored <- {d \in Digest : vault[d] = "same"}
ImplementsLedger == Ledger!Spec
=============================================================================
