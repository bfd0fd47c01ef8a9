------------------------------- MODULE Checkout ------------------------------
(***************************************************************************)
(* Writable checkouts: working copies of library files, the periodic       *)
(* scanner that notices edits, and the commits that write them back.  The  *)
(* user edits the files at any time, Docbank and the catalog share no      *)
(* transaction, and scanner and commits run at the same time.              *)
(*                                                                         *)
(* A stamp stands for size, modification time and file identity together:  *)
(* every edit gives the file a new one.                                    *)
(***************************************************************************)
EXTENDS Naturals, FiniteSets

CONSTANTS
    File,          \* media files of one owner
    Checkout,      \* working folders
    Entry,         \* working copies
    FileOf,        \* the media file a working copy was made from
    CheckoutOf,    \* the folder it lies in
    Content,
    Original,      \* the content each file was imported with, no two the same
    NoContent,
    Committer,     \* calls of Commit that may be in progress together
    MaxEdits,      \* bound: changes made to the working files
    MaxFaults      \* bound: stops and failed calls

ASSUME ConstantAssumption ==
    /\ FileOf \in [Entry -> File]
    /\ CheckoutOf \in [Entry -> Checkout]
    /\ Original \in [File -> Content]
    /\ \A f, g \in File : Original[f] = Original[g] => f = g
    /\ NoContent \notin Content
    /\ MaxEdits \in Nat /\ MaxFaults \in Nat

VARIABLES
    work,       \* the working file of each entry
    head,       \* media_files: current version and its content
    node,       \* Docbank: current version and its content
    hidden,     \* files of hidden assets
    checkout,   \* checkouts.state, "none" without a row
    entry,      \* checkout_entries
    candidate,  \* checkout_scan_candidates of tracked files
    create,     \* the creation in progress, at most one by the creation lock
    scan,       \* the scanner
    commit,     \* the commits in progress
    refused,    \* entries whose commit found the file hidden or its content taken
    edits, faults

disk == <<work, edits>>
media == <<head, hidden>>
ledger == <<entry, candidate>>
vars == <<work, head, node, hidden, checkout, entry, candidate, create, scan,
          commit, refused, edits, faults>>

EntriesOf(c) == {e \in Entry : CheckoutOf[e] = c}

NoEntry == [state |-> "none", base |-> 0, bsum |-> NoContent,
            stamp |-> 0, known |-> FALSE, sum |-> NoContent]
NoEntries == [e \in Entry |-> NoEntry]
NoCandidate == [at |-> "none", stamp |-> 0]
Vacant == [sum |-> NoContent, stamp |-> 0]

NotCreating == [at |-> "idle", now |-> {}, left |-> {},
                from |-> [f \in File |-> [version |-> 0, sum |-> NoContent]]]
NotScanning == [at |-> "idle", todo |-> {}, left |-> {}, snap |-> NoEntries,
                had |-> {}, seen |-> {}, now |-> {}, stamp |-> 0, sum |-> NoContent]
NotCommitting == [at |-> "idle", left |-> {}, listed |-> NoEntries, now |-> {},
                  target |-> NoEntry, version |-> 0, clean |-> FALSE]

(***************************************************************************)
(* The scanner and a commit read the rows they work on when they begin     *)
(* (`snap', `listed'); `now' is the entry in hand, `left' the ones to come.*)
(***************************************************************************)
Sum == Content \cup {NoContent}
Row == [state : {"none", "clean", "pending", "conflict", "missing", "error"},
        base : Nat, bsum : Sum, stamp : 0..MaxEdits, known : BOOLEAN, sum : Sum]

TypeOK ==
    /\ work \in [Entry -> [sum : Sum, stamp : 0..MaxEdits]]
    /\ head \in [File -> [version : Nat, sum : Content]]
    /\ node \in [File -> [version : Nat, sum : Content]]
    /\ hidden \subseteq File
    /\ checkout \in [Checkout -> {"none", "building", "active", "error", "retired"}]
    /\ entry \in [Entry -> Row]
    /\ candidate \in [Entry -> [at : {"none", "settling", "settled"}, stamp : 0..MaxEdits]]
    /\ create \in [at : {"idle", "copy"}, now : SUBSET Checkout, left : SUBSET Entry,
                   from : [File -> [version : Nat, sum : Sum]]]
    /\ scan \in [at : {"idle", "walk", "hash", "record"}, todo : SUBSET Checkout,
                 left : SUBSET Entry, snap : [Entry -> Row], had : SUBSET Entry,
                 seen : SUBSET Entry, now : SUBSET Entry, stamp : 0..MaxEdits, sum : Sum]
    /\ commit \in [Committer ->
                    [at : {"idle", "next", "replace", "check", "apply", "refuse"},
                     left : SUBSET Entry, listed : [Entry -> Row], now : SUBSET Entry,
                     target : Row, version : Nat, clean : BOOLEAN]]
    /\ refused \subseteq Entry
    /\ edits \in 0..MaxEdits /\ faults \in 0..MaxFaults

Init ==
    /\ work = [e \in Entry |-> Vacant]
    /\ head = [f \in File |-> [version |-> 1, sum |-> Original[f]]]
    /\ node = head
    /\ hidden = {}
    /\ checkout = [c \in Checkout |-> "none"]
    /\ entry = NoEntries
    /\ candidate = [e \in Entry |-> NoCandidate]
    /\ create = NotCreating /\ scan = NotScanning
    /\ commit = [p \in Committer |-> NotCommitting]
    /\ refused = {}
    /\ edits = 0 /\ faults = 0

-----------------------------------------------------------------------------
(* The world outside *)

\* A user saves the working file, perhaps unchanged, once the checkout is made.
Edit(e) ==
    \E s \in Content :
        /\ checkout[CheckoutOf[e]] = "active" /\ entry[e].state # "none"
        /\ edits < MaxEdits
        /\ edits' = edits + 1
        /\ work' = [work EXCEPT ![e] = [sum |-> s, stamp |-> edits + 1]]
        /\ UNCHANGED <<media, node, checkout, ledger, create, scan, commit, refused, faults>>

Remove(e) ==
    /\ work[e] # Vacant
    /\ edits < MaxEdits
    /\ edits' = edits + 1
    /\ work' = [work EXCEPT ![e] = Vacant]
    /\ UNCHANGED <<media, node, checkout, ledger, create, scan, commit, refused, faults>>

\* The owner hides the asset, or shows it again.
Hide(f) ==
    /\ f \notin hidden => edits < MaxEdits
    /\ edits' = IF f \in hidden THEN edits ELSE edits + 1
    /\ hidden' = IF f \in hidden THEN hidden \ {f} ELSE hidden \cup {f}
    /\ UNCHANGED <<work, head, node, checkout, ledger, create, scan, commit, refused, faults>>

\* settle_interval has passed since the observation was first made.
Settle(e) ==
    /\ candidate[e].at = "settling"
    /\ candidate' = [candidate EXCEPT ![e].at = "settled"]
    /\ UNCHANGED <<disk, media, node, checkout, entry, create, scan, commit, refused, faults>>

Fails == faults < MaxFaults /\ faults' = faults + 1

Stop ==
    /\ Fails
    /\ create' = NotCreating /\ scan' = NotScanning
    /\ commit' = [p \in Committer |-> NotCommitting]
    /\ UNCHANGED <<disk, media, node, checkout, ledger, refused>>

-----------------------------------------------------------------------------
(* Creating a checkout *)

\* Create up to its first file: what a stopped creation left building is given up.
StartCreate(c) ==
    /\ create.at = "idle" /\ checkout[c] = "none"
    /\ checkout' = [d \in Checkout |->
                        IF d = c THEN "building"
                        ELSE IF checkout[d] = "building" THEN "error" ELSE checkout[d]]
    /\ create' = [at |-> "copy", now |-> {c}, from |-> head,
                  left |-> {e \in EntriesOf(c) : FileOf[e] \notin hidden}]
    /\ UNCHANGED <<disk, media, node, ledger, scan, commit, refused, faults>>

FailCreate(c) ==
    /\ checkout' = [checkout EXCEPT ![c] = "error"]
    /\ create' = NotCreating
    /\ UNCHANGED <<work, ledger>>

\* The exact version selected at the start, even if the file has moved on since.
Materialize(c, e) ==
    /\ create.now = {c} /\ e \in create.left
    /\ \/ /\ FileOf[e] \notin hidden
          /\ work' = [work EXCEPT ![e] = [sum |-> create.from[FileOf[e]].sum, stamp |-> 0]]
          /\ entry' = [entry EXCEPT ![e] =
                [state |-> "clean", base |-> create.from[FileOf[e]].version,
                 bsum |-> create.from[FileOf[e]].sum, stamp |-> 0, known |-> TRUE,
                 sum |-> create.from[FileOf[e]].sum]]
          /\ create' = [create EXCEPT !.left = create.left \ {e}]
          /\ UNCHANGED <<checkout, candidate, faults>>
       \/ FileOf[e] \in hidden /\ FailCreate(c) /\ UNCHANGED faults
       \/ Fails /\ FailCreate(c)
    /\ UNCHANGED <<media, node, edits, scan, commit, refused>>

Activate(c) ==
    /\ create.now = {c} /\ create.left = {}
    /\ checkout' = [checkout EXCEPT ![c] = "active"]
    /\ create' = NotCreating
    /\ UNCHANGED <<disk, media, node, ledger, scan, commit, refused, faults>>

\* The write side of the lifecycle lock: nothing else is in progress.
Retire(c) ==
    /\ create.at = "idle" /\ scan.at = "idle"
    /\ \A p \in Committer : commit[p].at = "idle"
    /\ checkout[c] \notin {"none", "retired"}
    /\ checkout' = [checkout EXCEPT ![c] = "retired"]
    /\ UNCHANGED <<disk, media, node, ledger, create, scan, commit, refused, faults>>

-----------------------------------------------------------------------------
(* The scanner *)

Outside == <<disk, media, node, checkout, create, commit, refused>>

Holds(e, s) == work[e].sum # NoContent /\ work[e].stamp = s

\* ListActive at the start of a pass.
StartScan ==
    /\ scan.at = "idle" /\ scan.todo = {}
    /\ scan' = [scan EXCEPT !.todo = {c \in Checkout : checkout[c] = "active"}]
    /\ scan'.todo # {}
    /\ UNCHANGED <<Outside, ledger, faults>>

\* Mutant: the state read when the pass began is not read again.
OpenListed(c) ==
    /\ scan.at = "idle" /\ c \in scan.todo
    /\ scan' = [scan EXCEPT !.todo = scan.todo \ {c}, !.at = "walk",
                            !.left = EntriesOf(c), !.snap = entry,
                            !.had = {e \in Entry : candidate[e].at # "none"}]
    /\ UNCHANGED <<Outside, ledger, faults>>

\* scanCheckout takes the lifecycle lock, reads the state again, then the rows.
OpenCheckout(c) ==
    /\ scan.at = "idle" /\ c \in scan.todo
    /\ scan' = IF checkout[c] # "active"
               THEN [scan EXCEPT !.todo = scan.todo \ {c}]
               ELSE [scan EXCEPT !.todo = scan.todo \ {c}, !.at = "walk",
                        !.left = {e \in EntriesOf(c) : entry[e].state # "none"},
                        !.snap = [e \in Entry |-> IF CheckoutOf[e] = c THEN entry[e]
                                                                       ELSE NoEntry],
                        !.had = {e \in EntriesOf(c) : candidate[e].at # "none"}]
    /\ UNCHANGED <<Outside, ledger, faults>>

Seen(e) == [scan EXCEPT !.left = scan.left \ {e}, !.seen = scan.seen \cup {e}]

\* The fast path: the row already describes the file on disk.
Unchanged(e) ==
    /\ scan.snap[e].state \notin {"missing", "error"}
    /\ scan.snap[e].known /\ Holds(e, scan.snap[e].stamp)

\* Mutant: every scan starts the observation again.
ObserveAfresh(e) ==
    /\ candidate' = [candidate EXCEPT ![e] = [at |-> "settling", stamp |-> work[e].stamp]]
    /\ scan' = Seen(e)

\* ObserveScanCandidate: true when the same observation has settled.
Observe(e) ==
    IF candidate[e].at # "none" /\ candidate[e].stamp = work[e].stamp
    THEN /\ scan' = IF candidate[e].at = "settling" THEN Seen(e)
                    ELSE [Seen(e) EXCEPT !.at = "hash", !.now = {e}, !.stamp = work[e].stamp]
         /\ UNCHANGED candidate
    ELSE /\ candidate' = [candidate EXCEPT ![e] = [at |-> "settling", stamp |-> work[e].stamp]]
         /\ scan' = Seen(e)

\* Mutant: a state the table does not know.
ScanErrorState(e) ==
    /\ entry' = [entry EXCEPT ![e].state = "failed"]
    /\ UNCHANGED candidate

MarkEntryScanError(e) ==
    /\ entry' = [entry EXCEPT ![e].state = "error"]
    /\ UNCHANGED candidate

\* The walk comes by the path of an entry; a file that is gone is not seen.
Visit(e) ==
    /\ scan.at = "walk" /\ e \in scan.left
    /\ \/ /\ work[e].sum = NoContent
          /\ scan' = [scan EXCEPT !.left = scan.left \ {e}]
          /\ UNCHANGED <<ledger, faults>>
       \/ /\ work[e].sum # NoContent /\ scan.snap[e].state = "conflict"
          /\ scan' = Seen(e)
          /\ UNCHANGED <<ledger, faults>>
       \/ /\ scan.snap[e].state # "conflict" /\ Unchanged(e)
          /\ scan' = Seen(e)
          /\ candidate' = IF e \in scan.had THEN [candidate EXCEPT ![e] = NoCandidate]
                                            ELSE candidate
          /\ UNCHANGED <<entry, faults>>
       \/ /\ work[e].sum # NoContent /\ scan.snap[e].state # "conflict" /\ ~Unchanged(e)
          /\ Observe(e)
          /\ UNCHANGED <<entry, faults>>
       \/ /\ Fails /\ scan.snap[e].state # "conflict"
          /\ MarkEntryScanError(e)
          /\ scan' = Seen(e)
    /\ UNCHANGED Outside

Walk == [scan EXCEPT !.at = "walk", !.now = {}, !.stamp = 0, !.sum = NoContent]

\* hashSettledFile: nothing comes of a file that changes while it is read.
HashSettled(e) ==
    /\ scan.at = "hash" /\ scan.now = {e}
    /\ \/ /\ scan' = IF Holds(e, scan.stamp)
                     THEN [scan EXCEPT !.at = "record", !.sum = work[e].sum] ELSE Walk
          /\ UNCHANGED <<ledger, faults>>
       \/ Fails /\ MarkEntryScanError(e) /\ scan' = Walk
    /\ UNCHANGED Outside

\* Mutant: the stamp is taken after the file was read.
ObservedLate(e, base) ==
    [entry[e] EXCEPT !.stamp = work[e].stamp, !.known = TRUE, !.sum = scan.sum,
                     !.state = IF base = scan.sum THEN "clean" ELSE "pending"]

\* The row after a hash: what was inspected before the reading, what was read.
Observed(e, base) ==
    [entry[e] EXCEPT !.stamp = scan.stamp, !.known = TRUE, !.sum = scan.sum,
                     !.state = IF base = scan.sum THEN "clean" ELSE "pending"]

EndCheckout == scan' = [NotScanning EXCEPT !.todo = scan.todo]

\* Mutant: the base of the row the scan began with decides.
FinalizeBySnapshot(e) ==
    /\ scan.at = "record" /\ scan.now = {e}
    /\ IF candidate[e].at # "none" /\ candidate[e].stamp = scan.stamp
       THEN /\ entry' = [entry EXCEPT ![e] = Observed(e, scan.snap[e].bsum)]
            /\ candidate' = [candidate EXCEPT ![e] = NoCandidate]
            /\ scan' = Walk
       ELSE EndCheckout /\ UNCHANGED ledger
    /\ UNCHANGED <<Outside, faults>>

\* FinalizeTrackedScanCandidate; without its candidate the scan of the folder fails.
FinalizeTracked(e) ==
    /\ scan.at = "record" /\ scan.now = {e}
    /\ IF candidate[e].at # "none" /\ candidate[e].stamp = scan.stamp
       THEN /\ entry' = [entry EXCEPT ![e] = Observed(e, entry[e].bsum)]
            /\ candidate' = [candidate EXCEPT ![e] = NoCandidate]
            /\ scan' = Walk
       ELSE EndCheckout /\ UNCHANGED ledger
    /\ UNCHANGED <<Outside, faults>>

Unseen(e) ==
    /\ e \notin scan.seen
    /\ scan.snap[e].state \notin {"none", "missing", "conflict"}

\* After the walk, by the rows as they were before it.
MarkEntryMissing(e) ==
    /\ scan.at = "walk" /\ scan.left = {} /\ Unseen(e)
    /\ candidate' = [candidate EXCEPT ![e] = NoCandidate]
    /\ entry' = [entry EXCEPT ![e].state = "missing"]
    /\ scan' = Seen(e)
    /\ UNCHANGED <<Outside, faults>>

\* The folder is done, or a failed call ends its scan.
EndScan ==
    /\ scan.at # "idle"
    /\ \/ scan.at = "walk" /\ scan.left = {} /\ ~(\E e \in Entry : Unseen(e)) /\ UNCHANGED faults
       \/ Fails
    /\ EndCheckout
    /\ UNCHANGED <<Outside, ledger>>

-----------------------------------------------------------------------------
(* Commits *)

\* Commit up to its first entry: the pending rows as they are now.
StartCommit(p, c) ==
    /\ commit[p].at = "idle" /\ checkout[c] = "active"
    /\ LET listed == {e \in EntriesOf(c) : entry[e].state = "pending"}
       IN /\ listed # {}
          /\ commit' = [commit EXCEPT ![p] = [NotCommitting EXCEPT
                !.at = "next", !.left = listed,
                !.listed = [e \in Entry |-> IF e \in listed THEN entry[e] ELSE NoEntry]]]
    /\ UNCHANGED <<disk, media, node, checkout, ledger, create, scan, refused, faults>>

\* The call goes on to its next entry, or returns.
Rest(p) ==
    IF commit[p].left = {} THEN NotCommitting
    ELSE [NotCommitting EXCEPT !.at = "next", !.left = commit[p].left,
                               !.listed = commit[p].listed]

Goto(p, r) == commit' = [commit EXCEPT ![p] = r]

Beside == <<disk, hidden, checkout, create, scan>>

\* Another file of the owner has this content.
Taken(e, s) == \E g \in File \ {FileOf[e]} : head[g].sum = s

\* The row is of the version the catalog names.
Current(e, row) == row.base = head[FileOf[e]].version /\ row.bsum = head[FileOf[e]].sum

\* GetCommitTarget and openCommitSource: a file that has changed is left alone.
Target(p, e) ==
    /\ commit[p].at = "next" /\ e \in commit[p].left
    /\ LET c == [commit[p] EXCEPT !.left = commit[p].left \ {e}, !.now = {e}]
           skip == IF c.left = {} THEN NotCommitting
                   ELSE [c EXCEPT !.now = {}]
           barred == FileOf[e] \in hidden \/ Taken(e, entry[e].sum)
       IN \/ /\ ~Current(e, entry[e]) \/ barred
             /\ Goto(p, [c EXCEPT !.at = "refuse", !.target = c.listed[e]])
             /\ refused' = IF barred THEN refused \cup {e} ELSE refused
             /\ UNCHANGED faults
          \/ /\ Current(e, entry[e]) /\ ~barred
             /\ Goto(p, IF entry[e].state = "pending" /\ Holds(e, entry[e].stamp)
                        THEN [c EXCEPT !.at = "replace", !.target = entry[e]] ELSE skip)
             /\ UNCHANGED <<refused, faults>>
          \/ Fails /\ Goto(p, skip) /\ UNCHANGED refused
    /\ UNCHANGED <<Beside, head, node, ledger>>

\* Mutant: what Docbank holds is not compared with the base.
ReplaceBlindly(p, e) ==
    /\ commit[p].at = "replace" /\ commit[p].now = {e}
    /\ LET f == FileOf[e]
           t == commit[p].target
       IN /\ node' = [node EXCEPT ![f] = [version |-> node[f].version + 1, sum |-> t.sum]]
          /\ Goto(p, [commit[p] EXCEPT !.at = "check", !.version = node[f].version + 1])
    /\ UNCHANGED <<Beside, head, ledger, refused, faults>>

(***************************************************************************)
(* Adapter.Replace, under its mutex.  The open file still has the bytes    *)
(* that were observed, unless it was written in place: then Docbank finds  *)
(* another digest than expected.  A call may fail before or after Docbank  *)
(* has the version.                                                        *)
(***************************************************************************)
Replace(p, e) ==
    /\ commit[p].at = "replace" /\ commit[p].now = {e}
    /\ LET f == FileOf[e]
           t == commit[p].target
           done(v) == [commit[p] EXCEPT !.at = "check", !.version = v]
           put == node' = [node EXCEPT ![f] = [version |-> t.base + 1, sum |-> t.sum]]
           based == node[f] = [version |-> t.base, sum |-> t.bsum]
       IN \/ /\ ~based
             /\ Goto(p, IF node[f].version # t.base /\ node[f].sum = t.sum
                        THEN done(node[f].version)
                        ELSE [commit[p] EXCEPT !.at = "refuse", !.target = commit[p].listed[e]])
             /\ UNCHANGED <<node, faults>>
          \/ based /\ put /\ Goto(p, done(t.base + 1)) /\ UNCHANGED faults
          \/ /\ based /\ ~Holds(e, t.stamp)
             /\ Goto(p, Rest(p))
             /\ UNCHANGED <<node, faults>>
          \/ /\ Fails /\ Goto(p, Rest(p))
             /\ (based /\ put) \/ UNCHANGED node
    /\ UNCHANGED <<Beside, head, ledger, refused>>

\* commitSourceStillCurrent: the path still has the file that was committed.
Check(p, e) ==
    /\ commit[p].at = "check" /\ commit[p].now = {e}
    /\ \/ /\ Goto(p, [commit[p] EXCEPT !.at = "apply",
                                       !.clean = Holds(e, commit[p].target.stamp)])
          /\ UNCHANGED faults
       \/ Fails /\ Goto(p, [commit[p] EXCEPT !.at = "apply"])
    /\ UNCHANGED <<Beside, head, node, ledger, refused>>

(***************************************************************************)
(* Source metadata, then ApplyCommit: the catalog moves to the version, and*)
(* the entry with it, in one transaction or not at all.                    *)
(***************************************************************************)
ApplyCommit(p, e) ==
    /\ commit[p].at = "apply" /\ commit[p].now = {e}
    /\ LET t == commit[p].target
           f == FileOf[e]
           matches == Current(e, t) /\ ~Taken(e, t.sum) /\ entry[e] = t
           applied == [t EXCEPT !.base = commit[p].version, !.bsum = t.sum,
                           !.state = IF commit[p].clean THEN "clean" ELSE "pending",
                           !.known = commit[p].clean /\ t.known]
       IN \/ /\ f \notin hidden /\ matches
             /\ head' = [head EXCEPT ![f] = [version |-> commit[p].version, sum |-> t.sum]]
             /\ entry' = [entry EXCEPT ![e] = applied]
             /\ candidate' = IF commit[p].clean THEN candidate
                             ELSE [candidate EXCEPT ![e] = NoCandidate]
             /\ Goto(p, Rest(p))
             /\ UNCHANGED faults
          \/ /\ f \notin hidden /\ ~matches
             /\ Goto(p, [commit[p] EXCEPT !.at = "refuse"])
             /\ UNCHANGED <<head, ledger, faults>>
          \/ /\ f \in hidden
             /\ Goto(p, Rest(p))
             /\ UNCHANGED <<head, ledger, faults>>
          \/ /\ Fails /\ Goto(p, Rest(p))
             /\ UNCHANGED <<head, ledger>>
    /\ UNCHANGED <<Beside, node, refused>>

\* Mutant: the row is marked whatever has become of it.
MarkAnyway(p, e) ==
    /\ commit[p].at = "refuse" /\ commit[p].now = {e}
    /\ entry' = [entry EXCEPT ![e].state = "conflict"]
    /\ Goto(p, Rest(p))
    /\ UNCHANGED <<Beside, head, node, candidate, refused, faults>>

\* MarkCommitConflict: only the row that was refused.
MarkCommitConflict(p, e) ==
    /\ commit[p].at = "refuse" /\ commit[p].now = {e}
    /\ LET t == commit[p].target
           same == entry[e].state = "pending" /\ entry[e].base = t.base /\ entry[e].sum = t.sum
       IN \/ /\ entry' = IF same THEN [entry EXCEPT ![e].state = "conflict"] ELSE entry
             /\ UNCHANGED faults
          \/ Fails /\ UNCHANGED entry
    /\ Goto(p, Rest(p))
    /\ UNCHANGED <<Beside, head, node, candidate, refused>>

-----------------------------------------------------------------------------
CreateStep(c) ==
    \/ StartCreate(c)
    \/ \E e \in Entry : Materialize(c, e)
    \/ Activate(c)

ScanEntry(e) ==
    \/ Visit(e)
    \/ HashSettled(e)
    \/ FinalizeTracked(e)
    \/ MarkEntryMissing(e)

ScanStep ==
    \/ StartScan
    \/ \E c \in Checkout : OpenCheckout(c)
    \/ \E e \in Entry : ScanEntry(e)
    \/ EndScan

CommitStep(p) ==
    \/ \E c \in Checkout : StartCommit(p, c)
    \/ \E e \in Entry :
          \/ Target(p, e)
          \/ Replace(p, e)
          \/ Check(p, e)
          \/ ApplyCommit(p, e)
          \/ MarkCommitConflict(p, e)

Next ==
    \/ \E e \in Entry : Edit(e) \/ Remove(e) \/ Settle(e)
    \/ \E f \in File : Hide(f)
    \/ \E c \in Checkout : CreateStep(c) \/ Retire(c)
    \/ ScanStep
    \/ \E p \in Committer : CommitStep(p)
    \/ Stop

Spec == Init /\ [][Next]_vars

\* The scanner is called by a ticker, and time passes; users and operators owe nothing.
Fairness == WF_vars(ScanStep) /\ \A e \in Entry : WF_vars(Settle(e))

FairSpec == Spec /\ Fairness

-----------------------------------------------------------------------------
(* Properties *)

\* A row that lets the scanner pass a file by tells the content the file really
\* has, and calls it clean only if that is the base: no edit is overlooked.
NoEditOverlooked ==
    \A e \in Entry :
        /\ entry[e].state \in {"clean", "pending"}
        /\ entry[e].known /\ Holds(e, entry[e].stamp)
        => /\ work[e].sum = entry[e].sum
           /\ entry[e].state = "clean" => entry[e].sum = entry[e].bsum

\* What waits to be written back, and need not be looked at again first, differs
\* from the version it was based on, although commits move the base meanwhile.
PendingDiffers ==
    \A e \in Entry :
        entry[e].state = "pending" /\ entry[e].known => entry[e].sum # entry[e].bsum

\* An entry is in conflict only if Docbank has moved on from its base, or a commit
\* found its file hidden or its content in another file; never because two commits
\* of the same folder ran together and the other one was first.
ConflictHasCause ==
    \A e \in Entry :
        entry[e].state = "conflict" =>
            e \in refused \/ node[FileOf[e]].version # entry[e].base

\* The record of a retired folder is never touched again, also not by a scan that
\* listed the folder before it was retired.
RetiredIsFrozen ==
    [][\A e \in Entry :
          checkout[CheckoutOf[e]] = "retired" =>
              checkout'[CheckoutOf[e]] = "retired" /\ entry'[e] = entry[e]]_vars

\* Versions are written back one at a time, each on top of the catalog's own.
Ledger == INSTANCE CheckoutLedger
ImplementsLedger == Ledger!Spec

\* With the scanner running, an edit that stays is found: the entry waits for a
\* commit with the very content of the file, or is in conflict.
EditIsNoticed ==
    \A e \in Entry :
        /\ checkout[CheckoutOf[e]] = "active"
        /\ work[e].sum \notin {NoContent, entry[e].bsum}
        ~> \/ entry[e].state = "conflict"
           \/ entry[e].state = "pending" /\ entry[e].sum = work[e].sum
           \/ work[e].sum \in {NoContent, entry[e].bsum}
           \/ checkout[CheckoutOf[e]] # "active"

=============================================================================
