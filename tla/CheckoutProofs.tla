---------------------------- MODULE CheckoutProofs ---------------------------
(***************************************************************************)
(* Safety of writable checkouts for every set of files, folders, entries   *)
(* and committers.  Two arguments carry it.  Stamps: an edit takes one no  *)
(* row, candidate or scan has seen, so what was read under a stamp is what *)
(* the file holds for as long as it has that stamp.  Versions: Docbank is  *)
(* at most one version ahead of the catalog, bases never lead the catalog, *)
(* and a commit that has its version in Docbank knows its content, so the  *)
(* catalog can only move to what Docbank has and a commit is refused only  *)
(* behind a newer version.                                                 *)
(***************************************************************************)
EXTENDS Checkout, TLAPS

WorkRec == [sum : Sum, stamp : 0..MaxEdits]
FileRec == [version : Nat, sum : Content]
CandidateRec == [at : {"none", "settling", "settled"}, stamp : 0..MaxEdits]
CreateRec == [at : {"idle", "copy"}, now : SUBSET Checkout, left : SUBSET Entry,
              from : [File -> [version : Nat, sum : Sum]]]
ScanRec == [at : {"idle", "walk", "hash", "record"}, todo : SUBSET Checkout,
            left : SUBSET Entry, snap : [Entry -> Row], had : SUBSET Entry,
            seen : SUBSET Entry, now : SUBSET Entry, stamp : 0..MaxEdits, sum : Sum]
CommitRec == [at : {"idle", "next", "replace", "check", "apply", "refuse"},
              left : SUBSET Entry, listed : [Entry -> Row], now : SUBSET Entry,
              target : Row, version : Nat, clean : BOOLEAN]

\* TypeOK in these sets.
Typed ==
    /\ work \in [Entry -> WorkRec]
    /\ head \in [File -> FileRec]
    /\ node \in [File -> FileRec]
    /\ hidden \subseteq File
    /\ checkout \in [Checkout -> {"none", "building", "active", "error", "retired"}]
    /\ entry \in [Entry -> Row]
    /\ candidate \in [Entry -> CandidateRec]
    /\ create \in CreateRec
    /\ scan \in ScanRec
    /\ commit \in [Committer -> CommitRec]
    /\ refused \subseteq Entry
    /\ edits \in 0..MaxEdits /\ faults \in 0..MaxFaults

\* A row's base does not lead the catalog, and names its content if it is its version.
Based(row, f) ==
    /\ row.base <= head[f].version
    /\ row.base = head[f].version => row.bsum = head[f].sum

RowInv(e) ==
    /\ entry[e].stamp <= edits
    /\ entry[e].state \in {"clean", "pending"} /\ entry[e].known /\ Holds(e, entry[e].stamp)
        => work[e].sum = entry[e].sum
    /\ entry[e].state = "clean" => entry[e].sum = entry[e].bsum
    /\ entry[e].state = "pending" => entry[e].sum \in Content
    /\ entry[e].state = "pending" /\ entry[e].known => entry[e].sum # entry[e].bsum
    /\ Based(entry[e], FileOf[e])
    /\ entry[e].state = "conflict" =>
         e \in refused \/ entry[e].base < node[FileOf[e]].version

\* Docbank is where the catalog is, or one version ahead.
VersionInv(f) ==
    /\ 1 <= head[f].version
    /\ node[f] = head[f] \/ node[f].version = head[f].version + 1

WorkInv == \A e \in Entry : work[e].stamp <= edits

\* A folder being made: its entries, and what was selected for it at the start.
Begun(c) ==
    /\ checkout[c] = "building"
    /\ \A e \in create.left : CheckoutOf[e] = c
    /\ \A f \in File : /\ create.from[f].version <= head[f].version
                       /\ create.from[f].version = head[f].version
                            => create.from[f].sum = head[f].sum

CreateInv ==
    /\ create.at = "idle" => create.now = {}
    /\ \A c \in Checkout : create.now = {c} => Begun(c)

InScan(e) == e \in scan.left \/ scan.now = {e} \/ scan.snap[e].state # "none"

\* The scanner is in an active folder, and what it read it read under its stamp.
ScanInv ==
    /\ scan.at = "idle" => \A e \in Entry : ~InScan(e)
    /\ \A e \in Entry : InScan(e) => checkout[CheckoutOf[e]] = "active"
    /\ scan.stamp <= edits
    /\ scan.at = "record" => scan.sum \in Content
    /\ \A e \in Entry : scan.at = "record" /\ scan.now = {e} /\ Holds(e, scan.stamp)
         => work[e].sum = scan.sum

InCommit(r, e) == e \in r.left \/ r.now = {e} \/ r.listed[e].state # "none"

\* A commit is in an active folder; its target does not lead the catalog; once
\* Docbank has its version, no other content can have that number.
CallInv(r) ==
    /\ r.at = "idle" => \A e \in Entry : ~InCommit(r, e)
    /\ \A e \in Entry : InCommit(r, e) => checkout[CheckoutOf[e]] = "active"
    /\ \A e \in Entry : e \in r.left \/ r.now = {e} => r.listed[e].base <= entry[e].base
    /\ \A e \in Entry : r.now = {e} /\ r.at \in {"replace", "check", "apply"} =>
         /\ r.target.state = "pending"
         /\ r.target.sum \in Content
         /\ r.listed[e].base <= r.target.base
         /\ Based(r.target, FileOf[e])
    /\ \A e \in Entry : r.now = {e} /\ r.at \in {"check", "apply"} =>
         /\ r.target.base < r.version
         /\ r.version <= node[FileOf[e]].version
         /\ r.version = node[FileOf[e]].version => r.target.sum = node[FileOf[e]].sum
    /\ \A e \in Entry : r.now = {e} /\ r.at = "refuse" =>
         e \in refused \/ r.target.base < node[FileOf[e]].version

CommitInv == \A p \in Committer : CallInv(commit[p])

IInv ==
    /\ TypeOK
    /\ \A e \in Entry : RowInv(e)
    /\ \A f \in File : VersionInv(f)
    /\ WorkInv
    /\ CreateInv
    /\ ScanInv
    /\ CommitInv

USE ConstantAssumption

LEMMA TypeParts == TypeOK <=> Typed
  BY DEF TypeOK, Typed, WorkRec, FileRec, CandidateRec, CreateRec, ScanRec, CommitRec

LEMMA TypeNext == Typed' => TypeOK'
  BY DEF TypeOK, Typed, WorkRec, FileRec, CandidateRec, CreateRec, ScanRec, CommitRec

LEMMA Blanks ==
    /\ Vacant \in WorkRec /\ Vacant.sum = NoContent /\ Vacant.stamp = 0
    /\ NoEntry \in Row /\ NoEntry.state = "none" /\ NoEntry.base = 0 /\ NoEntry.stamp = 0
    /\ NoEntries \in [Entry -> Row] /\ \A e \in Entry : NoEntries[e] = NoEntry
    /\ NoCandidate \in CandidateRec
  <1>1. NoContent \in Sum /\ 0 \in 0..MaxEdits /\ 0 \in Nat /\ FALSE \in BOOLEAN
    BY DEF Sum
  <1>2. NoEntry \in Row /\ NoEntry.state = "none" /\ NoEntry.base = 0 /\ NoEntry.stamp = 0
    BY <1>1 DEF NoEntry, Row
  <1> QED
    BY <1>1, <1>2 DEF Vacant, WorkRec, NoEntries, NoCandidate, CandidateRec

LEMMA IdleCreate ==
    NotCreating \in CreateRec /\ NotCreating.at = "idle" /\ NotCreating.now = {}
  <1>1. NoContent \in Sum /\ 0 \in Nat
    BY DEF Sum
  <1> QED
    BY <1>1 DEF NotCreating, CreateRec

LEMMA IdleScan ==
    /\ NotScanning \in ScanRec
    /\ NotScanning.at = "idle" /\ NotScanning.left = {} /\ NotScanning.now = {}
    /\ NotScanning.snap = NoEntries /\ NotScanning.stamp = 0
  <1>1. NoContent \in Sum /\ 0 \in 0..MaxEdits
    BY DEF Sum
  <1> QED
    BY <1>1, Blanks DEF NotScanning, ScanRec

LEMMA IdleCommit ==
    /\ NotCommitting \in CommitRec
    /\ NotCommitting.at = "idle" /\ NotCommitting.left = {} /\ NotCommitting.now = {}
    /\ NotCommitting.listed = NoEntries
  BY Blanks DEF NotCommitting, CommitRec

\* A call that is over asks nothing.
LEMMA IdleCall == CallInv(NotCommitting)
  BY IdleCommit, Blanks DEF CallInv, InCommit

LEMMA IdleCallNext == CallInv(NotCommitting)'
  BY IdleCommit, Blanks DEF CallInv, InCommit

USE DEF Typed

LEMMA InitIInv == Init => IInv
  <1> SUFFICES ASSUME Init
               PROVE  IInv
    OBVIOUS
  <1>1. head \in [File -> FileRec] /\ \A f \in File : head[f].version = 1
    BY DEF Init, FileRec
  <1>2. TypeOK
    BY <1>1, Blanks, IdleCreate, IdleScan, IdleCommit, TypeParts DEF Init
  <1>3. \A e \in Entry : RowInv(e)
    BY <1>1, Blanks DEF Init, RowInv, Based
  <1>4. \A f \in File : VersionInv(f)
    BY <1>1 DEF Init, VersionInv
  <1>5. WorkInv /\ CreateInv
    BY Blanks, IdleCreate DEF Init, WorkInv, CreateInv
  <1>6. ScanInv
    BY Blanks, IdleScan DEF Init, ScanInv, InScan
  <1>7. CommitInv
    BY IdleCall DEF Init, CommitInv
  <1> QED
    BY <1>2, <1>3, <1>4, <1>5, <1>6, <1>7 DEF IInv

-----------------------------------------------------------------------------
(* What a step may do without disturbing the parts it does not touch.      *)

\* Versions only move forward, and a version keeps its content.
Grown ==
    /\ \A f \in File : /\ head[f].version <= head'[f].version
                       /\ head'[f].version = head[f].version => head'[f] = head[f]
                       /\ node[f].version <= node'[f].version
                       /\ node'[f].version = node[f].version => node'[f] = node[f]
    /\ refused \subseteq refused'

\* A working file that changes gets a stamp that is new.
Fresh(e) == work'[e].sum # NoContent /\ work'[e].stamp <= edits => work'[e] = work[e]

Steady == \A c \in Checkout : checkout[c] = "active" => checkout'[c] = "active"

\* The base of an entry in an active folder only moves forward.
BaseKept == \A e \in Entry : checkout[CheckoutOf[e]] = "active" => entry[e].base <= entry'[e].base

LEMMA GrownIfSame == TypeOK /\ UNCHANGED <<head, node>> /\ refused \subseteq refused' => Grown
  BY TypeParts DEF Grown, FileRec

LEMMA GrownFile ==
    ASSUME TypeOK, Typed', Grown, NEW f \in File
    PROVE  /\ head[f].version \in Nat /\ head'[f].version \in Nat
           /\ node[f].version \in Nat /\ node'[f].version \in Nat
           /\ head[f].version <= head'[f].version
           /\ head'[f].version = head[f].version => head'[f].sum = head[f].sum
           /\ node[f].version <= node'[f].version
           /\ node'[f].version = node[f].version => node'[f].sum = node[f].sum
  <1>1. head[f] \in FileRec /\ head'[f] \in FileRec /\ node[f] \in FileRec /\ node'[f] \in FileRec
    BY TypeParts
  <1>2. /\ head[f].version \in Nat /\ head'[f].version \in Nat
        /\ node[f].version \in Nat /\ node'[f].version \in Nat
    BY <1>1 DEF FileRec
  <1>3. /\ head[f].version <= head'[f].version
        /\ head'[f].version = head[f].version => head'[f] = head[f]
        /\ node[f].version <= node'[f].version
        /\ node'[f].version = node[f].version => node'[f] = node[f]
    BY DEF Grown
  <1> QED
    BY <1>2, <1>3

LEMMA BasedKept ==
    ASSUME TypeOK, Typed', Grown, NEW f \in File, NEW row \in Row, Based(row, f)
    PROVE  Based(row, f)'
  <1>1. row.base \in Nat
    BY DEF Row
  <1>2. /\ head[f].version \in Nat /\ head'[f].version \in Nat
        /\ head[f].version <= head'[f].version
        /\ head'[f].version = head[f].version => head'[f].sum = head[f].sum
    BY GrownFile
  <1>3. row.base <= head[f].version /\ (row.base = head[f].version => row.bsum = head[f].sum)
    BY DEF Based
  <1>4. row.base <= head'[f].version
    BY <1>1, <1>2, <1>3
  <1>5. row.base = head'[f].version => row.bsum = head'[f].sum
    BY <1>1, <1>2, <1>3
  <1> QED
    BY <1>4, <1>5 DEF Based

LEMMA RowKept ==
    ASSUME IInv, NEW e \in Entry, entry'[e] = entry[e], Grown, Fresh(e),
           edits' \in Nat, edits <= edits', Typed'
    PROVE  RowInv(e)'
  <1>1. entry[e] \in Row /\ FileOf[e] \in File /\ edits \in Nat
    BY TypeParts DEF IInv
  <1>2. /\ node[FileOf[e]].version \in Nat /\ node'[FileOf[e]].version \in Nat
        /\ node[FileOf[e]].version <= node'[FileOf[e]].version
    BY <1>1, GrownFile DEF IInv
  <1>3. RowInv(e)
    BY DEF IInv
  <1>4. Based(entry[e], FileOf[e])'
    <2>1. Based(entry[e], FileOf[e])
      BY <1>3 DEF RowInv
    <2>2. PICK row \in Row : row = entry[e]
      BY <1>1
    <2>3. Based(row, FileOf[e])'
      BY <1>1, <2>1, <2>2, BasedKept DEF IInv
    <2> QED
      BY <2>2, <2>3 DEF Based
  <1>5. Holds(e, entry[e].stamp)' => work'[e] = work[e]
    BY <1>1, <1>3 DEF RowInv, Holds, Fresh, Row
  <1>6. entry[e].state = "conflict" => e \in refused' \/ entry[e].base < node'[FileOf[e]].version
    BY <1>1, <1>2, <1>3 DEF RowInv, Grown, Row, FileRec
  <1>7. entry[e].stamp <= edits'
    BY <1>1, <1>3 DEF RowInv, Row
  <1> QED
    BY <1>3, <1>4, <1>5, <1>6, <1>7 DEF RowInv, Holds

LEMMA CallKept ==
    ASSUME IInv, NEW r \in CommitRec, CallInv(r), Grown, Steady, BaseKept, Typed'
    PROVE  CallInv(r)'
  <1>1. ASSUME NEW e \in Entry
        PROVE  /\ FileOf[e] \in File /\ CheckoutOf[e] \in Checkout
               /\ entry[e] \in Row /\ entry'[e] \in Row /\ r.listed[e] \in Row /\ r.target \in Row
               /\ head[FileOf[e]] \in FileRec /\ node[FileOf[e]] \in FileRec
               /\ head'[FileOf[e]] \in FileRec /\ node'[FileOf[e]] \in FileRec
    BY TypeParts DEF IInv, CommitRec
  <1>2. r.at = "idle" => \A e \in Entry : ~InCommit(r, e)
    BY DEF CallInv
  <1>3. \A e \in Entry : InCommit(r, e) => checkout[CheckoutOf[e]] = "active" /\ checkout'[CheckoutOf[e]] = "active"
    BY <1>1 DEF CallInv, Steady
  <1>4. ASSUME NEW e \in Entry, e \in r.left \/ r.now = {e}
        PROVE  r.listed[e].base <= entry'[e].base
    <2>1. r.listed[e].base <= entry[e].base /\ entry[e].base <= entry'[e].base
      BY <1>3, <1>4 DEF CallInv, BaseKept, InCommit
    <2> QED
      BY <1>1, <2>1 DEF Row
  <1>5. ASSUME NEW e \in Entry, r.now = {e}, r.at \in {"replace", "check", "apply"}
        PROVE  /\ r.target.state = "pending"
               /\ r.target.sum \in Content
               /\ r.listed[e].base <= r.target.base
               /\ Based(r.target, FileOf[e])'
    <2>1. /\ r.target.state = "pending"
          /\ r.target.sum \in Content
          /\ r.listed[e].base <= r.target.base
          /\ Based(r.target, FileOf[e])
      BY <1>5 DEF CallInv
    <2> QED
      BY <1>1, <2>1, BasedKept DEF IInv
  <1>6. ASSUME NEW e \in Entry, r.now = {e}, r.at \in {"check", "apply"}
        PROVE  /\ r.target.base < r.version
               /\ r.version <= node'[FileOf[e]].version
               /\ r.version = node'[FileOf[e]].version => r.target.sum = node'[FileOf[e]].sum
    <2>1. /\ r.target.base < r.version
          /\ r.version <= node[FileOf[e]].version
          /\ r.version = node[FileOf[e]].version => r.target.sum = node[FileOf[e]].sum
      BY <1>6 DEF CallInv
    <2>2. r.version \in Nat
      BY DEF CommitRec
    <2>3. /\ node[FileOf[e]].version \in Nat /\ node'[FileOf[e]].version \in Nat
          /\ node[FileOf[e]].version <= node'[FileOf[e]].version
          /\ node'[FileOf[e]].version = node[FileOf[e]].version => node'[FileOf[e]].sum = node[FileOf[e]].sum
      BY <1>1, GrownFile DEF IInv
    <2> QED
      BY <2>1, <2>2, <2>3
  <1>7. ASSUME NEW e \in Entry, r.now = {e}, r.at = "refuse"
        PROVE  e \in refused' \/ r.target.base < node'[FileOf[e]].version
    <2>1. e \in refused \/ r.target.base < node[FileOf[e]].version
      BY <1>7 DEF CallInv
    <2> QED
      BY <1>1, <2>1 DEF Grown, Row, FileRec
  <1> QED
    BY <1>2, <1>3, <1>4, <1>5, <1>6, <1>7 DEF CallInv, InCommit

LEMMA CommitKept ==
    ASSUME IInv, UNCHANGED commit, Grown, Steady, BaseKept, Typed'
    PROVE  CommitInv'
  <1> SUFFICES ASSUME NEW p \in Committer
               PROVE  CallInv(commit[p])'
    BY DEF CommitInv
  <1>1. PICK r \in CommitRec : r = commit[p]
    BY TypeParts DEF IInv
  <1>2. CallInv(r)
    BY <1>1 DEF IInv, CommitInv
  <1>3. CallInv(r)'
    BY <1>2, CallKept
  <1> QED
    BY <1>1, <1>3 DEF CallInv, InCommit, Based

LEMMA ScanKept ==
    ASSUME IInv, UNCHANGED scan, Steady, edits' \in Nat, edits <= edits',
           \A e \in Entry : scan.now = {e} => Fresh(e)
    PROVE  ScanInv'
  <1>1. scan \in ScanRec /\ edits \in Nat /\ \A e \in Entry : CheckoutOf[e] \in Checkout
    BY TypeParts DEF IInv
  <1>2. scan.stamp \in Nat /\ scan.stamp <= edits
    BY <1>1 DEF IInv, ScanInv, ScanRec
  <1>3. \A e \in Entry : InScan(e)' <=> InScan(e)
    BY DEF InScan
  <1>4. ASSUME NEW e \in Entry, scan.at = "record", scan.now = {e}, Holds(e, scan.stamp)'
        PROVE  work'[e].sum = scan.sum
    <2>1. work'[e] = work[e]
      BY <1>2, <1>4 DEF Fresh, Holds
    <2> QED
      BY <1>4, <2>1 DEF IInv, ScanInv, Holds
  <1> QED
    BY <1>1, <1>2, <1>3, <1>4 DEF IInv, ScanInv, Steady

LEMMA CreateKept ==
    ASSUME IInv, UNCHANGED create, Grown, Typed',
           \A c \in Checkout : create.now = {c} => checkout'[c] = checkout[c]
    PROVE  CreateInv'
  <1>1. create.at = "idle" => create.now = {}
    BY DEF IInv, CreateInv
  <1>2. ASSUME NEW c \in Checkout, create.now = {c}, NEW f \in File
        PROVE  /\ create.from[f].version <= head'[f].version
               /\ create.from[f].version = head'[f].version => create.from[f].sum = head'[f].sum
    <2>1. create.from[f].version \in Nat
      BY TypeParts DEF IInv, CreateRec
    <2>2. /\ create.from[f].version <= head[f].version
          /\ create.from[f].version = head[f].version => create.from[f].sum = head[f].sum
      BY <1>2 DEF IInv, CreateInv, Begun
    <2>3. /\ head[f].version \in Nat /\ head'[f].version \in Nat
          /\ head[f].version <= head'[f].version
          /\ head'[f].version = head[f].version => head'[f].sum = head[f].sum
      BY GrownFile DEF IInv
    <2> QED
      BY <2>1, <2>2, <2>3
  <1>3. ASSUME NEW c \in Checkout, create.now = {c}
        PROVE  Begun(c)'
    BY <1>2, <1>3 DEF IInv, CreateInv, Begun
  <1> QED
    BY <1>1, <1>3 DEF CreateInv

\* Steps of the world outside: nothing of the catalog, Docbank or a process.
LEMMA QuietIInv ==
    ASSUME IInv, UNCHANGED <<head, node, checkout, entry, create, scan, commit>>,
           refused \subseteq refused', Typed', edits <= edits',
           \A e \in Entry : Fresh(e), WorkInv'
    PROVE  IInv'
  <1>1. TypeOK' /\ edits' \in Nat
    BY TypeNext
  <1>2. Grown /\ Steady
    BY GrownIfSame DEF IInv, Steady
  <1>3. BaseKept
    BY TypeParts DEF IInv, BaseKept, Row
  <1>4. \A e \in Entry : RowInv(e)'
    BY <1>1, <1>2, RowKept
  <1>5. \A f \in File : VersionInv(f)'
    BY DEF IInv, VersionInv
  <1>6. ScanInv' /\ CreateInv' /\ CommitInv'
    BY <1>1, <1>2, <1>3, ScanKept, CreateKept, CommitKept
  <1> QED
    BY <1>1, <1>4, <1>5, <1>6 DEF IInv

LEMMA FailsKept == TypeOK /\ Fails => faults' \in 0..MaxFaults
  BY DEF TypeOK, Fails

\* An edit takes the next stamp; a file that is gone has none.
LEMMA DiskIInv ==
    ASSUME IInv, NEW e \in Entry, Edit(e) \/ Remove(e)
    PROVE  IInv'
  <1> USE DEF media, ledger
  <1>1. PICK w \in WorkRec :
          /\ work' = [work EXCEPT ![e] = w]
          /\ w.stamp <= edits + 1
          /\ w.sum = NoContent \/ w.stamp = edits + 1
    <2>1. edits \in Nat /\ edits' = edits + 1 /\ edits' \in 0..MaxEdits
      BY TypeParts DEF IInv, Edit, Remove
    <2>2. CASE Edit(e)
      <3>1. PICK s \in Content : work' = [work EXCEPT ![e] = [sum |-> s, stamp |-> edits + 1]]
        BY <2>2 DEF Edit
      <3> DEFINE w == [sum |-> s, stamp |-> edits + 1]
      <3>2. w \in WorkRec /\ w.stamp = edits + 1 /\ w.stamp <= edits + 1
        BY <2>1 DEF WorkRec, Sum
      <3>3. work' = [work EXCEPT ![e] = w] /\ edits + 1 \in Nat
        BY <2>1, <3>1
      <3> HIDE DEF w
      <3> QED
        BY <3>2, <3>3
    <2>3. CASE Remove(e)
      <3>1. work' = [work EXCEPT ![e] = Vacant] /\ 0 <= edits + 1
        BY <2>1, <2>3 DEF Remove
      <3> QED
        BY <3>1, Blanks
    <2> QED
      BY <2>2, <2>3
  <1>2. /\ edits \in Nat /\ edits' = edits + 1 /\ edits' \in 0..MaxEdits
        /\ UNCHANGED <<head, node, hidden, checkout, entry, candidate, create, scan, commit, refused, faults>>
    BY TypeParts DEF IInv, Edit, Remove
  <1>3. work \in [Entry -> WorkRec] /\ work' \in [Entry -> WorkRec]
    BY <1>1, TypeParts DEF IInv
  <1>4. Typed'
    BY <1>2, <1>3, TypeParts DEF IInv
  <1>5. \A n \in Entry : Fresh(n)
    BY <1>1, <1>2, <1>3 DEF Fresh, WorkRec
  <1>6. WorkInv'
    <2> SUFFICES ASSUME NEW n \in Entry
                 PROVE  work'[n].stamp <= edits + 1
      BY <1>2 DEF WorkInv
    <2>1. work[n] \in WorkRec /\ work[n].stamp <= edits
      BY <1>3 DEF IInv, WorkInv
    <2> QED
      BY <1>1, <1>2, <1>3, <2>1 DEF WorkRec
  <1> QED
    BY <1>2, <1>4, <1>5, <1>6, QuietIInv

LEMMA OutsideIInv ==
    ASSUME IInv, (\E e \in Entry : Settle(e)) \/ (\E f \in File : Hide(f)) \/ UNCHANGED vars
    PROVE  IInv'
  <1> USE DEF disk, media, ledger
  <1>1. UNCHANGED <<work, head, node, checkout, entry, create, scan, commit, refused, faults>>
    BY DEF Settle, Hide, vars
  <1>2. candidate' \in [Entry -> CandidateRec]
    <2>1. CASE \E e \in Entry : Settle(e)
      <3>1. PICK e \in Entry : candidate' = [candidate EXCEPT ![e].at = "settled"]
        BY <2>1 DEF Settle
      <3> QED
        BY <3>1, TypeParts DEF IInv, CandidateRec
    <2>2. CASE candidate' = candidate
      BY <2>2, TypeParts DEF IInv
    <2> QED
      BY <2>1, <2>2 DEF Hide, vars
  <1>3. hidden' \subseteq File /\ edits' \in 0..MaxEdits /\ edits <= edits' /\ edits \in Nat
    <2>1. edits \in 0..MaxEdits /\ hidden \subseteq File
      BY TypeParts DEF IInv
    <2>2. CASE \E f \in File : Hide(f)
      BY <2>1, <2>2 DEF Hide
    <2>3. CASE UNCHANGED <<hidden, edits>>
      BY <2>1, <2>3
    <2> QED
      BY <2>2, <2>3 DEF Settle, vars
  <1>4. Typed'
    BY <1>1, <1>2, <1>3, TypeParts DEF IInv
  <1>5. WorkInv'
    <2> SUFFICES ASSUME NEW e \in Entry
                 PROVE  work[e].stamp <= edits'
      BY <1>1 DEF WorkInv
    <2>1. work[e].stamp \in Nat /\ work[e].stamp <= edits
      BY TypeParts DEF IInv, WorkInv, WorkRec
    <2> QED
      BY <1>3, <2>1
  <1> QED
    BY <1>1, <1>3, <1>4, <1>5, QuietIInv DEF Fresh

\* A stop leaves every process idle.
LEMMA StopIInv ==
    ASSUME IInv, Stop
    PROVE  IInv'
  <1> USE DEF disk, media, ledger
  <1>1. /\ UNCHANGED <<work, edits, head, node, hidden, checkout, entry, candidate, refused>>
        /\ create' = NotCreating /\ scan' = NotScanning
        /\ commit' = [p \in Committer |-> NotCommitting]
        /\ faults' \in 0..MaxFaults
    BY FailsKept DEF IInv, Stop
  <1>2. Typed'
    BY <1>1, IdleCreate, IdleScan, IdleCommit, TypeParts DEF IInv
  <1>3. Grown /\ edits \in Nat
    BY <1>1, GrownIfSame, TypeParts DEF IInv
  <1>4. \A e \in Entry : RowInv(e)'
    BY <1>1, <1>2, <1>3, RowKept DEF Fresh
  <1>5. (\A f \in File : VersionInv(f)') /\ WorkInv'
    BY <1>1 DEF IInv, VersionInv, WorkInv
  <1>6. CreateInv'
    BY <1>1, IdleCreate DEF CreateInv
  <1>7. ScanInv'
    BY <1>1, <1>3, IdleScan, Blanks DEF ScanInv, InScan
  <1>8. CommitInv'
    <2> SUFFICES ASSUME NEW p \in Committer
                 PROVE  CallInv(commit[p])'
      BY DEF CommitInv
    <2>1. commit'[p] = NotCommitting
      BY <1>1
    <2> QED
      BY <2>1, IdleCallNext DEF CallInv, InCommit, Based
  <1> QED
    BY <1>2, <1>4, <1>5, <1>6, <1>7, <1>8, TypeNext DEF IInv

-----------------------------------------------------------------------------
(* Creating and retiring.                                                  *)

\* Steps that only change the folder's state and the creation.
LEMMA FolderIInv ==
    ASSUME IInv, UNCHANGED <<work, edits, head, node, entry, scan, commit, refused>>,
           Typed', Steady, CreateInv'
    PROVE  IInv'
  <1>1. Grown /\ edits \in Nat
    BY GrownIfSame, TypeParts DEF IInv
  <1>2. BaseKept
    BY TypeParts DEF IInv, BaseKept, Row
  <1>3. \A e \in Entry : RowInv(e)'
    BY <1>1, RowKept DEF Fresh
  <1>4. (\A f \in File : VersionInv(f)') /\ WorkInv'
    BY DEF IInv, VersionInv, WorkInv
  <1>5. ScanInv' /\ CommitInv'
    BY <1>1, <1>2, ScanKept, CommitKept DEF Fresh
  <1> QED
    BY <1>3, <1>4, <1>5, TypeNext DEF IInv

LEMMA StartCreateIInv ==
    ASSUME IInv, NEW c \in Checkout, StartCreate(c)
    PROVE  IInv'
  <1> USE DEF disk, media, ledger
  <1> DEFINE r == [at |-> "copy", now |-> {c}, from |-> head,
                   left |-> {e \in EntriesOf(c) : FileOf[e] \notin hidden}]
  <1>1. /\ UNCHANGED <<work, edits, head, node, hidden, entry, candidate, scan, commit, refused, faults>>
        /\ create' = r
        /\ checkout[c] = "none"
        /\ checkout' = [d \in Checkout |->
             IF d = c THEN "building" ELSE IF checkout[d] = "building" THEN "error" ELSE checkout[d]]
    BY DEF StartCreate
  <1>2. r \in CreateRec
    <2>1. head \in [File -> [version : Nat, sum : Sum]]
      BY TypeParts DEF IInv, FileRec, Sum
    <2> QED
      BY <2>1 DEF CreateRec, EntriesOf
  <1>3. Typed'
    <2>1. checkout' \in [Checkout -> {"none", "building", "active", "error", "retired"}]
      BY <1>1, TypeParts DEF IInv
    <2> HIDE DEF r
    <2> QED
      BY <1>1, <1>2, <2>1, TypeParts DEF IInv
  <1>4. Steady
    BY <1>1 DEF Steady
  <1>5. CreateInv'
    <2>1. \A f \in File : head[f].version \in Nat
      BY TypeParts DEF IInv, FileRec
    <2>2. \A d \in Checkout : r.now = {d} => d = c
      OBVIOUS
    <2>3. r.at = "copy" /\ (\A e \in r.left : CheckoutOf[e] = c) /\ r.from = head
      BY DEF EntriesOf
    <2> HIDE DEF r
    <2>4. create'.at # "idle"
      BY <1>1, <2>3
    <2>5. ASSUME NEW d \in Checkout, create'.now = {d}
          PROVE  Begun(d)'
      <3>1. d = c
        BY <1>1, <2>2, <2>5
      <3> QED
        BY <1>1, <2>1, <2>3, <3>1 DEF Begun
    <2> QED
      BY <2>4, <2>5 DEF CreateInv
  <1> QED
    BY <1>1, <1>3, <1>4, <1>5, FolderIInv

\* The creation ends, in a folder that is active or given up.
LEMMA EndCreateIInv ==
    ASSUME IInv, NEW c \in Checkout, create.now = {c}, NEW s \in {"active", "error"},
           checkout' = [checkout EXCEPT ![c] = s], create' = NotCreating,
           UNCHANGED <<work, edits, head, node, hidden, entry, candidate, scan, commit, refused>>,
           faults' \in 0..MaxFaults
    PROVE  IInv'
  <1>1. Typed'
    BY IdleCreate, TypeParts DEF IInv
  <1>2. checkout[c] = "building"
    BY DEF IInv, CreateInv, Begun
  <1>3. Steady
    BY <1>2, TypeParts DEF IInv, Steady
  <1>4. CreateInv'
    BY IdleCreate DEF CreateInv
  <1> QED
    BY <1>1, <1>3, <1>4, FolderIInv

LEMMA RetireIInv ==
    ASSUME IInv, NEW c \in Checkout, Retire(c)
    PROVE  IInv'
  <1> USE DEF disk, media, ledger
  <1>1. /\ UNCHANGED <<work, edits, head, node, hidden, entry, candidate, create, scan, commit, refused, faults>>
        /\ checkout' = [checkout EXCEPT ![c] = "retired"]
        /\ create.at = "idle" /\ scan.at = "idle" /\ \A p \in Committer : commit[p].at = "idle"
    BY DEF Retire
  <1>2. Typed'
    BY <1>1, TypeParts DEF IInv
  <1>3. Grown /\ edits \in Nat
    BY <1>1, GrownIfSame, TypeParts DEF IInv
  <1>4. \A e \in Entry : RowInv(e)'
    BY <1>1, <1>2, <1>3, RowKept DEF Fresh
  <1>5. (\A f \in File : VersionInv(f)') /\ WorkInv'
    BY <1>1 DEF IInv, VersionInv, WorkInv
  <1>6. CreateInv'
    BY <1>1 DEF IInv, CreateInv
  <1>7. ScanInv'
    <2>1. \A e \in Entry : ~InScan(e)
      BY <1>1 DEF IInv, ScanInv
    <2> QED
      BY <1>1, <2>1 DEF IInv, ScanInv, InScan
  <1>8. CommitInv'
    <2> SUFFICES ASSUME NEW p \in Committer
                 PROVE  CallInv(commit[p])'
      BY DEF CommitInv
    <2>1. CallInv(commit[p]) /\ commit[p].at = "idle"
      BY <1>1 DEF IInv, CommitInv
    <2>2. \A e \in Entry : ~InCommit(commit[p], e)
      BY <2>1 DEF CallInv
    <2> QED
      BY <1>1, <2>1, <2>2 DEF CallInv, InCommit
  <1> QED
    BY <1>2, <1>4, <1>5, <1>6, <1>7, <1>8, TypeNext DEF IInv


\* The file is what was selected, or something newer: its row does not lead.
LEMMA MaterializeIInv ==
    ASSUME IInv, NEW c \in Checkout, NEW e \in Entry, Materialize(c, e)
    PROVE  IInv'
  <1> USE DEF disk, media, ledger
  <1>1. CASE FailCreate(c)
    <2>1. faults' \in 0..MaxFaults
      BY FailsKept, TypeParts DEF IInv, Materialize
    <2> QED
      BY <1>1, <2>1, EndCreateIInv DEF Materialize, FailCreate
  <1>2. CASE ~FailCreate(c)
    <2> DEFINE sum == create.from[FileOf[e]].sum
               base == create.from[FileOf[e]].version
               row == [state |-> "clean", base |-> base, bsum |-> sum, stamp |-> 0,
                       known |-> TRUE, sum |-> sum]
               file == [sum |-> sum, stamp |-> 0]
    <2>1. /\ create.now = {c} /\ e \in create.left
          /\ work' = [work EXCEPT ![e] = file]
          /\ entry' = [entry EXCEPT ![e] = row]
          /\ create' = [create EXCEPT !.left = create.left \ {e}]
          /\ UNCHANGED <<head, hidden, node, edits, checkout, candidate, scan, commit, refused, faults>>
      BY <1>2 DEF Materialize
    <2>2. /\ FileOf[e] \in File /\ edits \in Nat /\ create \in CreateRec
          /\ base \in Nat /\ sum \in Sum /\ 0 \in 0..MaxEdits /\ TRUE \in BOOLEAN
      BY TypeParts DEF IInv, CreateRec
    <2>3. file \in WorkRec /\ row \in Row
      BY <2>2 DEF WorkRec, Row
    <2>4. Begun(c) /\ CheckoutOf[e] = c /\ checkout[c] = "building"
      BY <2>1 DEF IInv, CreateInv, Begun
    <2>5. /\ base <= head[FileOf[e]].version
          /\ base = head[FileOf[e]].version => sum = head[FileOf[e]].sum
      BY <2>2, <2>4 DEF Begun
    <2>6. /\ file.sum = sum /\ file.stamp = 0
          /\ row.state = "clean" /\ row.base = base /\ row.bsum = sum
          /\ row.stamp = 0 /\ row.known = TRUE /\ row.sum = sum
      OBVIOUS
    <2> HIDE DEF file, row, sum, base
    <2>7. /\ work' \in [Entry -> WorkRec] /\ work'[e] = file
          /\ entry' \in [Entry -> Row] /\ entry'[e] = row
          /\ \A n \in Entry : n # e => work'[n] = work[n] /\ entry'[n] = entry[n]
      BY <2>1, <2>3, TypeParts DEF IInv
    <2>8. create' \in CreateRec /\ create'.at = create.at /\ create'.now = create.now
          /\ create'.left = create.left \ {e} /\ create'.from = create.from
      BY <2>1, <2>2 DEF CreateRec
    <2>9. Typed'
      BY <2>1, <2>7, <2>8, TypeParts DEF IInv
    <2>10. Grown /\ Steady
      BY <2>1, GrownIfSame DEF IInv, Steady
    <2>11. BaseKept
      <3> SUFFICES ASSUME NEW n \in Entry, checkout[CheckoutOf[n]] = "active"
                   PROVE  entry[n].base <= entry'[n].base
        BY DEF BaseKept
      <3>1. n # e /\ entry[n] \in Row
        BY <2>4, TypeParts DEF IInv
      <3> QED
        BY <2>7, <3>1 DEF Row
    <2>12. ASSUME NEW n \in Entry
           PROVE  RowInv(n)'
      <3>1. CASE n = e
        BY <2>1, <2>2, <2>5, <2>6, <2>7, <3>1 DEF RowInv, Based, Holds
      <3>2. CASE n # e
        <4>1. entry'[n] = entry[n] /\ Fresh(n)
          BY <2>7, <3>2 DEF Fresh
        <4>2. edits' \in Nat /\ edits <= edits'
          BY <2>1, <2>2
        <4> QED
          BY <2>9, <2>10, <4>1, <4>2, RowKept
      <3> QED
        BY <3>1, <3>2
    <2>13. \A f \in File : VersionInv(f)'
      BY <2>1 DEF IInv, VersionInv
    <2>14. WorkInv'
      BY <2>1, <2>2, <2>6, <2>7 DEF IInv, WorkInv
    <2>15. CreateInv'
      <3>1. ASSUME NEW d \in Checkout, create'.now = {d}
            PROVE  Begun(d)'
        <4>1. d = c
          BY <2>1, <2>8, <3>1
        <4> QED
          BY <2>1, <2>4, <2>8, <4>1 DEF Begun
      <3>2. create'.at = "idle" => create'.now = {}
        BY <2>8 DEF IInv, CreateInv
      <3> QED
        BY <3>1, <3>2 DEF CreateInv
    <2>16. ScanInv'
      <3>1. \A n \in Entry : scan.now = {n} => n # e
        BY <2>4 DEF IInv, ScanInv, InScan
      <3> QED
        BY <2>1, <2>2, <2>7, <2>10, <3>1, ScanKept DEF Fresh
    <2>17. CommitInv'
      BY <2>1, <2>9, <2>10, <2>11, CommitKept
    <2> QED
      BY <2>9, <2>12, <2>13, <2>14, <2>15, <2>16, <2>17, TypeNext DEF IInv
  <1> QED
    BY <1>1, <1>2

LEMMA ActivateIInv ==
    ASSUME IInv, NEW c \in Checkout, Activate(c)
    PROVE  IInv'
  <1>1. faults' \in 0..MaxFaults
    BY TypeParts DEF IInv, Activate
  <1> QED
    BY <1>1, EndCreateIInv DEF Activate, disk, media, ledger

-----------------------------------------------------------------------------
(* The scanner.                                                            *)

\* Steps of the scanner: at most one row changes, and keeps its base.
LEMMA ScanIInv ==
    ASSUME IInv, UNCHANGED <<work, edits, head, node, hidden, checkout, create, commit, refused>>,
           scan' \in ScanRec, candidate' \in [Entry -> CandidateRec], faults' \in 0..MaxFaults,
           entry' \in [Entry -> Row],
           \A e \in Entry : \/ entry'[e] = entry[e]
                            \/ entry'[e].base = entry[e].base /\ RowInv(e)',
           ScanInv'
    PROVE  IInv'
  <1>1. Typed'
    BY TypeParts DEF IInv
  <1>2. Grown /\ Steady /\ edits \in Nat
    BY GrownIfSame, TypeParts DEF IInv, Steady
  <1>3. BaseKept
    <2> SUFFICES ASSUME NEW e \in Entry
                 PROVE  entry[e].base <= entry'[e].base
      BY DEF BaseKept
    <2>1. entry[e].base \in Nat /\ entry'[e].base = entry[e].base
      BY TypeParts DEF IInv, Row
    <2> QED
      BY <2>1
  <1>4. ASSUME NEW e \in Entry
        PROVE  RowInv(e)'
    <2>1. entry'[e] = entry[e] => RowInv(e)'
      BY <1>1, <1>2, RowKept DEF Fresh
    <2> QED
      BY <2>1
  <1>5. (\A f \in File : VersionInv(f)') /\ WorkInv'
    BY DEF IInv, VersionInv, WorkInv
  <1>6. CreateInv' /\ CommitInv'
    BY <1>1, <1>2, <1>3, CreateKept, CommitKept
  <1> QED
    BY <1>1, <1>4, <1>5, <1>6, TypeNext DEF IInv

\* A row marked as missing or unreadable promises nothing.
LEMMA Marked ==
    ASSUME IInv, NEW e \in Entry, NEW s \in {"missing", "error"},
           entry' = [entry EXCEPT ![e].state = s],
           UNCHANGED <<work, edits, head, node, refused>>
    PROVE  /\ entry' \in [Entry -> Row]
           /\ \A n \in Entry : \/ entry'[n] = entry[n]
                               \/ entry'[n].base = entry[n].base /\ RowInv(n)'
  <1>1. entry \in [Entry -> Row] /\ entry[e] \in Row
    BY TypeParts DEF IInv
  <1>2. PICK r \in Row : r = [entry[e] EXCEPT !.state = s]
    BY <1>1 DEF Row
  <1>3. /\ r.state = s /\ r.base = entry[e].base /\ r.bsum = entry[e].bsum
        /\ r.stamp = entry[e].stamp
    BY <1>1, <1>2 DEF Row
  <1>4. entry' = [entry EXCEPT ![e] = r]
    BY <1>1, <1>2
  <1>5. entry' \in [Entry -> Row] /\ entry'[e] = r
    BY <1>1, <1>4
  <1>6. RowInv(e)'
    BY <1>3, <1>5 DEF IInv, RowInv, Based
  <1> QED
    BY <1>1, <1>3, <1>4, <1>5, <1>6

\* A scanner that looks at less than before, and has read nothing.
LEMMA Narrower ==
    ASSUME IInv, UNCHANGED <<work, edits, checkout>>, scan'.at # "record",
           scan'.at = "idle" => \A e \in Entry : ~InScan(e)',
           \A e \in Entry : InScan(e)' => InScan(e),
           scan'.stamp = 0 \/ scan'.stamp = scan.stamp \/ \E e \in Entry : scan'.stamp = work[e].stamp
    PROVE  ScanInv'
  <1>1. edits \in Nat
    BY TypeParts DEF IInv
  <1>2. scan'.stamp <= edits
    BY <1>1 DEF IInv, ScanInv, WorkInv
  <1> QED
    BY <1>2 DEF IInv, ScanInv

LEMMA SeenFields ==
    ASSUME TypeOK, NEW e \in Entry
    PROVE  /\ Seen(e) \in ScanRec
           /\ Seen(e).at = scan.at /\ Seen(e).left = scan.left \ {e} /\ Seen(e).now = scan.now
           /\ Seen(e).snap = scan.snap /\ Seen(e).stamp = scan.stamp
  BY TypeParts DEF Seen, ScanRec

LEMMA WalkFields ==
    ASSUME TypeOK
    PROVE  /\ Walk \in ScanRec
           /\ Walk.at = "walk" /\ Walk.left = scan.left /\ Walk.now = {}
           /\ Walk.snap = scan.snap /\ Walk.stamp = 0
  <1>1. NoContent \in Sum /\ 0 \in 0..MaxEdits /\ scan \in ScanRec
    BY TypeParts DEF Sum
  <1> QED
    BY <1>1 DEF Walk, ScanRec

\* What remains of a scan is less than it was, also when it is over.
LEMMA LessToScan ==
    ASSUME IInv, UNCHANGED <<work, edits, checkout>>, NEW e \in Entry,
           \/ scan.at = "walk" /\ scan' = Seen(e)
           \/ scan' = Walk /\ scan.at # "idle"
           \/ scan.at = "walk" /\ scan' = [scan EXCEPT !.left = scan.left \ {e}]
           \/ EndCheckout
    PROVE  scan' \in ScanRec /\ ScanInv'
  <1>1. scan \in ScanRec
    BY TypeParts DEF IInv
  <1>2. CASE scan.at = "walk" /\ scan' = Seen(e)
    BY <1>2, SeenFields, Narrower DEF IInv, InScan
  <1>3. CASE scan' = Walk
    BY <1>3, WalkFields, Narrower DEF IInv, InScan
  <1>4. CASE scan.at = "walk" /\ scan' = [scan EXCEPT !.left = scan.left \ {e}]
    <2>1. /\ scan' \in ScanRec /\ scan'.at = scan.at /\ scan'.left = scan.left \ {e}
          /\ scan'.now = scan.now /\ scan'.snap = scan.snap /\ scan'.stamp = scan.stamp
      BY <1>1, <1>4 DEF ScanRec
    <2> QED
      BY <1>4, <2>1, Narrower DEF InScan
  <1>5. CASE EndCheckout
    <2>1. scan.todo \in SUBSET Checkout
      BY <1>1 DEF ScanRec
    <2>2. /\ scan' \in ScanRec /\ scan'.at = "idle" /\ scan'.left = {}
          /\ scan'.now = {} /\ scan'.snap = NoEntries /\ scan'.stamp = 0
      BY <1>5, <2>1, IdleScan DEF EndCheckout, ScanRec
    <2>3. \A n \in Entry : ~InScan(n)'
      BY <2>2, Blanks DEF InScan
    <2> QED
      BY <2>2, <2>3, Narrower
  <1> QED
    BY <1>2, <1>3, <1>4, <1>5

LEMMA StartScanIInv ==
    ASSUME IInv, StartScan
    PROVE  IInv'
  <1> USE DEF Outside, disk, media, ledger
  <1>1. scan \in ScanRec
    BY TypeParts DEF IInv
  <1>2. /\ scan' \in ScanRec /\ scan'.at = scan.at /\ scan'.left = scan.left
        /\ scan'.now = scan.now /\ scan'.snap = scan.snap /\ scan'.stamp = scan.stamp
    BY <1>1 DEF StartScan, ScanRec
  <1>3. \A e \in Entry : ~InScan(e)' /\ scan'.at = "idle"
    BY <1>2 DEF StartScan, IInv, ScanInv, InScan
  <1>4. ScanInv'
    BY <1>2, <1>3, Narrower DEF StartScan
  <1> QED
    BY <1>2, <1>4, ScanIInv, TypeParts DEF IInv, StartScan

\* The scanner enters a folder that is active now.
LEMMA OpenCheckoutIInv ==
    ASSUME IInv, NEW c \in Checkout, OpenCheckout(c)
    PROVE  IInv'
  <1> USE DEF Outside, disk, media, ledger
  <1>1. scan \in ScanRec /\ scan.at = "idle" /\ entry \in [Entry -> Row]
        /\ UNCHANGED <<work, edits, head, node, hidden, checkout, create, commit, refused,
                       entry, candidate, faults>>
    BY TypeParts DEF IInv, OpenCheckout
  <1>2. \A e \in Entry : ~InScan(e)
    BY <1>1 DEF IInv, ScanInv
  <1>3. scan' \in ScanRec /\ ScanInv'
    <2>1. CASE checkout[c] # "active"
      <3>1. scan' = [scan EXCEPT !.todo = scan.todo \ {c}]
        BY <2>1 DEF OpenCheckout
      <3>2. /\ scan' \in ScanRec /\ scan'.at = scan.at /\ scan'.left = scan.left
            /\ scan'.now = scan.now /\ scan'.snap = scan.snap /\ scan'.stamp = scan.stamp
        BY <1>1, <3>1 DEF ScanRec
      <3>3. \A e \in Entry : ~InScan(e)'
        BY <1>2, <3>2 DEF InScan
      <3> QED
        BY <1>1, <3>2, <3>3, Narrower
    <2>2. CASE checkout[c] = "active"
      <3> DEFINE left == {e \in EntriesOf(c) : entry[e].state # "none"}
                 snap == [e \in Entry |-> IF CheckoutOf[e] = c THEN entry[e] ELSE NoEntry]
                 had == {e \in EntriesOf(c) : candidate[e].at # "none"}
      <3>1. scan' = [scan EXCEPT !.todo = scan.todo \ {c}, !.at = "walk",
                                 !.left = left, !.snap = snap, !.had = had]
        BY <2>2 DEF OpenCheckout
      <3>2. left \in SUBSET Entry /\ had \in SUBSET Entry /\ snap \in [Entry -> Row]
        BY <1>1, Blanks DEF EntriesOf
      <3>3. \A e \in Entry : e \in left \/ snap[e].state # "none" => CheckoutOf[e] = c
        BY Blanks DEF EntriesOf
      <3> HIDE DEF left, snap, had
      <3>4. /\ scan' \in ScanRec /\ scan'.at = "walk" /\ scan'.left = left
            /\ scan'.now = scan.now /\ scan'.snap = snap /\ scan'.stamp = scan.stamp
        BY <1>1, <3>1, <3>2 DEF ScanRec
      <3>5. \A e \in Entry : InScan(e)' => CheckoutOf[e] = c
        BY <1>2, <3>3, <3>4 DEF InScan
      <3> QED
        BY <1>1, <2>2, <3>4, <3>5 DEF ScanInv, IInv
    <2> QED
      BY <2>1, <2>2
  <1> QED
    BY <1>1, <1>3, ScanIInv, TypeParts DEF IInv

\* The candidate of one entry, and who goes on to read the file.
LEMMA ObserveKept ==
    ASSUME IInv, NEW e \in Entry, scan.at = "walk", e \in scan.left, Observe(e),
           UNCHANGED <<work, edits, checkout>>
    PROVE  scan' \in ScanRec /\ ScanInv' /\ candidate' \in [Entry -> CandidateRec]
  <1>1. scan \in ScanRec /\ work[e] \in WorkRec /\ candidate \in [Entry -> CandidateRec]
    BY TypeParts DEF IInv
  <1>2. candidate' \in [Entry -> CandidateRec]
    <2>1. [at |-> "settling", stamp |-> work[e].stamp] \in CandidateRec
      BY <1>1 DEF CandidateRec, WorkRec
    <2> QED
      BY <1>1, <2>1 DEF Observe
  <1>3. CASE scan' = Seen(e)
    BY <1>2, <1>3, LessToScan
  <1>4. CASE scan' = [Seen(e) EXCEPT !.at = "hash", !.now = {e}, !.stamp = work[e].stamp]
    <2>1. PICK s \in ScanRec : s = Seen(e)
      BY SeenFields DEF IInv
    <2>2. s.left = scan.left \ {e} /\ s.snap = scan.snap
      BY <2>1, SeenFields DEF IInv
    <2>3. work[e].stamp \in 0..MaxEdits
      BY <1>1 DEF WorkRec
    <2>4. scan' = [s EXCEPT !.at = "hash", !.now = {e}, !.stamp = work[e].stamp]
      BY <1>4, <2>1
    <2>5. /\ scan' \in ScanRec /\ scan'.at = "hash" /\ scan'.now = {e}
          /\ scan'.left = scan.left \ {e} /\ scan'.snap = scan.snap /\ scan'.stamp = work[e].stamp
      BY <2>2, <2>3, <2>4 DEF ScanRec
    <2>6. \A n \in Entry : InScan(n)' => InScan(n)
      BY <2>5 DEF InScan
    <2> QED
      BY <1>2, <2>5, <2>6, Narrower
  <1> QED
    BY <1>3, <1>4 DEF Observe

LEMMA VisitIInv ==
    ASSUME IInv, NEW e \in Entry, Visit(e)
    PROVE  IInv'
  <1> USE DEF Outside, disk, media, ledger
  <1>1. /\ UNCHANGED <<work, edits, head, node, hidden, checkout, create, commit, refused>>
        /\ scan.at = "walk" /\ e \in scan.left
        /\ entry \in [Entry -> Row] /\ candidate \in [Entry -> CandidateRec]
        /\ faults \in 0..MaxFaults
    BY TypeParts DEF IInv, Visit
  <1>2. faults' \in 0..MaxFaults
    BY <1>1, FailsKept DEF IInv, Visit
  <1>3. ASSUME candidate' \in [Entry -> CandidateRec], scan' \in ScanRec, ScanInv', entry' = entry
        PROVE  IInv'
    BY <1>1, <1>2, <1>3, ScanIInv
  <1>4. CASE scan' = [scan EXCEPT !.left = scan.left \ {e}] /\ UNCHANGED ledger
    BY <1>1, <1>3, <1>4, LessToScan
  <1>5. CASE scan' = Seen(e) /\ UNCHANGED ledger
    BY <1>1, <1>3, <1>5, LessToScan
  <1>6. CASE /\ scan' = Seen(e) /\ UNCHANGED entry
             /\ candidate' = IF e \in scan.had THEN [candidate EXCEPT ![e] = NoCandidate]
                                               ELSE candidate
    <2>1. candidate' \in [Entry -> CandidateRec]
      BY <1>1, <1>6, Blanks
    <2> QED
      BY <1>1, <1>3, <1>6, <2>1, LessToScan
  <1>7. CASE Observe(e) /\ UNCHANGED entry
    BY <1>1, <1>3, <1>7, ObserveKept
  <1>8. CASE MarkEntryScanError(e) /\ scan' = Seen(e)
    <2>1. scan' \in ScanRec /\ ScanInv'
      BY <1>1, <1>8, LessToScan
    <2> QED
      BY <1>1, <1>2, <1>8, <2>1, Marked, ScanIInv DEF MarkEntryScanError
  <1> QED
    BY <1>4, <1>5, <1>6, <1>7, <1>8 DEF Visit

\* What is read under a stamp is what the file holds under it.
LEMMA HashSettledIInv ==
    ASSUME IInv, NEW e \in Entry, HashSettled(e)
    PROVE  IInv'
  <1> USE DEF Outside, disk, media, ledger
  <1>1. /\ UNCHANGED <<work, edits, head, node, hidden, checkout, create, commit, refused>>
        /\ scan.at = "hash" /\ scan.now = {e}
        /\ entry \in [Entry -> Row] /\ candidate \in [Entry -> CandidateRec]
        /\ scan \in ScanRec /\ work[e] \in WorkRec /\ faults \in 0..MaxFaults
    BY TypeParts DEF IInv, HashSettled
  <1>2. faults' \in 0..MaxFaults
    BY <1>1, FailsKept DEF IInv, HashSettled
  <1>3. CASE scan' = Walk /\ UNCHANGED ledger
    BY <1>1, <1>2, <1>3, LessToScan, ScanIInv
  <1>4. CASE scan' = Walk /\ MarkEntryScanError(e)
    <2>1. scan' \in ScanRec /\ ScanInv'
      BY <1>1, <1>4, LessToScan
    <2> QED
      BY <1>1, <1>2, <1>4, <2>1, Marked, ScanIInv DEF MarkEntryScanError
  <1>5. CASE /\ Holds(e, scan.stamp) /\ UNCHANGED ledger
             /\ scan' = [scan EXCEPT !.at = "record", !.sum = work[e].sum]
    <2>1. work[e].sum \in Content /\ work[e].sum \in Sum
      BY <1>1, <1>5 DEF Holds, WorkRec, Sum
    <2>2. /\ scan' \in ScanRec /\ scan'.at = "record" /\ scan'.sum = work[e].sum
          /\ scan'.left = scan.left /\ scan'.now = scan.now /\ scan'.snap = scan.snap
          /\ scan'.stamp = scan.stamp
      BY <1>1, <1>5, <2>1 DEF ScanRec
    <2>3. \A n \in Entry : InScan(n)' <=> InScan(n)
      BY <2>2 DEF InScan
    <2>4. \A n \in Entry : scan'.now = {n} => n = e
      BY <1>1, <2>2
    <2>5. ScanInv'
      BY <1>1, <2>1, <2>2, <2>3, <2>4 DEF IInv, ScanInv
    <2> QED
      BY <1>1, <1>2, <1>5, <2>2, <2>5, ScanIInv
  <1> QED
    BY <1>3, <1>4, <1>5 DEF HashSettled

\* The row is written from what was read, and from the base it has now.
LEMMA FinalizeTrackedIInv ==
    ASSUME IInv, NEW e \in Entry, FinalizeTracked(e)
    PROVE  IInv'
  <1> USE DEF Outside, disk, media, ledger
  <1>1. /\ UNCHANGED <<work, edits, head, node, hidden, checkout, create, commit, refused, faults>>
        /\ scan.at = "record" /\ scan.now = {e}
        /\ entry \in [Entry -> Row] /\ candidate \in [Entry -> CandidateRec]
        /\ scan \in ScanRec /\ faults \in 0..MaxFaults /\ FileOf[e] \in File
    BY TypeParts DEF IInv, FinalizeTracked
  <1>2. CASE EndCheckout /\ UNCHANGED ledger
    BY <1>1, <1>2, LessToScan, ScanIInv
  <1>3. CASE /\ entry' = [entry EXCEPT ![e] = Observed(e, entry[e].bsum)]
             /\ candidate' = [candidate EXCEPT ![e] = NoCandidate]
             /\ scan' = Walk
    <2>1. scan' \in ScanRec /\ ScanInv'
      BY <1>1, <1>3, LessToScan
    <2>2. candidate' \in [Entry -> CandidateRec]
      BY <1>1, <1>3, Blanks
    <2>3. /\ scan.sum \in Content /\ scan.sum \in Sum /\ scan.stamp \in 0..MaxEdits
          /\ scan.stamp <= edits
          /\ Holds(e, scan.stamp) => work[e].sum = scan.sum
      BY <1>1 DEF IInv, ScanInv, ScanRec
    <2>4. PICK s \in {"clean", "pending"} :
            s = IF entry[e].bsum = scan.sum THEN "clean" ELSE "pending"
      OBVIOUS
    <2>5. PICK r \in Row : r = [entry[e] EXCEPT !.stamp = scan.stamp, !.known = TRUE,
                                                !.sum = scan.sum, !.state = s]
      <3>1. entry[e] \in Row /\ TRUE \in BOOLEAN
        BY <1>1
      <3>2. s \in {"none", "clean", "pending", "conflict", "missing", "error"}
        OBVIOUS
      <3> QED
        BY <2>3, <3>1, <3>2 DEF Row
    <2>6. /\ r.state = s /\ r.base = entry[e].base /\ r.bsum = entry[e].bsum
          /\ r.stamp = scan.stamp /\ r.known = TRUE /\ r.sum = scan.sum
      BY <1>1, <2>5 DEF Row
    <2>7. entry' = [entry EXCEPT ![e] = r]
      BY <1>3, <2>4, <2>5 DEF Observed
    <2>8. entry' \in [Entry -> Row] /\ entry'[e] = r
          /\ \A n \in Entry : n # e => entry'[n] = entry[n]
      BY <1>1, <2>7
    <2>9. Based(entry[e], FileOf[e])
      BY DEF IInv, RowInv
    <2>10. RowInv(e)'
      BY <1>1, <2>3, <2>4, <2>6, <2>8, <2>9 DEF RowInv, Based, Holds
    <2> QED
      BY <1>1, <2>1, <2>2, <2>6, <2>8, <2>10, ScanIInv
  <1> QED
    BY <1>2, <1>3 DEF FinalizeTracked

LEMMA MarkEntryMissingIInv ==
    ASSUME IInv, NEW e \in Entry, MarkEntryMissing(e)
    PROVE  IInv'
  <1> USE DEF Outside, disk, media, ledger
  <1>1. /\ UNCHANGED <<work, edits, head, node, hidden, checkout, create, commit, refused, faults>>
        /\ scan.at = "walk" /\ scan' = Seen(e)
        /\ entry' = [entry EXCEPT ![e].state = "missing"]
        /\ candidate' = [candidate EXCEPT ![e] = NoCandidate]
        /\ candidate \in [Entry -> CandidateRec] /\ faults \in 0..MaxFaults
    BY TypeParts DEF IInv, MarkEntryMissing
  <1>2. scan' \in ScanRec /\ ScanInv'
    BY <1>1, LessToScan
  <1>3. candidate' \in [Entry -> CandidateRec]
    BY <1>1, Blanks
  <1> QED
    BY <1>1, <1>2, <1>3, Marked, ScanIInv

LEMMA EndScanIInv ==
    ASSUME IInv, EndScan
    PROVE  IInv'
  <1> USE DEF Outside, disk, media, ledger
  <1>1. /\ UNCHANGED <<work, edits, head, node, hidden, checkout, create, commit, refused,
                       entry, candidate>>
        /\ EndCheckout
        /\ entry \in [Entry -> Row] /\ candidate \in [Entry -> CandidateRec]
    BY TypeParts DEF IInv, EndScan
  <1>2. faults' \in 0..MaxFaults
    BY TypeParts, FailsKept DEF IInv, EndScan
  <1>3. scan.todo \in SUBSET Checkout
    BY TypeParts DEF IInv, ScanRec
  <1>4. /\ scan' \in ScanRec /\ scan'.at = "idle" /\ scan'.left = {}
        /\ scan'.now = {} /\ scan'.snap = NoEntries /\ scan'.stamp = 0
    BY <1>1, <1>3, IdleScan DEF EndCheckout, ScanRec
  <1>5. \A e \in Entry : ~InScan(e)'
    BY <1>4, Blanks DEF InScan
  <1>6. ScanInv'
    BY <1>1, <1>4, <1>5, Narrower
  <1> QED
    BY <1>1, <1>2, <1>4, <1>6, ScanIInv

-----------------------------------------------------------------------------
(* Commits.                                                                *)

\* One call moves to r; versions may grow, and rows that change are right.
LEMMA CommitIInv ==
    ASSUME IInv, NEW p \in Committer, NEW r \in CommitRec,
           commit' = [commit EXCEPT ![p] = r], CallInv(r)',
           UNCHANGED <<work, edits, checkout, create, scan>>,
           Typed', Grown, BaseKept,
           \A e \in Entry : entry'[e] = entry[e] \/ RowInv(e)',
           \A f \in File : VersionInv(f)'
    PROVE  IInv'
  <1>1. Steady /\ edits \in Nat
    BY TypeParts DEF IInv, Steady
  <1>2. ASSUME NEW e \in Entry
        PROVE  RowInv(e)'
    <2>1. entry'[e] = entry[e] => RowInv(e)'
      BY <1>1, RowKept DEF Fresh
    <2> QED
      BY <2>1
  <1>3. WorkInv'
    BY DEF IInv, WorkInv
  <1>4. CreateInv' /\ ScanInv'
    BY <1>1, CreateKept, ScanKept DEF Fresh
  <1>5. CommitInv'
    <2> SUFFICES ASSUME NEW q \in Committer
                 PROVE  CallInv(commit[q])'
      BY DEF CommitInv
    <2>1. PICK s \in CommitRec : s = commit'[q]
      OBVIOUS
    <2>2. CallInv(s)'
      <3>1. CASE q = p
        <4>1. s = r
          BY <2>1, <3>1, TypeParts DEF IInv
        <4> QED
          BY <4>1
      <3>2. CASE q # p
        <4>1. s = commit[q]
          BY <2>1, <3>2, TypeParts DEF IInv
        <4>2. CallInv(s)
          BY <4>1 DEF IInv, CommitInv
        <4> QED
          BY <1>1, <4>2, CallKept
      <3> QED
        BY <3>1, <3>2
    <2> QED
      BY <2>1, <2>2 DEF CallInv, InCommit, Based
  <1> QED
    BY <1>2, <1>3, <1>4, <1>5, TypeNext DEF IInv

\* Steps that change only the call.
LEMMA CallStep ==
    ASSUME IInv, NEW p \in Committer, NEW r \in CommitRec,
           commit' = [commit EXCEPT ![p] = r], CallInv(r)',
           UNCHANGED <<work, edits, hidden, checkout, create, scan, head, node, entry, candidate>>,
           refused \subseteq refused', refused' \subseteq Entry, faults' \in 0..MaxFaults
    PROVE  IInv'
  <1>1. commit' \in [Committer -> CommitRec]
    BY TypeParts DEF IInv
  <1>2. Typed'
    BY <1>1, TypeParts DEF IInv
  <1>3. Grown
    BY GrownIfSame DEF IInv
  <1>4. BaseKept
    BY TypeParts DEF IInv, BaseKept, Row
  <1>5. \A f \in File : VersionInv(f)'
    BY DEF IInv, VersionInv
  <1> QED
    BY <1>2, <1>3, <1>4, <1>5, CommitIInv

\* What a call in progress knows, by its parts.
LEMMA CallFields ==
    ASSUME IInv, NEW p \in Committer
    PROVE  /\ commit[p] \in CommitRec /\ commit[p].left \subseteq Entry
           /\ commit[p].listed \in [Entry -> Row] /\ commit[p].target \in Row
           /\ commit[p].version \in Nat /\ commit[p].clean \in BOOLEAN
           /\ CallInv(commit[p])
  <1>1. commit[p] \in CommitRec
    BY TypeParts DEF IInv
  <1> QED
    BY <1>1 DEF IInv, CommitInv, CommitRec

\* The next entry, with nothing in hand.
LEMMA OnwardCall ==
    ASSUME IInv, NEW p \in Committer, NEW left \in SUBSET commit[p].left, NEW r,
           \/ r = NotCommitting
           \/ r = [NotCommitting EXCEPT !.at = "next", !.left = left, !.listed = commit[p].listed]
    PROVE  r \in CommitRec /\ CallInv(r)
  <1>1. CASE r = NotCommitting
    BY <1>1, IdleCommit, IdleCall
  <1>2. CASE r = [NotCommitting EXCEPT !.at = "next", !.left = left, !.listed = commit[p].listed]
    <2>1. /\ left \in SUBSET Entry /\ commit[p].listed \in [Entry -> Row]
          /\ CallInv(commit[p])
      BY CallFields
    <2>2. /\ r \in CommitRec /\ r.at = "next" /\ r.left = left /\ r.now = {}
          /\ r.listed = commit[p].listed
      BY <1>2, <2>1, IdleCommit DEF CommitRec
    <2>3. \A e \in Entry : InCommit(r, e) => InCommit(commit[p], e)
      BY <2>2 DEF InCommit
    <2>4. \A e \in Entry : r.now # {e}
      BY <2>2
    <2>5. \A e \in Entry : e \in r.left => r.listed[e].base <= entry[e].base
      BY <2>1, <2>2 DEF CallInv
    <2>6. \A e \in Entry : InCommit(r, e) => checkout[CheckoutOf[e]] = "active"
      BY <2>1, <2>3 DEF CallInv
    <2> QED
      BY <2>2, <2>4, <2>5, <2>6 DEF CallInv
  <1> QED
    BY <1>1, <1>2

LEMMA RestCall ==
    ASSUME IInv, NEW p \in Committer
    PROVE  Rest(p) \in CommitRec /\ CallInv(Rest(p))
  <1>1. commit[p].left \in SUBSET commit[p].left
    OBVIOUS
  <1> QED
    BY <1>1, OnwardCall DEF Rest

\* The call goes on without having changed anything.
LEMMA RestStep ==
    ASSUME IInv, NEW p \in Committer, Goto(p, Rest(p)),
           UNCHANGED <<work, edits, hidden, checkout, create, scan, head, node, entry, candidate>>,
           refused' = refused, faults' \in 0..MaxFaults
    PROVE  IInv'
  <1>1. PICK r \in CommitRec : r = Rest(p) /\ CallInv(r)
    BY RestCall
  <1>2. commit' = [commit EXCEPT ![p] = r]
    BY <1>1 DEF Goto
  <1>3. CallInv(r)'
    BY <1>1 DEF CallInv, InCommit, Based
  <1>4. refused' \subseteq Entry
    BY TypeParts DEF IInv
  <1> QED
    BY <1>2, <1>3, <1>4, CallStep

LEMMA StartCommitIInv ==
    ASSUME IInv, NEW p \in Committer, NEW c \in Checkout, StartCommit(p, c)
    PROVE  IInv'
  <1> USE DEF disk, media, ledger
  <1>1. /\ UNCHANGED <<work, edits, hidden, checkout, create, scan, head, node, entry, candidate,
                       refused, faults>>
        /\ checkout[c] = "active"
        /\ entry \in [Entry -> Row] /\ faults \in 0..MaxFaults /\ refused \subseteq Entry
    BY TypeParts DEF IInv, StartCommit
  <1> DEFINE L == {e \in EntriesOf(c) : entry[e].state = "pending"}
             rows == [e \in Entry |-> IF e \in L THEN entry[e] ELSE NoEntry]
  <1>2. commit' = [commit EXCEPT ![p] =
          [NotCommitting EXCEPT !.at = "next", !.left = L, !.listed = rows]]
    BY DEF StartCommit
  <1>3. L \in SUBSET Entry /\ rows \in [Entry -> Row] /\ \A e \in L : CheckoutOf[e] = c
    BY <1>1, Blanks DEF EntriesOf
  <1>4. /\ \A e \in Entry : rows[e].state # "none" => e \in L
        /\ \A e \in L : rows[e] = entry[e]
    BY <1>3, Blanks
  <1> HIDE DEF L, rows
  <1>5. PICK r : r = [NotCommitting EXCEPT !.at = "next", !.left = L, !.listed = rows]
    OBVIOUS
  <1>6. r \in CommitRec /\ r.at = "next" /\ r.left = L /\ r.now = {} /\ r.listed = rows
    BY <1>3, <1>5, IdleCommit DEF CommitRec
  <1>7. \A e \in Entry : InCommit(r, e) => e \in L
    BY <1>4, <1>6 DEF InCommit
  <1>8. \A e \in Entry : e \in L => rows[e].base <= entry[e].base
    BY <1>1, <1>4 DEF Row
  <1>9. CallInv(r)'
    BY <1>1, <1>3, <1>6, <1>7, <1>8 DEF CallInv, InCommit
  <1> QED
    BY <1>1, <1>2, <1>5, <1>6, <1>9, CallStep

\* Refused only behind the catalog, or for the cause that is noted.
LEMMA TargetIInv ==
    ASSUME IInv, NEW p \in Committer, NEW e \in Entry, Target(p, e)
    PROVE  IInv'
  <1> USE DEF Beside, disk, ledger
  <1> DEFINE left == commit[p].left \ {e}
             c == [commit[p] EXCEPT !.left = left, !.now = {e}]
             skip == IF c.left = {} THEN NotCommitting ELSE [c EXCEPT !.now = {}]
             barred == FileOf[e] \in hidden \/ Taken(e, entry[e].sum)
  <1>1. /\ UNCHANGED <<work, edits, hidden, checkout, create, scan, head, node, entry, candidate>>
        /\ commit[p].at = "next" /\ e \in commit[p].left
        /\ entry[e] \in Row /\ refused \subseteq Entry /\ faults \in 0..MaxFaults
        /\ FileOf[e] \in File /\ head[FileOf[e]] \in FileRec /\ node[FileOf[e]] \in FileRec
    BY TypeParts DEF IInv, Target
  <1>2. faults' \in 0..MaxFaults /\ refused \subseteq refused' /\ refused' \subseteq Entry
    BY <1>1, FailsKept DEF IInv, Target
  <1>3. /\ commit[p] \in CommitRec /\ left \subseteq Entry
        /\ commit[p].listed \in [Entry -> Row] /\ commit[p].listed[e] \in Row
        /\ CallInv(commit[p])
    BY CallFields
  <1>4. /\ c \in CommitRec /\ c.at = "next" /\ c.left = left /\ c.now = {e}
        /\ c.listed = commit[p].listed
    <2> HIDE DEF left
    <2> QED
      BY <1>1, <1>3 DEF CommitRec
  <1>5. /\ commit[p].listed[e].base <= entry[e].base
        /\ \A n \in Entry : n \in left => commit[p].listed[n].base <= entry[n].base
        /\ \A n \in Entry : InCommit(commit[p], n) => checkout[CheckoutOf[n]] = "active"
        /\ InCommit(commit[p], e)
    BY <1>1, <1>3 DEF CallInv, InCommit
  <1>6. \A n \in Entry : \/ n \in left
                         \/ n = e
                         \/ commit[p].listed[n].state # "none"
                         => InCommit(commit[p], n)
    BY <1>5 DEF InCommit
  <1> HIDE DEF c, left
  <1>7. CASE Goto(p, skip)
    <2>2. PICK r : r = skip
      OBVIOUS
    <2>3. r \in CommitRec /\ CallInv(r)
      <3>1. CASE r = NotCommitting
        BY <3>1, IdleCommit, IdleCall
      <3>2. CASE r = [c EXCEPT !.now = {}]
        <4>1. /\ r \in CommitRec /\ r.at = "next" /\ r.left = left /\ r.now = {}
              /\ r.listed = commit[p].listed
          BY <1>4, <3>2 DEF CommitRec
        <4>2. \A n \in Entry : InCommit(r, n) => InCommit(commit[p], n)
          BY <1>6, <4>1 DEF InCommit
        <4>3. \A n \in Entry : r.now # {n}
          BY <4>1
        <4> QED
          BY <1>5, <4>1, <4>2, <4>3 DEF CallInv
      <3> QED
        BY <2>2, <3>1, <3>2
    <2>4. CallInv(r)'
      BY <1>1, <1>2, <2>3 DEF CallInv, InCommit, Based
    <2>5. commit' = [commit EXCEPT ![p] = r]
      BY <1>7, <2>2 DEF Goto
    <2> QED
      BY <1>1, <1>2, <2>3, <2>4, <2>5, CallStep
  <1>8. CASE /\ Goto(p, [c EXCEPT !.at = "refuse", !.target = c.listed[e]])
             /\ ~Current(e, entry[e]) \/ barred
             /\ refused' = IF barred THEN refused \cup {e} ELSE refused
    <2>1. PICK r : r = [c EXCEPT !.at = "refuse", !.target = c.listed[e]]
      OBVIOUS
    <2>2. /\ r \in CommitRec /\ r.at = "refuse" /\ r.left = left /\ r.now = {e}
          /\ r.listed = commit[p].listed /\ r.target = commit[p].listed[e]
      BY <1>3, <1>4, <2>1 DEF CommitRec
    <2>3. e \in refused' \/ r.target.base < node[FileOf[e]].version
      <3>1. CASE barred
        BY <1>8, <3>1
      <3>2. CASE ~Current(e, entry[e])
        <4>1. Based(entry[e], FileOf[e]) /\ VersionInv(FileOf[e])
          BY <1>1 DEF IInv, RowInv
        <4>2. entry[e].base < head[FileOf[e]].version
          BY <1>1, <3>2, <4>1 DEF Based, Current, Row, FileRec
        <4>3. head[FileOf[e]].version <= node[FileOf[e]].version
          BY <1>1, <4>1 DEF VersionInv, FileRec
        <4> QED
          BY <1>1, <1>3, <1>5, <2>2, <4>2, <4>3 DEF Row, FileRec
      <3> QED
        BY <1>8, <3>1, <3>2
    <2>4. \A n \in Entry : InCommit(r, n) => InCommit(commit[p], n)
      BY <1>6, <2>2 DEF InCommit
    <2>5. \A n \in Entry : r.now = {n} => n = e
      BY <2>2
    <2>6. CallInv(r)'
      BY <1>1, <1>5, <2>2, <2>3, <2>4, <2>5 DEF CallInv, InCommit
    <2>7. commit' = [commit EXCEPT ![p] = r]
      BY <1>8, <2>1 DEF Goto
    <2> QED
      BY <1>1, <1>2, <2>2, <2>6, <2>7, CallStep
  <1>9. CASE /\ Goto(p, [c EXCEPT !.at = "replace", !.target = entry[e]])
             /\ entry[e].state = "pending"
    <2>1. PICK r : r = [c EXCEPT !.at = "replace", !.target = entry[e]]
      OBVIOUS
    <2>2. /\ r \in CommitRec /\ r.at = "replace" /\ r.left = left /\ r.now = {e}
          /\ r.listed = commit[p].listed /\ r.target = entry[e]
      BY <1>1, <1>4, <2>1 DEF CommitRec
    <2>3. entry[e].sum \in Content /\ Based(entry[e], FileOf[e])
      BY <1>9 DEF IInv, RowInv
    <2>4. \A n \in Entry : InCommit(r, n) => InCommit(commit[p], n)
      BY <1>6, <2>2 DEF InCommit
    <2>5. \A n \in Entry : r.now = {n} => n = e
      BY <2>2
    <2>6. CallInv(r)
      BY <1>5, <1>9, <2>2, <2>3, <2>4, <2>5 DEF CallInv
    <2>7. CallInv(r)'
      BY <1>1, <2>2, <2>6 DEF CallInv, InCommit, Based
    <2>8. commit' = [commit EXCEPT ![p] = r]
      BY <1>9, <2>1 DEF Goto
    <2> QED
      BY <1>1, <1>2, <2>2, <2>7, <2>8, CallStep
  <1> QED
    <2>1. \/ Goto(p, skip)
          \/ /\ Goto(p, [c EXCEPT !.at = "refuse", !.target = c.listed[e]])
             /\ ~Current(e, entry[e]) \/ barred
             /\ refused' = IF barred THEN refused \cup {e} ELSE refused
          \/ /\ Goto(p, [c EXCEPT !.at = "replace", !.target = entry[e]])
             /\ entry[e].state = "pending"
      BY DEF Target, c, left
    <2> QED
      BY <1>7, <1>8, <1>9, <2>1

\* What a commit about to store knows: Docbank is not behind its target.
LEMMA TargetFacts ==
    ASSUME IInv, NEW p \in Committer, NEW e \in Entry, commit[p].now = {e},
           commit[p].at \in {"replace", "check", "apply"}
    PROVE  /\ commit[p].target \in Row /\ commit[p].target.base \in Nat
           /\ commit[p].target.state = "pending" /\ commit[p].target.sum \in Content
           /\ commit[p].listed[e].base \in Nat
           /\ commit[p].listed[e].base <= commit[p].target.base
           /\ Based(commit[p].target, FileOf[e]) /\ VersionInv(FileOf[e])
           /\ head[FileOf[e]].version \in Nat /\ node[FileOf[e]].version \in Nat
           /\ head[FileOf[e]].version <= node[FileOf[e]].version
           /\ commit[p].target.base <= head[FileOf[e]].version
           /\ node[FileOf[e]] \in FileRec /\ head[FileOf[e]] \in FileRec
  <1>1. /\ commit[p].target \in Row /\ commit[p].listed[e] \in Row
        /\ CallInv(commit[p]) /\ FileOf[e] \in File
    BY CallFields
  <1>2. head[FileOf[e]] \in FileRec /\ node[FileOf[e]] \in FileRec
    BY <1>1, TypeParts DEF IInv
  <1>3. /\ commit[p].target.state = "pending" /\ commit[p].target.sum \in Content
        /\ commit[p].listed[e].base <= commit[p].target.base
        /\ Based(commit[p].target, FileOf[e])
    BY <1>1 DEF CallInv
  <1>4. VersionInv(FileOf[e])
    BY <1>1 DEF IInv
  <1>5. head[FileOf[e]].version \in Nat /\ node[FileOf[e]].version \in Nat
    BY <1>2 DEF FileRec
  <1>6. head[FileOf[e]].version <= node[FileOf[e]].version
    BY <1>4, <1>5 DEF VersionInv
  <1> QED
    BY <1>1, <1>2, <1>3, <1>4, <1>5, <1>6 DEF Row, Based

\* The call in hand keeps its entry and what it lists.
LEMMA SameEntry ==
    ASSUME IInv, NEW p \in Committer, NEW r \in CommitRec,
           r.left = commit[p].left, r.now = commit[p].now, r.listed = commit[p].listed,
           r.at # "idle"
    PROVE  /\ \A n \in Entry : InCommit(r, n) => checkout[CheckoutOf[n]] = "active"
           /\ \A n \in Entry : n \in r.left \/ r.now = {n} => r.listed[n].base <= entry[n].base
  BY CallFields DEF CallInv, InCommit

\* Docbank gets a version only where it is at the base: where the catalog is.
LEMMA ReplaceIInv ==
    ASSUME IInv, NEW p \in Committer, NEW e \in Entry, Replace(p, e)
    PROVE  IInv'
  <1> USE DEF Beside, disk, ledger
  <1>0. PICK f \in File, t \in Row : f = FileOf[e] /\ t = commit[p].target
    BY CallFields
  <1> DEFINE put == node' = [node EXCEPT ![f] = [version |-> t.base + 1, sum |-> t.sum]]
             based == node[f] = [version |-> t.base, sum |-> t.bsum]
             done(v) == [commit[p] EXCEPT !.at = "check", !.version = v]
  <1>1. /\ UNCHANGED <<work, edits, hidden, checkout, create, scan, head, entry, candidate, refused>>
        /\ commit[p].at = "replace" /\ commit[p].now = {e}
        /\ node \in [File -> FileRec]
        /\ refused \subseteq Entry /\ faults \in 0..MaxFaults
    BY TypeParts DEF IInv, Replace
  <1>2. faults' \in 0..MaxFaults
    BY <1>1, FailsKept DEF IInv, Replace
  <1>3. /\ t \in Row /\ t.base \in Nat /\ t.state = "pending" /\ t.sum \in Content
        /\ commit[p].listed[e].base \in Nat /\ commit[p].listed[e].base <= t.base
        /\ Based(t, f) /\ VersionInv(f)
        /\ head[f].version \in Nat /\ node[f].version \in Nat
        /\ head[f].version <= node[f].version /\ t.base <= head[f].version
        /\ node[f] \in FileRec /\ head[f] \in FileRec
    BY <1>0, <1>1, TargetFacts
  <1>4. /\ commit[p] \in CommitRec /\ commit[p].listed \in [Entry -> Row]
    BY CallFields
  <1>5. node[f].version = t.base => based
    <2> SUFFICES ASSUME node[f].version = t.base
                 PROVE  based
      OBVIOUS
    <2>1. t.base = head[f].version /\ t.bsum = head[f].sum
      BY <1>3 DEF Based
    <2>2. node[f] = head[f]
      BY <1>3, <2>1 DEF VersionInv
    <2>3. node[f] = [version |-> node[f].version, sum |-> node[f].sum]
      BY <1>3 DEF FileRec
    <2> QED
      BY <2>1, <2>2, <2>3
  <1>6. based => node[f] = head[f]
    <2> SUFFICES ASSUME based
                 PROVE  node[f] = head[f]
      OBVIOUS
    <2>1. node[f].version = t.base
      OBVIOUS
    <2> QED
      BY <1>3, <2>1 DEF VersionInv
  <1>7. CASE based /\ put
    <2>1. node[f].version = t.base
      BY <1>7
    <2>2. t.base + 1 \in Nat
      BY <1>3
    <2>3. PICK w \in FileRec : w = [version |-> t.base + 1, sum |-> t.sum]
      BY <1>3, <2>2 DEF FileRec
    <2>4. w.version = t.base + 1 /\ w.sum = t.sum
      BY <2>3
    <2>5. node' = [node EXCEPT ![f] = w]
      BY <1>7, <2>3
    <2> HIDE DEF put, based
    <2>6. /\ node' \in [File -> FileRec] /\ node'[f] = w
          /\ \A g \in File : g # f => node'[g] = node[g]
      BY <1>1, <2>5
    <2>7. Grown
      <3> SUFFICES ASSUME NEW g \in File
                   PROVE  /\ head[g].version <= head'[g].version
                          /\ head'[g].version = head[g].version => head'[g] = head[g]
                          /\ node[g].version <= node'[g].version
                          /\ node'[g].version = node[g].version => node'[g] = node[g]
        BY <1>1 DEF Grown
      <3>1. head[g].version \in Nat /\ node[g].version \in Nat
        BY TypeParts DEF IInv, FileRec
      <3> QED
        BY <1>1, <1>3, <2>1, <2>4, <2>6, <3>1
    <2>8. BaseKept
      BY <1>1, TypeParts DEF IInv, BaseKept, Row
    <2>9. ASSUME NEW g \in File
          PROVE  VersionInv(g)'
      <3>1. CASE g = f
        BY <1>1, <1>3, <1>6, <1>7, <2>1, <2>4, <2>6, <3>1 DEF VersionInv
      <3>2. CASE g # f
        BY <1>1, <2>6, <3>2 DEF IInv, VersionInv
      <3> QED
        BY <3>1, <3>2
    <2>10. ASSUME NEW r \in CommitRec, CallInv(r)', commit' = [commit EXCEPT ![p] = r]
          PROVE  IInv'
      <3>1. commit' \in [Committer -> CommitRec]
        BY <2>10, TypeParts DEF IInv
      <3>2. Typed'
        BY <1>1, <1>2, <2>6, <3>1, TypeParts DEF IInv
      <3> QED
        BY <1>1, <2>7, <2>8, <2>9, <2>10, <3>2, CommitIInv
    <2>11. CASE Goto(p, done(t.base + 1))
      <3>1. PICK r : r = done(t.base + 1)
        OBVIOUS
      <3>2. /\ r \in CommitRec /\ r.at = "check" /\ r.left = commit[p].left
            /\ r.now = commit[p].now /\ r.listed = commit[p].listed
            /\ r.target = t /\ r.version = t.base + 1
        BY <1>0, <1>4, <2>2, <3>1 DEF CommitRec
      <3>3. \A n \in Entry : r.now = {n} => n = e
        BY <1>1, <3>2
      <3>4. CallInv(r)'
        <4>1. /\ \A n \in Entry : InCommit(r, n) => checkout[CheckoutOf[n]] = "active"
              /\ \A n \in Entry : n \in r.left \/ r.now = {n} => r.listed[n].base <= entry[n].base
          BY <3>2, SameEntry
        <4>2. Based(t, f)'
          BY <1>1, <1>3 DEF Based
        <4>3. t.base < r.version /\ r.version <= node'[f].version /\ t.sum = node'[f].sum
          BY <1>3, <2>4, <2>6, <3>2
        <4> QED
          BY <1>0, <1>1, <1>3, <3>2, <3>3, <4>1, <4>2, <4>3 DEF CallInv, InCommit
      <3> QED
        BY <2>10, <2>11, <3>1, <3>2, <3>4 DEF Goto
    <2>12. CASE Goto(p, Rest(p))
      <3>1. PICK r \in CommitRec : r = Rest(p) /\ CallInv(r)
        BY RestCall
      <3>2. commit' = [commit EXCEPT ![p] = r]
        BY <2>12, <3>1 DEF Goto
      <3>3. commit' \in [Committer -> CommitRec]
        BY <3>2, TypeParts DEF IInv
      <3>4. Typed'
        BY <1>1, <1>2, <2>6, <3>3, TypeParts DEF IInv
      <3>5. CallInv(r)'
        BY <1>1, <2>7, <2>8, <3>1, <3>4, CallKept DEF Steady
      <3> QED
        BY <2>10, <3>2, <3>5
    <2> QED
      BY <1>0, <1>7, <2>11, <2>12 DEF Replace, based, put, done
  <1>8. CASE node' = node
    <2>1. CASE Goto(p, Rest(p))
      BY <1>1, <1>2, <1>8, <2>1, RestStep
    <2>2. CASE ~based /\ Goto(p, done(node[f].version)) /\ node[f].sum = t.sum
      <3>1. PICK r : r = done(node[f].version)
        OBVIOUS
      <3>2. /\ r \in CommitRec /\ r.at = "check" /\ r.left = commit[p].left
            /\ r.now = commit[p].now /\ r.listed = commit[p].listed
            /\ r.target = t /\ r.version = node[f].version
        BY <1>0, <1>3, <1>4, <3>1 DEF CommitRec
      <3>3. \A n \in Entry : r.now = {n} => n = e
        BY <1>1, <3>2
      <3>4. CallInv(r)'
        <4>1. /\ \A n \in Entry : InCommit(r, n) => checkout[CheckoutOf[n]] = "active"
              /\ \A n \in Entry : n \in r.left \/ r.now = {n} => r.listed[n].base <= entry[n].base
          BY <3>2, SameEntry
        <4>2. Based(t, f)'
          BY <1>1, <1>3 DEF Based
        <4>3. t.base < r.version /\ r.version <= node'[f].version /\ t.sum = node'[f].sum
          BY <1>3, <1>5, <1>8, <2>2, <3>2
        <4> QED
          BY <1>0, <1>1, <1>3, <3>2, <3>3, <4>1, <4>2, <4>3 DEF CallInv, InCommit
      <3>5. commit' = [commit EXCEPT ![p] = r]
        BY <2>2, <3>1 DEF Goto
      <3> QED
        BY <1>1, <1>2, <1>8, <3>2, <3>4, <3>5, CallStep
    <2>3. CASE ~based /\ Goto(p, [commit[p] EXCEPT !.at = "refuse", !.target = commit[p].listed[e]])
      <3>1. PICK r : r = [commit[p] EXCEPT !.at = "refuse", !.target = commit[p].listed[e]]
        OBVIOUS
      <3>2. commit[p].listed[e] \in Row
        BY <1>4
      <3>3. /\ r \in CommitRec /\ r.at = "refuse" /\ r.left = commit[p].left
            /\ r.now = commit[p].now /\ r.listed = commit[p].listed
            /\ r.target = commit[p].listed[e]
        BY <1>4, <3>1, <3>2 DEF CommitRec
      <3>4. \A n \in Entry : r.now = {n} => n = e
        BY <1>1, <3>3
      <3>5. r.target.base < node'[f].version
        BY <1>3, <1>5, <1>8, <2>3, <3>3
      <3>6. CallInv(r)'
        <4>1. /\ \A n \in Entry : InCommit(r, n) => checkout[CheckoutOf[n]] = "active"
              /\ \A n \in Entry : n \in r.left \/ r.now = {n} => r.listed[n].base <= entry[n].base
          BY <3>3, SameEntry
        <4> QED
          BY <1>0, <1>1, <3>3, <3>4, <3>5, <4>1 DEF CallInv, InCommit
      <3>7. commit' = [commit EXCEPT ![p] = r]
        BY <2>3, <3>1 DEF Goto
      <3> QED
        BY <1>1, <1>2, <1>8, <3>3, <3>6, <3>7, CallStep
    <2>4. \/ Goto(p, Rest(p))
          \/ ~based /\ Goto(p, done(node[f].version)) /\ node[f].sum = t.sum
          \/ ~based /\ Goto(p, [commit[p] EXCEPT !.at = "refuse", !.target = commit[p].listed[e]])
          \/ based /\ put
      BY <1>0 DEF Replace
    <2> QED
      BY <1>7, <2>1, <2>2, <2>3, <2>4
  <1> QED
    <2>1. (based /\ put) \/ node' = node
      BY <1>0 DEF Replace
    <2> QED
      BY <1>7, <1>8, <2>1

LEMMA CheckIInv ==
    ASSUME IInv, NEW p \in Committer, NEW e \in Entry, Check(p, e)
    PROVE  IInv'
  <1> USE DEF Beside, disk, ledger
  <1>1. /\ UNCHANGED <<work, edits, hidden, checkout, create, scan, head, node, entry, candidate, refused>>
        /\ commit[p].at = "check" /\ commit[p].now = {e}
        /\ refused \subseteq Entry /\ faults \in 0..MaxFaults
    BY TypeParts DEF IInv, Check
  <1>2. faults' \in 0..MaxFaults
    BY <1>1, FailsKept DEF IInv, Check
  <1>3. commit[p] \in CommitRec /\ CallInv(commit[p])
    BY CallFields
  <1>4. PICK b \in BOOLEAN : b = Holds(e, commit[p].target.stamp)
    BY DEF Holds
  <1>5. PICK r : /\ commit' = [commit EXCEPT ![p] = r]
                 /\ \/ r = [commit[p] EXCEPT !.at = "apply", !.clean = b]
                    \/ r = [commit[p] EXCEPT !.at = "apply"]
    BY <1>4 DEF Check, Goto
  <1>6. /\ r \in CommitRec /\ r.at = "apply" /\ r.left = commit[p].left
        /\ r.now = commit[p].now /\ r.listed = commit[p].listed
        /\ r.target = commit[p].target /\ r.version = commit[p].version
    <2>1. CASE r = [commit[p] EXCEPT !.at = "apply", !.clean = b]
      BY <1>3, <1>4, <2>1 DEF CommitRec
    <2>2. CASE r = [commit[p] EXCEPT !.at = "apply"]
      BY <1>3, <2>2 DEF CommitRec
    <2> QED
      BY <1>5, <2>1, <2>2
  <1>7. CallInv(r)
    BY <1>1, <1>3, <1>6 DEF CallInv, InCommit
  <1>8. CallInv(r)'
    BY <1>1, <1>7 DEF CallInv, InCommit, Based
  <1> QED
    BY <1>1, <1>2, <1>5, <1>6, <1>8, CallStep

\* The catalog moves to the version Docbank has, and the entry with it.
LEMMA ApplyCommitIInv ==
    ASSUME IInv, NEW p \in Committer, NEW e \in Entry, ApplyCommit(p, e)
    PROVE  IInv'
  <1> USE DEF Beside, disk, ledger
  <1>0. PICK f \in File, t \in Row : f = FileOf[e] /\ t = commit[p].target
    BY CallFields
  <1> DEFINE matches == Current(e, t) /\ ~Taken(e, t.sum) /\ entry[e] = t
  <1>1. /\ UNCHANGED <<work, edits, hidden, checkout, create, scan, node, refused>>
        /\ commit[p].at = "apply" /\ commit[p].now = {e}
        /\ entry \in [Entry -> Row] /\ candidate \in [Entry -> CandidateRec]
        /\ head \in [File -> FileRec]
        /\ refused \subseteq Entry /\ faults \in 0..MaxFaults
    BY TypeParts DEF IInv, ApplyCommit
  <1>2. faults' \in 0..MaxFaults
    BY <1>1, FailsKept DEF IInv, ApplyCommit
  <1>3. /\ t.base \in Nat /\ t.state = "pending" /\ t.sum \in Content
        /\ commit[p].listed[e].base <= t.base
        /\ VersionInv(f)
        /\ head[f].version \in Nat /\ node[f].version \in Nat
        /\ node[f] \in FileRec /\ head[f] \in FileRec
    BY <1>0, <1>1, TargetFacts
  <1>4. /\ commit[p] \in CommitRec /\ commit[p].version \in Nat /\ commit[p].clean \in BOOLEAN
    BY CallFields
  <1>5. /\ t.base < commit[p].version
        /\ commit[p].version <= node[f].version
        /\ commit[p].version = node[f].version => t.sum = node[f].sum
    BY <1>0, <1>1, CallFields DEF CallInv
  <1>6. CASE Goto(p, Rest(p)) /\ UNCHANGED <<head, entry, candidate>>
    BY <1>1, <1>2, <1>6, RestStep
  <1>7. CASE Goto(p, [commit[p] EXCEPT !.at = "refuse"]) /\ UNCHANGED <<head, entry, candidate>>
    <2>1. PICK r : r = [commit[p] EXCEPT !.at = "refuse"]
      OBVIOUS
    <2>2. /\ r \in CommitRec /\ r.at = "refuse" /\ r.left = commit[p].left
          /\ r.now = commit[p].now /\ r.listed = commit[p].listed /\ r.target = t
      BY <1>0, <1>4, <2>1 DEF CommitRec
    <2>3. \A n \in Entry : r.now = {n} => n = e
      BY <1>1, <2>2
    <2>4. r.target.base < node'[f].version
      BY <1>1, <1>3, <1>4, <1>5, <2>2
    <2>5. CallInv(r)'
      <3>1. /\ \A n \in Entry : InCommit(r, n) => checkout[CheckoutOf[n]] = "active"
            /\ \A n \in Entry : n \in r.left \/ r.now = {n} => r.listed[n].base <= entry[n].base
        BY <2>2, SameEntry
      <3> QED
        BY <1>0, <1>1, <1>7, <2>2, <2>3, <2>4, <3>1 DEF CallInv, InCommit
    <2>6. commit' = [commit EXCEPT ![p] = r]
      BY <1>7, <2>1 DEF Goto
    <2> QED
      BY <1>1, <1>2, <1>7, <2>2, <2>5, <2>6, CallStep
  <1>8. CASE /\ matches /\ faults' = faults /\ Goto(p, Rest(p))
             /\ head' = [head EXCEPT ![f] = [version |-> commit[p].version, sum |-> t.sum]]
             /\ entry' = [entry EXCEPT ![e] =
                   [t EXCEPT !.base = commit[p].version, !.bsum = t.sum,
                             !.state = IF commit[p].clean THEN "clean" ELSE "pending",
                             !.known = commit[p].clean /\ t.known]]
             /\ candidate' = IF commit[p].clean THEN candidate
                             ELSE [candidate EXCEPT ![e] = NoCandidate]
    <2>1. /\ t.base = head[f].version /\ entry[e] = t
      BY <1>0, <1>8 DEF Current
    <2>2. /\ commit[p].version = head[f].version + 1 /\ commit[p].version = node[f].version
          /\ t.sum = node[f].sum
      BY <1>3, <1>4, <1>5, <2>1 DEF VersionInv
    <2>3. PICK w \in FileRec : w = [version |-> commit[p].version, sum |-> t.sum]
      BY <1>3, <1>4 DEF FileRec
    <2>4. w.version = commit[p].version /\ w.sum = t.sum /\ w = node[f]
      BY <1>3, <2>2, <2>3 DEF FileRec
    <2>5. PICK s \in {"clean", "pending"} :
            /\ s = IF commit[p].clean THEN "clean" ELSE "pending"
            /\ s = "pending" => ~commit[p].clean
      OBVIOUS
    <2>6. PICK k \in BOOLEAN : k = (commit[p].clean /\ t.known)
      OBVIOUS
    <2>7. PICK r : r = [t EXCEPT !.base = commit[p].version, !.bsum = t.sum, !.state = s, !.known = k]
      OBVIOUS
    <2>8. /\ r \in Row /\ r.base = commit[p].version /\ r.bsum = t.sum /\ r.state = s
          /\ r.known = k /\ r.stamp = t.stamp /\ r.sum = t.sum
      <3>1. t.sum \in Sum
        BY <1>3 DEF Sum
      <3>2. s \in {"none", "clean", "pending", "conflict", "missing", "error"}
        OBVIOUS
      <3> QED
        BY <1>4, <2>7, <3>1, <3>2 DEF Row
    <2>9. /\ head' = [head EXCEPT ![f] = w]
          /\ entry' = [entry EXCEPT ![e] = r]
      BY <1>8, <2>3, <2>5, <2>6, <2>7
    <2>10. /\ head' \in [File -> FileRec] /\ head'[f] = w
           /\ \A g \in File : g # f => head'[g] = head[g]
           /\ entry' \in [Entry -> Row] /\ entry'[e] = r
           /\ \A n \in Entry : n # e => entry'[n] = entry[n]
      BY <1>1, <2>8, <2>9
    <2>11. candidate' \in [Entry -> CandidateRec]
      BY <1>1, <1>8, Blanks
    <2>12. Grown
      <3> SUFFICES ASSUME NEW g \in File
                   PROVE  /\ head[g].version <= head'[g].version
                          /\ head'[g].version = head[g].version => head'[g] = head[g]
                          /\ node[g].version <= node'[g].version
                          /\ node'[g].version = node[g].version => node'[g] = node[g]
        BY <1>1 DEF Grown
      <3>1. head[g].version \in Nat /\ node[g].version \in Nat
        BY TypeParts DEF IInv, FileRec
      <3> QED
        BY <1>1, <1>3, <2>2, <2>4, <2>10, <3>1
    <2>13. BaseKept
      <3> SUFFICES ASSUME NEW n \in Entry
                   PROVE  entry[n].base <= entry'[n].base
        BY DEF BaseKept
      <3>1. entry[n].base \in Nat
        BY <1>1 DEF Row
      <3> QED
        BY <1>3, <1>4, <1>5, <2>1, <2>8, <2>10, <3>1
    <2>14. ASSUME NEW g \in File
           PROVE  VersionInv(g)'
      <3>1. CASE g = f
        BY <1>1, <1>3, <2>2, <2>4, <2>10, <3>1 DEF VersionInv
      <3>2. CASE g # f
        BY <1>1, <2>10, <3>2 DEF IInv, VersionInv
      <3> QED
        BY <3>1, <3>2
    <2>15. RowInv(e)'
      <3>1. RowInv(e)
        BY DEF IInv
      <3>2. /\ t.stamp <= edits
            /\ t.known /\ Holds(e, t.stamp) => work[e].sum = t.sum
        BY <1>3, <2>1, <3>1 DEF RowInv
      <3>3. s = "pending" => ~k
        BY <2>5, <2>6
      <3>4. k => t.known
        BY <2>6
      <3>5. Based(r, f)'
        BY <1>4, <2>4, <2>8, <2>10 DEF Based
      <3> QED
        BY <1>0, <1>1, <1>3, <2>5, <2>8, <2>10, <3>2, <3>3, <3>4, <3>5 DEF RowInv, Based, Holds
    <2>16. PICK c \in CommitRec : c = Rest(p) /\ CallInv(c)
      BY RestCall
    <2>17. commit' = [commit EXCEPT ![p] = c] /\ commit' \in [Committer -> CommitRec]
      BY <1>8, <2>16, TypeParts DEF Goto, IInv
    <2>18. Typed'
      BY <1>1, <1>2, <2>10, <2>11, <2>17, TypeParts DEF IInv
    <2>19. CallInv(c)'
      BY <1>1, <2>12, <2>13, <2>16, <2>18, CallKept DEF Steady
    <2>20. \A n \in Entry : entry'[n] = entry[n] \/ RowInv(n)'
      BY <2>10, <2>15
    <2> QED
      BY <1>1, <2>12, <2>13, <2>14, <2>17, <2>18, <2>19, <2>20, CommitIInv
  <1> QED
    BY <1>0, <1>6, <1>7, <1>8 DEF ApplyCommit

LEMMA MarkCommitConflictIInv ==
    ASSUME IInv, NEW p \in Committer, NEW e \in Entry, MarkCommitConflict(p, e)
    PROVE  IInv'
  <1> USE DEF Beside, disk, ledger
  <1>1. /\ UNCHANGED <<work, edits, hidden, checkout, create, scan, head, node, candidate, refused>>
        /\ commit[p].at = "refuse" /\ commit[p].now = {e} /\ Goto(p, Rest(p))
        /\ entry \in [Entry -> Row] /\ faults \in 0..MaxFaults /\ FileOf[e] \in File
    BY TypeParts DEF IInv, MarkCommitConflict
  <1>2. faults' \in 0..MaxFaults
    BY <1>1, FailsKept DEF IInv, MarkCommitConflict
  <1>3. CASE entry' = entry
    BY <1>1, <1>2, <1>3, RestStep
  <1>4. CASE /\ entry' = [entry EXCEPT ![e].state = "conflict"]
             /\ entry[e].base = commit[p].target.base
    <2>1. PICK r \in Row : r = [entry[e] EXCEPT !.state = "conflict"]
      <3>1. entry[e] \in Row
        BY <1>1
      <3> QED
        BY <3>1 DEF Row
    <2>2. /\ r.state = "conflict" /\ r.base = entry[e].base /\ r.bsum = entry[e].bsum
          /\ r.stamp = entry[e].stamp
      BY <1>1, <2>1 DEF Row
    <2>3. entry' = [entry EXCEPT ![e] = r]
      BY <1>4, <2>1
    <2>4. /\ entry' \in [Entry -> Row] /\ entry'[e] = r
          /\ \A n \in Entry : n # e => entry'[n] = entry[n]
      BY <1>1, <2>3
    <2>5. e \in refused \/ entry[e].base < node[FileOf[e]].version
      BY <1>1, <1>4, CallFields DEF CallInv
    <2>6. RowInv(e)'
      BY <1>1, <2>2, <2>4, <2>5 DEF IInv, RowInv, Based
    <2>7. PICK c \in CommitRec : c = Rest(p) /\ CallInv(c)
      BY RestCall
    <2>8. commit' = [commit EXCEPT ![p] = c] /\ commit' \in [Committer -> CommitRec]
      BY <1>1, <2>7, TypeParts DEF Goto, IInv
    <2>9. Typed'
      BY <1>1, <1>2, <2>4, <2>8, TypeParts DEF IInv
    <2>10. Grown
      BY <1>1, GrownIfSame DEF IInv
    <2>11. BaseKept
      <3> SUFFICES ASSUME NEW n \in Entry
                   PROVE  entry[n].base <= entry'[n].base
        BY DEF BaseKept
      <3>1. entry[n].base \in Nat
        BY <1>1 DEF Row
      <3> QED
        BY <2>2, <2>4, <3>1
    <2>12. CallInv(c)'
      BY <1>1, <2>7, <2>9, <2>10, <2>11, CallKept DEF Steady
    <2>13. \A g \in File : VersionInv(g)'
      BY <1>1 DEF IInv, VersionInv
    <2>14. \A n \in Entry : entry'[n] = entry[n] \/ RowInv(n)'
      BY <2>4, <2>6
    <2> QED
      BY <1>1, <2>8, <2>9, <2>10, <2>11, <2>12, <2>13, <2>14, CommitIInv
  <1> QED
    BY <1>3, <1>4 DEF MarkCommitConflict

-----------------------------------------------------------------------------
LEMMA NextIInv == IInv /\ [Next]_vars => IInv'
  <1> SUFFICES ASSUME IInv, [Next]_vars
               PROVE  IInv'
    OBVIOUS
  <1>1. CASE \E e \in Entry : Edit(e) \/ Remove(e)
    BY <1>1, DiskIInv
  <1>2. CASE (\E e \in Entry : Settle(e)) \/ (\E f \in File : Hide(f)) \/ UNCHANGED vars
    BY <1>2, OutsideIInv
  <1>3. CASE \E c \in Checkout : CreateStep(c) \/ Retire(c)
    BY <1>3, StartCreateIInv, MaterializeIInv, ActivateIInv, RetireIInv DEF CreateStep
  <1>4. CASE ScanStep
    BY <1>4, StartScanIInv, OpenCheckoutIInv, VisitIInv, HashSettledIInv, FinalizeTrackedIInv,
       MarkEntryMissingIInv, EndScanIInv DEF ScanStep, ScanEntry
  <1>5. CASE \E p \in Committer : CommitStep(p)
    BY <1>5, StartCommitIInv, TargetIInv, ReplaceIInv, CheckIInv, ApplyCommitIInv,
       MarkCommitConflictIInv DEF CommitStep
  <1>6. CASE Stop
    BY <1>6, StopIInv
  <1> QED
    BY <1>1, <1>2, <1>3, <1>4, <1>5, <1>6 DEF Next

LEMMA Invariance == Spec => []IInv
  <1> QED
    BY InitIInv, NextIInv, PTL DEF Spec

\* Every variable of the checkouts keeps its type: the processes' records too.
THEOREM TypeCorrect == Spec => []TypeOK
  <1>1. IInv => TypeOK
    BY DEF IInv
  <1> QED
    BY <1>1, Invariance, PTL

\* A row that lets the scanner pass a file by (scanCheckout's fast path) is right
\* about the content of that file: no edit is overlooked.
THEOREM EditsSeen == Spec => []NoEditOverlooked
  <1>1. IInv => NoEditOverlooked
    BY DEF IInv, RowInv, NoEditOverlooked
  <1> QED
    BY <1>1, Invariance, PTL

\* What ListPendingEntries hands to a commit differs from its base, although
\* ApplyCommit moves the base while a scan is under way.
THEOREM PendingNew == Spec => []PendingDiffers
  <1>1. IInv => PendingDiffers
    BY DEF IInv, RowInv, PendingDiffers
  <1> QED
    BY <1>1, Invariance, PTL

\* MarkCommitConflict marks only what is behind Docbank, hidden or held by another
\* file, however commits of the same folder interleave.
THEOREM ConflictCaused == Spec => []ConflictHasCause
  <1>1. IInv => ConflictHasCause
    <2> SUFFICES ASSUME IInv, NEW e \in Entry, entry[e].state = "conflict", e \notin refused
                 PROVE  node[FileOf[e]].version # entry[e].base
      BY DEF ConflictHasCause
    <2>1. entry[e].base < node[FileOf[e]].version
      BY DEF IInv, RowInv
    <2>2. entry[e] \in Row /\ node[FileOf[e]] \in FileRec
      BY TypeParts DEF IInv
    <2> QED
      BY <2>1, <2>2 DEF Row, FileRec
  <1> QED
    BY <1>1, Invariance, PTL

\* No process works in a retired folder, so its rows never change again.
THEOREM RetiredFrozen == Spec => RetiredIsFrozen
  <1>1. IInv /\ [Next]_vars =>
          [\A e \in Entry :
              checkout[CheckoutOf[e]] = "retired" =>
                checkout'[CheckoutOf[e]] = "retired" /\ entry'[e] = entry[e]]_vars
    <2> SUFFICES ASSUME IInv, Next, NEW e \in Entry, checkout[CheckoutOf[e]] = "retired"
                 PROVE  checkout'[CheckoutOf[e]] = "retired" /\ entry'[e] = entry[e]
      BY DEF vars
    <2> USE DEF Outside, Beside, disk, media, ledger
    <2>1. CheckoutOf[e] \in Checkout /\ checkout \in [Checkout -> {"none", "building", "active", "error", "retired"}]
          /\ entry \in [Entry -> Row]
      BY TypeParts DEF IInv
    <2>2. \A n \in Entry : InScan(n) => n # e
      BY DEF IInv, ScanInv
    <2>3. \A p \in Committer, n \in Entry : InCommit(commit[p], n) => n # e
      BY DEF IInv, CommitInv, CallInv
    <2>4. CASE \E n \in Entry : Edit(n) \/ Remove(n) \/ Settle(n)
      BY <2>4 DEF Edit, Remove, Settle
    <2>5. CASE (\E f \in File : Hide(f)) \/ Stop
      BY <2>5 DEF Hide, Stop
    <2>6. CASE \E c \in Checkout : CreateStep(c) \/ Retire(c)
      <3>1. PICK c \in Checkout : CreateStep(c) \/ Retire(c)
        BY <2>6
      <3>2. CASE StartCreate(c)
        BY <2>1, <3>2 DEF StartCreate
      <3>3. CASE Activate(c) \/ \E n \in Entry : Materialize(c, n)
        <4>1. create.now = {c}
          BY <3>3 DEF Activate, Materialize
        <4>2. CheckoutOf[e] # c /\ \A n \in create.left : CheckoutOf[n] = c
          BY <4>1 DEF IInv, CreateInv, Begun
        <4>3. CASE Activate(c)
          BY <2>1, <4>2, <4>3 DEF Activate
        <4>4. CASE \E n \in Entry : Materialize(c, n)
          BY <2>1, <4>2, <4>4 DEF Materialize, FailCreate
        <4> QED
          BY <3>3, <4>3, <4>4
      <3>4. CASE Retire(c)
        BY <2>1, <3>4 DEF Retire
      <3> QED
        BY <3>1, <3>2, <3>3, <3>4 DEF CreateStep
    <2>7. CASE ScanStep
      <3>1. CASE StartScan \/ (\E c \in Checkout : OpenCheckout(c)) \/ EndScan
        BY <3>1 DEF StartScan, OpenCheckout, EndScan
      <3>2. CASE \E n \in Entry : ScanEntry(n)
        <4>1. PICK n \in Entry : ScanEntry(n)
          BY <3>2
        <4>2. InScan(n)
          BY <4>1 DEF ScanEntry, Visit, HashSettled, FinalizeTracked, MarkEntryMissing, Unseen, InScan
        <4>3. n # e
          BY <2>2, <4>2
        <4>4. CASE Visit(n) \/ HashSettled(n)
          BY <2>1, <4>3, <4>4 DEF Visit, HashSettled, MarkEntryScanError
        <4>5. CASE FinalizeTracked(n) \/ MarkEntryMissing(n)
          BY <2>1, <4>3, <4>5 DEF FinalizeTracked, MarkEntryMissing
        <4> QED
          BY <4>1, <4>4, <4>5 DEF ScanEntry
      <3> QED
        BY <2>7, <3>1, <3>2 DEF ScanStep
    <2>8. CASE \E p \in Committer : CommitStep(p)
      <3>1. PICK p \in Committer : CommitStep(p)
        BY <2>8
      <3>2. CASE \E c \in Checkout : StartCommit(p, c)
        BY <3>2 DEF StartCommit
      <3>3. CASE \E n \in Entry : Target(p, n) \/ Replace(p, n) \/ Check(p, n)
        BY <3>3 DEF Target, Replace, Check
      <3>4. CASE \E n \in Entry : ApplyCommit(p, n) \/ MarkCommitConflict(p, n)
        <4>1. PICK n \in Entry : ApplyCommit(p, n) \/ MarkCommitConflict(p, n)
          BY <3>4
        <4>2. n # e
          BY <2>3, <4>1 DEF ApplyCommit, MarkCommitConflict, InCommit
        <4> QED
          BY <2>1, <4>1, <4>2 DEF ApplyCommit, MarkCommitConflict
      <3> QED
        BY <3>1, <3>2, <3>3, <3>4 DEF CommitStep
    <2> QED
      BY <2>4, <2>5, <2>6, <2>7, <2>8 DEF Next
  <1> QED
    BY <1>1, Invariance, PTL DEF Spec, RetiredIsFrozen

\* Docbank gets a version only on top of the catalog's, and the catalog moves only
\* to what Docbank has: Replace and ApplyCommit implement the abstract ledger.
THEOREM LedgerImplemented == Spec => ImplementsLedger
  <1>1. Init => Ledger!Init
    <2> SUFFICES ASSUME Init
                 PROVE  head \in [File -> [version : {1}, sum : Content]] /\ node = head
      BY DEF Ledger!Init
    <2> QED
      BY DEF Init
  <1>2. IInv /\ [Next]_vars => [Ledger!Next]_Ledger!vars
    <2> SUFFICES ASSUME IInv, [Next]_vars
                 PROVE  Ledger!Next \/ UNCHANGED <<head, node>>
      BY DEF Ledger!vars
    <2> USE DEF Outside, Beside, disk, media, ledger
    <2>1. CASE (\E e \in Entry : Edit(e) \/ Remove(e) \/ Settle(e)) \/ (\E f \in File : Hide(f))
               \/ Stop \/ UNCHANGED vars
      BY <2>1 DEF Edit, Remove, Settle, Hide, Stop, vars
    <2>2. CASE \E c \in Checkout : CreateStep(c) \/ Retire(c)
      BY <2>2 DEF CreateStep, StartCreate, Materialize, Activate, Retire
    <2>3. CASE ScanStep
      BY <2>3 DEF ScanStep, ScanEntry, StartScan, OpenCheckout, Visit, HashSettled,
                  FinalizeTracked, MarkEntryMissing, EndScan
    <2>4. CASE \E p \in Committer : CommitStep(p)
      <3>1. PICK p \in Committer : CommitStep(p)
        BY <2>4
      <3>2. CASE \E c \in Checkout : StartCommit(p, c)
        BY <3>2 DEF StartCommit
      <3>3. CASE \E e \in Entry : Target(p, e) \/ Check(p, e) \/ MarkCommitConflict(p, e)
        BY <3>3 DEF Target, Check, MarkCommitConflict
      <3>4. ASSUME NEW e \in Entry, Replace(p, e)
            PROVE  Ledger!Next \/ UNCHANGED <<head, node>>
        <4>1. PICK f \in File, t \in Row : f = FileOf[e] /\ t = commit[p].target
          BY CallFields
        <4>2. CASE UNCHANGED node
          BY <3>4, <4>2 DEF Replace
        <4>3. CASE /\ node[f] = [version |-> t.base, sum |-> t.bsum]
                   /\ node' = [node EXCEPT ![f] = [version |-> t.base + 1, sum |-> t.sum]]
          <5>1. /\ t.base \in Nat /\ t.sum \in Content /\ VersionInv(f)
                /\ head[f].version \in Nat /\ t.base <= head[f].version
            BY <3>4, <4>1, TargetFacts DEF Replace
          <5>2. node[f].version = t.base
            BY <4>3
          <5>3. node[f] = head[f]
            BY <5>1, <5>2 DEF VersionInv
          <5>4. node' = [node EXCEPT ![f] = [version |-> head[f].version + 1, sum |-> t.sum]]
            BY <4>3, <5>2, <5>3
          <5>5. Ledger!Put(f, t.sum)
            BY <3>4, <5>3, <5>4 DEF Ledger!Put, Replace
          <5> QED
            BY <5>1, <5>5 DEF Ledger!Next
        <4> QED
          BY <3>4, <4>1, <4>2, <4>3 DEF Replace
      <3>5. ASSUME NEW e \in Entry, ApplyCommit(p, e)
            PROVE  Ledger!Next \/ UNCHANGED <<head, node>>
        <4>1. PICK f \in File, t \in Row : f = FileOf[e] /\ t = commit[p].target
          BY CallFields
        <4>2. CASE UNCHANGED head
          BY <3>5, <4>2 DEF ApplyCommit
        <4>3. CASE /\ Current(e, t)
                   /\ head' = [head EXCEPT ![f] = [version |-> commit[p].version, sum |-> t.sum]]
          <5>1. /\ VersionInv(f) /\ head[f].version \in Nat /\ node[f].version \in Nat
                /\ node[f] \in FileRec
            BY <3>5, <4>1, TargetFacts DEF ApplyCommit
          <5>2. /\ t.base < commit[p].version
                /\ commit[p].version <= node[f].version
                /\ commit[p].version = node[f].version => t.sum = node[f].sum
                /\ commit[p].version \in Nat /\ t.base = head[f].version
            BY <3>5, <4>1, <4>3, CallFields DEF CallInv, ApplyCommit, Current
          <5>3. commit[p].version = node[f].version
            BY <5>1, <5>2 DEF VersionInv
          <5>4. node[f] = [version |-> commit[p].version, sum |-> t.sum]
            BY <5>1, <5>2, <5>3 DEF FileRec
          <5>5. Ledger!Record(f)
            BY <3>5, <4>3, <5>4 DEF Ledger!Record, ApplyCommit
          <5> QED
            BY <5>5 DEF Ledger!Next
        <4> QED
          BY <3>5, <4>1, <4>2, <4>3 DEF ApplyCommit
      <3> QED
        BY <3>1, <3>2, <3>3, <3>4, <3>5 DEF CommitStep
    <2> QED
      BY <2>1, <2>2, <2>3, <2>4 DEF Next
  <1> QED
    BY <1>1, <1>2, Invariance, PTL DEF Spec, ImplementsLedger, Ledger!Spec

=============================================================================
