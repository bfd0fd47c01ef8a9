---------------------------- MODULE ImportProofs ----------------------------
(***************************************************************************)
(* Safety of imports and recoveries for every set of files, groups and     *)
(* contents, every number of workers, changes and faults.  The argument:   *)
(* whatever a process knows of the ledger stays true, because reservations *)
(* are never moved, contents never leave Docbank and ready is final.       *)
(***************************************************************************)
EXTENDS Import, TLAPS

USE ConstantAssumption DEF ConstantAssumption, Proc

LEMMA IdleType == Idle \in Process
  BY DEF Idle, Process, Unknown, Phases, Statuses

LEMMA NewAssetFresh ==
    ASSUME \E a \in Asset : asset[a] = "none"
    PROVE  NewAsset \in Asset /\ asset[NewAsset] = "none"
  BY DEF NewAsset

\* What an adoption, and a content that is missing, leave of the recovery.
Adopting(x, r, D) ==
    /\ x.at = r.at /\ x.now = r.now /\ x.asset = r.asset /\ x.left = D
    /\ x.known = r.known /\ x.sum = r.sum /\ x.stamp = r.stamp

LEMMA LeftKept == ASSUME NEW r \in Process, NEW D PROVE Adopting([r EXCEPT !.left = D], r, D)
  BY DEF Process, Adopting

LEMMA LeftKeptMissing ==
    ASSUME NEW r \in Process, NEW D
    PROVE  Adopting([r EXCEPT !.left = D, !.missing = TRUE], r, D)
  BY DEF Process, Adopting

LEMMA AdoptKept ==
    ASSUME proc \in [Proc -> Process], NEW d \in Digest, Adopt(d),
           ~MarkContentConflict(Recoverer), ~AdoptRefused
    PROVE  /\ Adopting(proc'[Recoverer], proc[Recoverer], proc[Recoverer].left \ {d})
           /\ \A q \in Proc \ {Recoverer} : proc'[q] = proc[q]
           /\ proc[Recoverer].at = "adopt"
           /\ UNCHANGED <<source, asset, holder, vault, meta, projected, lock, todo, visit,
                          reported, edits, commits, faults>>
  <1> DEFINE r == proc[Recoverer]
  <1>1. r \in Process
    OBVIOUS
  <1>2. /\ proc[Recoverer].at = "adopt"
        /\ UNCHANGED <<source, asset, holder, vault, meta, projected, lock, todo, visit,
                       reported, edits, commits, faults>>
    BY DEF Adopt, Applied, durable
  <1>3. \/ proc' = [proc EXCEPT ![Recoverer] = [r EXCEPT !.left = r.left \ {d}]]
        \/ proc' = [proc EXCEPT ![Recoverer] = [r EXCEPT !.left = r.left \ {d}, !.missing = TRUE]]
    BY DEF Adopt
  <1>4. \/ proc'[Recoverer] = [r EXCEPT !.left = r.left \ {d}]
        \/ proc'[Recoverer] = [r EXCEPT !.left = r.left \ {d}, !.missing = TRUE]
    BY <1>3
  <1>5. \A q \in Proc \ {Recoverer} : proc'[q] = proc[q]
    BY <1>3
  <1>6. Adopting([r EXCEPT !.left = r.left \ {d}], r, r.left \ {d})
    BY <1>1, LeftKept
  <1>7. Adopting([r EXCEPT !.left = r.left \ {d}, !.missing = TRUE], r, r.left \ {d})
    BY <1>1, LeftKeptMissing
  <1> QED
    BY <1>2, <1>4, <1>5, <1>6, <1>7

\* A process in one of these phases has an asset of its own.
Working == {"store", "create", "receipt", "project", "finalize", "index", "adopt"}

AssetInv(p) ==
    proc[p].at \in Working =>
        /\ proc[p].asset \in Asset
        /\ asset[proc[p].asset] # "none"
        /\ \A d \in Sums(p) : holder[d] = proc[p].asset
        /\ \A d \in proc[p].left : holder[d] = proc[p].asset
        /\ proc[p].now \subseteq proc[p].left

\* What a lookup found is still so.
KnownInv(p) ==
    \A d \in Digest : proc[p].known[d].asset # NoAsset => holder[d] = proc[p].known[d].asset

PhaseInv(p) ==
    /\ proc[p].now = {} \/ (proc[p].at \in {"create", "receipt"}
                            /\ \E d \in Digest : proc[p].now = {d})
    /\ proc[p].at = "reserve" => Sums(p) # {}
    /\ proc[p].at = "receipt" => \A d \in proc[p].now : vault[d] = "same"
    /\ proc[p].at = "finalize" => proc[p].asset \in meta
    /\ proc[p].at = "index" => asset[proc[p].asset] = "ready"

ProcInv(p) == AssetInv(p) /\ KnownInv(p) /\ PhaseInv(p)

\* One content: its reservation, its operation, what Docbank has, and its asset.
OpInv(d) ==
    /\ holder[d] = NoAsset <=> op[d] = "none"
    /\ holder[d] = NoAsset => vault[d] = "absent"
    /\ holder[d] # NoAsset => asset[holder[d]] # "none"
    /\ op[d] = "applied" => vault[d] = "same"

LedgerInv == (\A d \in Digest : OpInv(d)) /\ ConflictIsWhole /\ ReadyIsComplete

\* The import lock keeps workers and recovery apart.
LockInv ==
    /\ \A a \in visit : asset[a] # "none"
    /\ \A p \in Worker : proc[p].at # "idle" => lock = "import"
    /\ proc[Recoverer].at # "idle" => lock = "recover"
    /\ proc[Recoverer].at = "adopt" => asset[proc[Recoverer].asset] # "conflict"

StampInv == \A f \in File : source[f].stamp <= edits

IInv ==
    /\ TypeOK /\ StampInv
    /\ LedgerInv
    /\ \A p \in Proc : ProcInv(p)
    /\ LockInv
    /\ SuccessIsDurable

\* While recovery runs: the assets it is through with are settled, and of the one in hand
\* it knows what is missing.
Settled(a) ==
    /\ ~Complete(a)
    /\ \A d \in Contents(a) : op[d] = "pending" => vault[d] # "same"

InHand ==
    LET r == proc[Recoverer] IN
    /\ r.at \in {"idle", "adopt", "project", "finalize", "index"}
    /\ r.at # "idle" => r.asset \in visit
    /\ r.at = "adopt" =>
         /\ \A d \in r.left : op[d] = "pending"
         /\ \A d \in Contents(r.asset) : op[d] = "pending" =>
              d \in r.left \/ (r.missing /\ vault[d] # "same")
         /\ r.missing =>
              \E d \in Contents(r.asset) : op[d] = "pending" /\ vault[d] # "same"
    /\ r.at \in {"project", "finalize"} => Complete(r.asset)

RecoveryInv ==
    lock = "recover" =>
        /\ \A a \in Asset : asset[a] = "pending" => a \in visit \/ Settled(a)
        /\ InHand

\* Before anything is changed from outside.
Faithful(p) ==
    /\ proc[p].stamp = [f \in File |-> 0]
    /\ \A x \in proc[p].sum : source[x[1]].digest = x[2]
    /\ proc[p].at \in {"store", "create", "receipt"} =>
         proc[p].left \subseteq Sums(p) /\ proc[p].now \subseteq Sums(p)

CalmInv ==
    edits = 0 =>
        /\ \A f \in File : source[f].there /\ source[f].stamp = 0
        /\ \A d \in Digest : vault[d] # "other"
        /\ \A p \in Proc : Faithful(p)
        /\ \A a \in Asset : asset[a] # "conflict"

\* Type correctness, step by step.
LEMMA InitType == Init => TypeOK
  <1> SUFFICES ASSUME Init PROVE TypeOK
    OBVIOUS
  <1>1. source \in [File -> [digest : Digest, stamp : 0..MaxEdits, there : BOOLEAN]]
    <2>1. [digest : Digest, stamp : {0}, there : {TRUE}]
            \subseteq [digest : Digest, stamp : 0..MaxEdits, there : BOOLEAN]
      <3>1. {0} \subseteq 0..MaxEdits /\ {TRUE} \subseteq BOOLEAN
        OBVIOUS
      <3> QED
        BY ONLY <3>1
    <2> DEFINE Fresh == [digest : Digest, stamp : {0}, there : {TRUE}]
               Any == [digest : Digest, stamp : 0..MaxEdits, there : BOOLEAN]
    <2>2. source \in [File -> Fresh] /\ Fresh \subseteq Any
      BY <2>1 DEF Init
    <2> HIDE DEF Fresh, Any
    <2>3. source \in [File -> Any]
      BY <2>2
    <2> QED
      BY <2>3 DEF Any
  <1>2. proc \in [Proc -> Process]
    BY IdleType DEF Init
  <1> QED
    BY <1>1, <1>2 DEF Init, TypeOK, Statuses

LEMMA ReturnType ==
    ASSUME TypeOK, NEW p \in Proc, NEW ok \in BOOLEAN, Return(p, ok)
    PROVE  /\ proc' \in [Proc -> Process] /\ reported' \subseteq Digest
           /\ visit' \subseteq Asset
           /\ UNCHANGED <<source, lock, todo, edits, commits>>
  <1>1. Sums(p) \subseteq Digest
    BY DEF TypeOK, Process, Sums
  <1>2. proc' \in [Proc -> Process]
    BY IdleType DEF Return, TypeOK
  <1>3. reported' \subseteq Digest
    BY <1>1 DEF Return, TypeOK
  <1>4. visit' \subseteq Asset /\ UNCHANGED <<source, lock, todo, edits, commits>>
    BY DEF Return, TypeOK
  <1> QED
    BY <1>2, <1>3, <1>4

LEMMA PhaseType ==
    ASSUME NEW x \in Process, NEW phase \in Phases
    PROVE  [x EXCEPT !.at = phase] \in Process
  BY DEF Process

LEMMA GotoType ==
    ASSUME TypeOK, NEW p \in Proc, NEW phase \in Phases, Goto(p, phase)
    PROVE  /\ proc' \in [Proc -> Process]
           /\ UNCHANGED <<source, lock, todo, visit, reported, edits, commits, faults>>
  BY PhaseType DEF Goto, TypeOK

LEMMA ConflictType ==
    ASSUME TypeOK, NEW p \in Proc, MarkContentConflict(p)
    PROVE  TypeOK'
  <1>1. PICK ok \in BOOLEAN : Return(p, ok)
    BY DEF MarkContentConflict
  <1>2. /\ asset' \in [Asset -> {"none", "pending", "ready", "conflict"}]
        /\ op' \in [Digest -> Statuses]
        /\ UNCHANGED <<holder, recorded, vault, meta, projected, faults>>
    BY DEF MarkContentConflict, TypeOK, Statuses
  <1>3. /\ proc' \in [Proc -> Process] /\ reported' \subseteq Digest
        /\ visit' \subseteq Asset
        /\ UNCHANGED <<source, lock, todo, edits, commits>>
    BY <1>1, ReturnType
  <1> QED
    BY <1>2, <1>3 DEF TypeOK

\* The fields a step may change.
LEMMA FieldType ==
    ASSUME NEW x \in Process, NEW phase \in Phases, NEW l \in SUBSET Digest
    PROVE  /\ [x EXCEPT !.left = l] \in Process
           /\ [x EXCEPT !.left = l, !.missing = TRUE] \in Process
           /\ [x EXCEPT !.at = phase, !.left = l, !.again = TRUE] \in Process
           /\ [x EXCEPT !.at = phase, !.left = l, !.now = {}] \in Process
           /\ \A s \in SUBSET (File \X Digest) :
                [x EXCEPT !.at = phase, !.sum = s, !.left = l] \in Process
           /\ \A k \in [Digest -> [asset : Asset \cup {NoAsset}, status : Statuses]] :
                [x EXCEPT !.left = l, !.known = k] \in Process
           /\ \A n \in SUBSET Digest : [x EXCEPT !.at = phase, !.now = n] \in Process
           /\ \A a \in Asset :
                [x EXCEPT !.at = phase, !.asset = a, !.left = l, !.known = Unknown] \in Process
           /\ \A g \in SUBSET File, t \in [File -> 0..MaxEdits] :
                [x EXCEPT !.at = phase, !.group = g, !.stamp = t] \in Process
           /\ \A a \in Asset : [x EXCEPT !.at = phase, !.asset = a, !.left = l] \in Process
  BY DEF Process, Unknown, Statuses

LEMMA SourceType ==
    ASSUME NEW s \in [digest : Digest, stamp : 0..MaxEdits, there : BOOLEAN],
           NEW d \in Digest, NEW t \in 0..MaxEdits, NEW b \in BOOLEAN
    PROVE  /\ [s EXCEPT !.digest = d, !.stamp = t]
                 \in [digest : Digest, stamp : 0..MaxEdits, there : BOOLEAN]
           /\ [s EXCEPT !.there = b]
                 \in [digest : Digest, stamp : 0..MaxEdits, there : BOOLEAN]
  OBVIOUS

\* Steps of one process, and what they leave of the rest.
DurableOK ==
    /\ asset \in [Asset -> {"none", "pending", "ready", "conflict"}]
    /\ holder \in [Digest -> Asset \cup {NoAsset}]
    /\ op \in [Digest -> Statuses]
    /\ recorded \in [Digest -> SUBSET Digest]
    /\ vault \in [Digest -> {"absent", "same", "other"}]
    /\ meta \subseteq Asset /\ projected \subseteq Asset

LEMMA UpdateType ==
    ASSUME TypeOK, NEW p \in Proc, NEW x \in Process,
           proc' = [proc EXCEPT ![p] = x],
           UNCHANGED <<source, lock, todo, visit, reported, edits, commits, faults>>,
           DurableOK'
    PROVE  TypeOK'
  <1>1. proc' \in [Proc -> Process]
    BY DEF TypeOK
  <1> QED
    BY <1>1 DEF TypeOK, DurableOK

LEMMA LocalType ==
    ASSUME TypeOK, NEW p \in Proc, NEW x \in Process,
           proc' = [proc EXCEPT ![p] = x],
           UNCHANGED <<durable, source, lock, todo, visit, reported, edits, commits, faults>>
    PROVE  TypeOK'
  <1>1. DurableOK'
    BY DEF TypeOK, durable, DurableOK
  <1> QED
    BY <1>1, UpdateType

LEMMA EndType ==
    ASSUME TypeOK, NEW p \in Proc, NEW ok \in BOOLEAN, Return(p, ok),
           DurableOK', faults' \in 0..MaxFaults
    PROVE  TypeOK'
  BY ReturnType DEF TypeOK, DurableOK

LEMMA NextType ==
    ASSUME TypeOK, \A p \in Proc : AssetInv(p), StampInv, [Next]_vars
    PROVE  TypeOK'
  <1>1. \A p \in Proc : proc[p] \in Process
    BY DEF TypeOK
  <1>2. ASSUME NEW p \in Proc PROVE Sums(p) \subseteq Digest
    BY <1>1 DEF Process, Sums
  <1>3. ASSUME NEW p \in Proc, NEW g \in Group, Take(p, g) PROVE TypeOK'
    <2>1. g \subseteq File /\ g \in Group
      OBVIOUS
    <2> DEFINE x == [Idle EXCEPT !.at = "hash", !.group = g,
                  !.stamp = [f \in File |-> IF f \in g THEN source[f].stamp ELSE 0]]
    <2>2. [f \in File |-> IF f \in g THEN source[f].stamp ELSE 0] \in [File -> 0..MaxEdits]
      BY DEF TypeOK
    <2>3. x \in Process
      BY <2>1, <2>2, IdleType, FieldType DEF Phases
    <2>4. proc' \in [Proc -> Process]
      BY <1>3, <2>3 DEF Take, TypeOK
    <2> QED
      BY <1>3, <2>4 DEF Take, TypeOK, durable
  <1>4. ASSUME NEW p \in Proc, Hash(p) PROVE TypeOK'
    <2> DEFINE sums == {<<f, source[f].digest>> : f \in proc[p].group}
               x == [proc[p] EXCEPT !.at = "lookup", !.sum = sums,
                                    !.left = {y[2] : y \in sums}]
    <2>1. sums \subseteq File \X Digest
      BY <1>1 DEF TypeOK, Process
    <2>2. {y[2] : y \in sums} \subseteq Digest
      BY <2>1
    <2>3. x \in Process
      <3> HIDE DEF sums
      <3>1. proc[p] \in Process /\ "lookup" \in Phases
        BY <1>1 DEF Phases
      <3> QED
        BY <2>1, <2>2, <3>1, FieldType
    <2>4. proc' = [proc EXCEPT ![p] = x]
      BY <1>4 DEF Hash
    <2> QED
      BY <1>4, <2>3, <2>4, LocalType DEF Hash
  <1>5. ASSUME NEW p \in Proc, NEW d \in Digest, Lookup(p, d) PROVE TypeOK'
    <2> DEFINE k == [asset |-> holder[d], status |-> op[d]]
               x == [proc[p] EXCEPT !.left = proc[p].left \ {d},
                                    !.known = [proc[p].known EXCEPT ![d] = k]]
    <2>1. k \in [asset : Asset \cup {NoAsset}, status : Statuses]
      BY DEF TypeOK
    <2>2. x \in Process
      <3>1. proc[p] \in Process /\ proc[p].left \subseteq Digest
        BY <1>1 DEF Process
      <3>2. [proc[p].known EXCEPT ![d] = k]
              \in [Digest -> [asset : Asset \cup {NoAsset}, status : Statuses]]
        BY <1>1, <2>1 DEF Process
      <3>3. "idle" \in Phases
        BY DEF Phases
      <3> DEFINE m == [proc[p].known EXCEPT ![d] = k]
                 l == proc[p].left \ {d}
      <3>4. x = [proc[p] EXCEPT !.left = l, !.known = m]
        OBVIOUS
      <3>5. l \in SUBSET Digest
        BY <3>1
      <3> HIDE DEF k, m, x, l
      <3> QED
        BY <3>1, <3>2, <3>3, <3>4, <3>5, FieldType DEF m
    <2>3. proc' = [proc EXCEPT ![p] = x]
      BY <1>5, <1>1 DEF Lookup
    <2> QED
      BY <1>5, <2>2, <2>3, LocalType DEF Lookup
  <1>6. DurableOK /\ (UNCHANGED durable => DurableOK')
    BY DEF TypeOK, durable, DurableOK
  <1>7. faults \in 0..MaxFaults /\ (faults < MaxFaults => faults + 1 \in 0..MaxFaults)
    BY DEF TypeOK
  <1>8. ASSUME NEW p \in Proc, NEW ok \in BOOLEAN, Return(p, ok),
               UNCHANGED durable, faults' \in 0..MaxFaults
        PROVE  TypeOK'
    BY <1>6, <1>8, EndType
  <1>9. ASSUME NEW p \in Proc, ResolveConflict(p) PROVE TypeOK'
    BY <1>7, <1>8, <1>9 DEF ResolveConflict
  <1>10. ASSUME NEW p \in Proc, ResolveDuplicate(p) PROVE TypeOK'
    BY <1>7, <1>8, <1>10 DEF ResolveDuplicate
  <1>11. ASSUME NEW p \in Proc, ResolvePending(p) PROVE TypeOK'
    <2> DEFINE rest == {d \in Sums(p) : proc[p].known[d].status # "applied"}
               phase == IF rest = {} THEN "project" ELSE "store"
    <2>1. PICK a \in Asset : proc' = [proc EXCEPT ![p] =
            [proc[p] EXCEPT !.at = phase, !.asset = a, !.left = rest, !.known = Unknown]]
      BY <1>11 DEF ResolvePending
    <2>2. rest \in SUBSET Digest /\ phase \in Phases /\ proc[p] \in Process
      BY <1>1, <1>2 DEF Phases
    <2> HIDE DEF rest, phase
    <2>3. [proc[p] EXCEPT !.at = phase, !.asset = a, !.left = rest, !.known = Unknown]
             \in Process
      BY <2>2, FieldType
    <2> QED
      BY <1>11, <2>1, <2>3, LocalType DEF ResolvePending
  <1>12. ASSUME NEW p \in Proc, NEW phase \in Phases, Goto(p, phase), DurableOK'
         PROVE  TypeOK'
    <2>1. [proc[p] EXCEPT !.at = phase] \in Process
      BY <1>1, PhaseType
    <2> QED
      BY <1>12, <2>1, UpdateType DEF Goto
  <1>13. {"project", "reserve", "finalize", "index", "store", "create", "receipt"} \subseteq Phases
    BY DEF Phases
  <1>14. ASSUME NEW p \in Proc, ResolveNone(p) PROVE TypeOK'
    <2>1. CASE Goto(p, "reserve")
      BY <1>6, <1>12, <1>13, <1>14, <2>1 DEF ResolveNone
    <2>2. CASE Return(p, FALSE) /\ UNCHANGED faults
      BY <1>7, <1>8, <1>14, <2>2 DEF ResolveNone
    <2> QED
      BY <1>14, <2>1, <2>2 DEF ResolveNone
  <1>15. ASSUME NEW p \in Proc, Reserve(p) PROVE TypeOK'
    <2> DEFINE x == [proc[p] EXCEPT !.at = "store", !.asset = NewAsset, !.left = Sums(p),
                                    !.known = Unknown]
    <2>1. NewAsset \in Asset
      BY <1>15, NewAssetFresh DEF Reserve
    <2>2. x \in Process
      BY <1>1, <1>2, <1>13, <2>1, FieldType
    <2>3. DurableOK'
      BY <1>15, <1>6, <2>1 DEF Reserve, DurableOK, Statuses
    <2> QED
      BY <1>15, <2>2, <2>3, UpdateType DEF Reserve
  <1>16. ASSUME NEW p \in Proc, ReserveLost(p) PROVE TypeOK'
    <2> DEFINE x == [proc[p] EXCEPT !.at = "lookup", !.left = Sums(p), !.again = TRUE]
    <2>1. x \in Process
      <3>1. "lookup" \in Phases
        BY DEF Phases
      <3> QED
        BY <3>1, <1>1, <1>2, FieldType
    <2> QED
      BY <1>16, <2>1, LocalType DEF ReserveLost
  <1>17. ASSUME NEW p \in Proc, NEW d \in Digest, Revalidate(p, d) PROVE TypeOK'
    <2>1. CASE MarkContentConflict(p)
      BY <2>1, ConflictType
    <2>2. CASE ~MarkContentConflict(p)
      <3> DEFINE x == [proc[p] EXCEPT !.at = "create", !.now = {d}]
      <3>1. x \in Process
        <4>1. "create" \in Phases /\ {d} \in SUBSET Digest /\ {} \in SUBSET Digest
          BY DEF Phases
        <4> QED
          BY <4>1, <1>1, FieldType
      <3> QED
        BY <1>17, <2>2, <3>1, LocalType DEF Revalidate
    <2> QED
      BY <2>1, <2>2
  <1>18. ASSUME NEW p \in Proc, NEW d \in Digest, Create(p, d) PROVE TypeOK'
    <2>1. CASE MarkContentConflict(p)
      BY <2>1, ConflictType
    <2>2. CASE Return(p, FALSE) /\ UNCHANGED <<durable, faults>>
      BY <1>7, <1>8, <2>2
    <2>3. CASE /\ vault' = [vault EXCEPT ![d] = "same"]
               /\ proc' = [proc EXCEPT ![p] = [@ EXCEPT !.at = "receipt"]]
               /\ UNCHANGED <<source, asset, holder, op, recorded, meta, projected, lock,
                              todo, visit, reported, edits, commits, faults>>
      <3>1. DurableOK'
        BY <1>6, <2>3 DEF DurableOK
      <3> QED
        BY <1>12, <1>13, <2>3, <3>1 DEF Goto
    <2> QED
      BY <1>18, <2>1, <2>2, <2>3 DEF Create
  <1>35. ASSUME NEW d \in Digest, Applied(d)
         PROVE  op' \in [Digest -> Statuses] /\ recorded' \in [Digest -> SUBSET Digest]
    BY <1>35 DEF Applied, TypeOK, Statuses
  <1>19. ASSUME NEW p \in Proc, NEW d \in Digest, Receipt(p, d) PROVE TypeOK'
    <2>1. CASE Return(p, FALSE) /\ UNCHANGED <<durable, faults>>
      BY <1>7, <1>8, <2>1
    <2>2. CASE Applied(d)
      <3> DEFINE phase == IF proc[p].left = {d} THEN "project" ELSE "store"
                 l == proc[p].left \ {d}
                 x == [proc[p] EXCEPT !.at = phase, !.left = l, !.now = {}]
      <3>1. proc' = [proc EXCEPT ![p] = x]
        BY <1>19, <2>2 DEF Receipt, Applied
      <3>2. phase \in Phases /\ l \in SUBSET Digest
        BY <1>1 DEF Phases, Process
      <3>3. x \in Process
        <4> HIDE DEF phase, l
        <4> QED
          BY <1>1, <3>2, FieldType
      <3>4. DurableOK'
        BY <1>6, <1>19, <1>35, <2>2 DEF Receipt, Applied, DurableOK
      <3> QED
        BY <1>19, <2>2, <3>1, <3>3, <3>4, UpdateType DEF Receipt, Applied
    <2> QED
      BY <1>19, <2>1, <2>2 DEF Receipt
  <1>20. ASSUME NEW p \in Proc, Project(p) PROVE TypeOK'
    <2>1. CASE Return(p, FALSE) /\ UNCHANGED <<durable, faults>>
      BY <1>7, <1>8, <2>1
    <2>2. CASE /\ asset[proc[p].asset] # "conflict"
               /\ meta' = meta \cup {proc[p].asset}
               /\ Goto(p, "finalize")
               /\ UNCHANGED <<asset, holder, op, recorded, vault, projected>>
      <3>1. proc[p].asset \in Asset
        BY <1>20 DEF Project, AssetInv, Working
      <3>2. DurableOK'
        BY <1>6, <2>2, <3>1 DEF DurableOK
      <3> QED
        BY <1>12, <1>13, <2>2, <3>2
    <2> QED
      BY <1>20, <2>1, <2>2 DEF Project
  <1>21. ASSUME NEW p \in Proc, FinalizeReady(p) PROVE TypeOK'
    <2>1. CASE Return(p, FALSE) /\ UNCHANGED <<durable, faults>>
      BY <1>7, <1>8, <2>1
    <2>2. CASE /\ asset' = [asset EXCEPT ![proc[p].asset] = "ready"]
               /\ Goto(p, "index")
               /\ UNCHANGED <<holder, op, recorded, vault, meta, projected>>
      <3>1. DurableOK'
        BY <1>6, <2>2 DEF DurableOK
      <3> QED
        BY <1>12, <1>13, <2>2, <3>1
    <2> QED
      BY <1>21, <2>1, <2>2 DEF FinalizeReady
  <1>22. ASSUME NEW p \in Proc, Index(p) PROVE TypeOK'
    <2>1. proc[p].asset \in Asset
      BY <1>22 DEF Index, AssetInv, Working
    <2>2. DurableOK'
      BY <1>6, <1>22, <2>1 DEF Index, DurableOK
    <2> QED
      BY <1>7, <1>22, <2>2, EndType DEF Index
  <1>23. ASSUME NEW p \in Proc, IndexWarns(p) PROVE TypeOK'
    BY <1>7, <1>8, <1>23 DEF IndexWarns
  <1>24. ASSUME NEW p \in Proc, Fails(p) PROVE TypeOK'
    <2>1. proc' \in [Proc -> Process]
      BY <1>24, IdleType DEF Fails, TypeOK
    <2> QED
      BY <1>7, <1>24, <2>1 DEF Fails, TypeOK, durable
  <1>25. ASSUME Stop PROVE TypeOK'
    <2>1. proc' \in [Proc -> Process]
      BY <1>25, IdleType DEF Stop
    <2> QED
      BY <1>7, <1>25, <2>1 DEF Stop, TypeOK, durable
  <1>26. ASSUME StartImport \/ EndImport \/ StartRecovery \/ EndRecovery \/ Skip
         PROVE  TypeOK'
    BY <1>26 DEF StartImport, EndImport, StartRecovery, EndRecovery, Skip, Unsettled,
                 TypeOK, durable
  <1>27. ASSUME NEW a \in Asset, Visit(a) PROVE TypeOK'
    <2> DEFINE l == {d \in Contents(a) : op[d] = "pending"}
               x == [Idle EXCEPT !.at = "adopt", !.asset = a, !.left = l]
    <2>1. l \in SUBSET Digest /\ "adopt" \in Phases
      BY DEF Contents, Phases
    <2>2. x \in Process
      <3> HIDE DEF l
      <3> QED
        BY <2>1, IdleType, FieldType
    <2>3. proc' \in [Proc -> Process] /\ visit' \subseteq Asset
      BY <1>27, <2>2 DEF Visit, TypeOK
    <2> QED
      BY <1>27, <2>3 DEF Visit, TypeOK, durable
  <1>28. ASSUME NEW d \in Digest, Adopt(d) PROVE TypeOK'
    <2> DEFINE l == proc[Recoverer].left \ {d}
    <2>1. l \in SUBSET Digest /\ "adopt" \in Phases /\ proc[Recoverer] \in Process
      BY <1>1 DEF Phases, Process
    <2>2. CASE MarkContentConflict(Recoverer)
      BY <2>2, ConflictType
    <2>3. CASE /\ proc' = [proc EXCEPT ![Recoverer] =
                             [@ EXCEPT !.left = proc[Recoverer].left \ {d}, !.missing = TRUE]]
               /\ UNCHANGED <<durable, source, lock, todo, visit, reported, edits, commits, faults>>
      <3>1. [proc[Recoverer] EXCEPT !.left = l, !.missing = TRUE] \in Process
        <4> HIDE DEF l
        <4> QED
          BY <2>1, FieldType
      <3> QED
        BY <2>3, <3>1, LocalType
    <2>4. CASE /\ Applied(d)
               /\ proc' = [proc EXCEPT ![Recoverer] = [@ EXCEPT !.left = proc[Recoverer].left \ {d}]]
               /\ UNCHANGED <<source, asset, holder, vault, meta, projected, lock, todo,
                              visit, reported, edits, commits, faults>>
      <3>1. [proc[Recoverer] EXCEPT !.left = l] \in Process
        <4> HIDE DEF l
        <4> QED
          BY <2>1, FieldType
      <3>2. DurableOK'
        BY <1>6, <1>35, <2>4 DEF DurableOK
      <3> QED
        BY <2>4, <3>1, <3>2, UpdateType
    <2>5. CASE AdoptRefused
      <3>1. proc' \in [Proc -> Process]
        BY <1>1, <2>5, IdleType DEF AdoptRefused, TypeOK
      <3> QED
        BY <2>5, <3>1 DEF AdoptRefused, TypeOK, durable
    <2> QED
      BY <1>28, <2>2, <2>3, <2>4, <2>5 DEF Adopt
  <1>29. ASSUME Adopted PROVE TypeOK'
    <2>1. CASE Goto(Recoverer, "project")
      BY <1>6, <1>12, <1>13, <1>29, <2>1 DEF Adopted
    <2>2. CASE Return(Recoverer, FALSE) /\ UNCHANGED faults
      BY <1>7, <1>8, <1>29, <2>2 DEF Adopted
    <2> QED
      BY <1>29, <2>1, <2>2 DEF Adopted
  <1>30. /\ edits \in Nat /\ commits \in Nat /\ edits + commits <= MaxEdits
         /\ edits + commits < MaxEdits =>
              /\ edits + 1 \in Nat /\ commits + 1 \in Nat /\ edits + 1 <= MaxEdits
              /\ edits + 1 + commits <= MaxEdits /\ edits + (commits + 1) <= MaxEdits
    BY DEF TypeOK
  <1>31. ASSUME NEW f \in File, Edit(f) PROVE TypeOK'
    <2>1. PICK d \in Digest, trace \in 0..1 :
            source' = [source EXCEPT ![f] = [@ EXCEPT
                         !.digest = d, !.stamp = source[f].stamp + trace]]
      BY <1>31 DEF Edit
    <2>2. source[f].stamp + trace \in 0..MaxEdits
      BY <1>30, <1>31 DEF Edit, TypeOK, StampInv
    <2>3. [source[f] EXCEPT !.digest = d, !.stamp = source[f].stamp + trace]
             \in [digest : Digest, stamp : 0..MaxEdits, there : BOOLEAN]
      <3>1. source[f] \in [digest : Digest, stamp : 0..MaxEdits, there : BOOLEAN]
        BY DEF TypeOK
      <3>2. TRUE \in BOOLEAN
        OBVIOUS
      <3> QED
        BY ONLY <2>2, <3>1, <3>2, SourceType
    <2>4. source' \in [File -> [digest : Digest, stamp : 0..MaxEdits, there : BOOLEAN]]
      BY <2>1, <2>3 DEF TypeOK
    <2> QED
      BY <1>31, <1>30, <2>4 DEF Edit, TypeOK, durable
  <1>32. ASSUME NEW f \in File, Mount(f) PROVE TypeOK'
    <2>1. [source[f] EXCEPT !.there = ~source[f].there]
             \in [digest : Digest, stamp : 0..MaxEdits, there : BOOLEAN]
      <3>1. source[f] \in [digest : Digest, stamp : 0..MaxEdits, there : BOOLEAN]
        BY DEF TypeOK
      <3> DEFINE b == ~source[f].there
      <3>2. b \in BOOLEAN
        BY <3>1
      <3> HIDE DEF b
      <3>3. [source[f] EXCEPT !.there = b]
               \in [digest : Digest, stamp : 0..MaxEdits, there : BOOLEAN]
        BY <3>1, <3>2
      <3> QED
        BY <3>3 DEF b
    <2>2. source' \in [File -> [digest : Digest, stamp : 0..MaxEdits, there : BOOLEAN]]
      BY <1>32, <2>1 DEF Mount, TypeOK
    <2> QED
      BY <1>30, <1>32, <2>2 DEF Mount, TypeOK, durable
  <1>33. ASSUME NEW d \in Digest, Foreign(d) PROVE TypeOK'
    BY <1>30, <1>33 DEF Foreign, TypeOK
  <1>36. ASSUME NEW d \in Digest, ApplyCommit(d) PROVE TypeOK'
    <2>1. PICK new \in {{}} \cup {{e} : e \in Digest \ UNION {recorded[k] : k \in Digest}} :
             recorded' = [recorded EXCEPT ![d] = new]
      BY <1>36 DEF ApplyCommit
    <2>2. new \subseteq Digest
      OBVIOUS
    <2>3. recorded' \in [Digest -> SUBSET Digest]
      BY <2>1, <2>2 DEF TypeOK
    <2> QED
      BY <1>30, <1>36, <2>3 DEF ApplyCommit, TypeOK
  <1>34. CASE UNCHANGED vars
    BY <1>34 DEF vars, durable, TypeOK
  <1> QED
    BY <1>3, <1>4, <1>5, <1>9, <1>10, <1>11, <1>14, <1>15, <1>16, <1>17, <1>18, <1>19,
       <1>20, <1>21, <1>22, <1>23, <1>24, <1>25, <1>26, <1>27, <1>28, <1>29, <1>31,
       <1>32, <1>33, <1>34, <1>36
       DEF Next, GroupStep, RecoveryStep, Outside, Skip
-----------------------------------------------------------------------------
(* What a step can do to the ledger *)

Same == UNCHANGED <<asset, holder, op, vault>> /\ meta \subseteq meta'

Occupied(d) ==
    /\ holder[d] # NoAsset /\ vault[d] = "absent"
    /\ vault' = [vault EXCEPT ![d] = "other"]
    /\ UNCHANGED <<asset, holder, op, meta>>

Refused(a) ==
    /\ asset[a] # "none"
    /\ asset' = [asset EXCEPT ![a] = IF @ = "pending" THEN "conflict" ELSE @]
    /\ op' = [d \in Digest |-> IF asset[a] = "pending" /\ holder[d] = a
                               THEN "conflict" ELSE op[d]]
    /\ UNCHANGED <<holder, vault, meta>>

Reserved(a, D) ==
    /\ asset[a] = "none" /\ D # {} /\ \A d \in D : holder[d] = NoAsset
    /\ asset' = [asset EXCEPT ![a] = "pending"]
    /\ holder' = [d \in Digest |-> IF d \in D THEN a ELSE holder[d]]
    /\ op' = [d \in Digest |-> IF d \in D THEN "pending" ELSE op[d]]
    /\ UNCHANGED <<vault, meta>>

Stored(d) ==
    /\ holder[d] \in Asset /\ vault[d] \in {"absent", "same"}
    /\ vault' = [vault EXCEPT ![d] = "same"]
    /\ UNCHANGED <<asset, holder, op, meta>>

Receipted(d) ==
    /\ holder[d] \in Asset /\ vault[d] = "same" /\ op[d] # "conflict"
    /\ op' = [op EXCEPT ![d] = "applied"]
    /\ UNCHANGED <<asset, holder, vault, meta>>

Finished(a) ==
    /\ asset[a] \in {"pending", "ready"} /\ Complete(a) /\ a \in meta
    /\ asset' = [asset EXCEPT ![a] = "ready"]
    /\ UNCHANGED <<holder, op, vault, meta>>

Effect ==
    \/ Same
    \/ \E a \in Asset : Refused(a) \/ Finished(a) \/ \E D \in SUBSET Digest : Reserved(a, D)
    \/ \E d \in Digest : Occupied(d) \/ Stored(d) \/ Receipted(d)

LEMMA SumsType == ASSUME TypeOK, NEW p \in Proc PROVE Sums(p) \subseteq Digest
  BY DEF TypeOK, Process, Sums

\* Every step of the program has one of these effects.
LEMMA StepEffect ==
    ASSUME IInv, [Next]_vars
    PROVE  Effect
  <1> USE DEF IInv
  <1>1. ASSUME UNCHANGED durable PROVE Effect
    BY <1>1 DEF durable, Effect, Same
  <1>2. ASSUME NEW p \in Proc, proc[p].at \in Working
        PROVE  proc[p].asset \in Asset /\ asset[proc[p].asset] # "none"
    BY <1>2 DEF ProcInv, AssetInv
  <1>3. ASSUME NEW p \in Proc, proc[p].at \in Working, NEW d \in Digest,
               d \in proc[p].left \cup proc[p].now
        PROVE  holder[d] \in Asset
    BY <1>2, <1>3 DEF ProcInv, AssetInv
  <1>4. ASSUME NEW p \in Proc, proc[p].at \in Working, MarkContentConflict(p) PROVE Effect
    <2>1. Refused(proc[p].asset)
      BY <1>2, <1>4 DEF MarkContentConflict, Refused
    <2> QED
      BY <1>2, <1>4, <2>1 DEF Effect
  <1>5. ASSUME NEW p \in Proc, Reserve(p) PROVE Effect
    <2>1. NewAsset \in Asset /\ asset[NewAsset] = "none"
      BY <1>5, NewAssetFresh DEF Reserve
    <2>2. Reserved(NewAsset, Sums(p))
      BY <1>5, <2>1 DEF Reserve, Reserved, ProcInv, PhaseInv
    <2> QED
      BY <2>1, <2>2, SumsType DEF Effect
  <1>6. ASSUME NEW p \in Proc, NEW d \in Digest, Revalidate(p, d) PROVE Effect
    BY <1>1, <1>4, <1>6 DEF Revalidate, Working
  <1>7. ASSUME NEW p \in Proc, NEW d \in Digest, Create(p, d) PROVE Effect
    <2>1. holder[d] \in Asset
      BY <1>3, <1>7 DEF Create, Working
    <2>2. CASE UNCHANGED durable
      BY <1>1, <2>2
    <2>3. CASE MarkContentConflict(p)
      BY <1>4, <1>7, <2>3 DEF Create, Working
    <2>4. CASE ~MarkContentConflict(p) /\ ~UNCHANGED durable
      <3>1. Stored(d)
        BY <1>7, <2>1, <2>4 DEF Create, Stored
      <3> QED
        BY <3>1 DEF Effect
    <2> QED
      BY <2>2, <2>3, <2>4
  <1>8. ASSUME NEW p \in Proc, NEW d \in Digest, Receipt(p, d) PROVE Effect
    <2>1. holder[d] \in Asset /\ vault[d] = "same"
      BY <1>3, <1>8 DEF Receipt, Working, ProcInv, PhaseInv
    <2>2. CASE UNCHANGED durable
      BY <1>1, <2>2
    <2>3. CASE ~UNCHANGED durable
      <3>1. Receipted(d)
        BY <1>8, <2>1, <2>3 DEF Receipt, Receipted, Applied
      <3> QED
        BY <3>1 DEF Effect
    <2> QED
      BY <2>2, <2>3
  <1>9. ASSUME NEW p \in Proc, Project(p) PROVE Effect
    BY <1>1, <1>9 DEF Project, Effect, Same
  <1>10. ASSUME NEW p \in Proc, FinalizeReady(p) PROVE Effect
    <2>1. proc[p].asset \in Asset /\ proc[p].asset \in meta
      BY <1>2, <1>10 DEF FinalizeReady, Working, ProcInv, PhaseInv
    <2>2. CASE UNCHANGED durable
      BY <1>1, <2>2
    <2>3. CASE ~UNCHANGED durable
      <3>1. Finished(proc[p].asset)
        BY <1>10, <2>1, <2>3 DEF FinalizeReady, Finished
      <3> QED
        BY <2>1, <3>1 DEF Effect
    <2> QED
      BY <2>2, <2>3
  <1>11. ASSUME NEW p \in Proc, Index(p) PROVE Effect
    BY <1>11 DEF Index, Effect, Same
  <1>12. ASSUME NEW d \in Digest, Adopt(d) PROVE Effect
    <2>1. Recoverer \in Proc /\ proc[Recoverer].at \in Working /\ d \in proc[Recoverer].left
      BY <1>12 DEF Adopt, Working
    <2>2. holder[d] = proc[Recoverer].asset /\ proc[Recoverer].asset \in Asset
      BY <2>1 DEF ProcInv, AssetInv
    <2>3. op[d] # "conflict"
      BY <1>12, <2>2 DEF Adopt, LockInv, LedgerInv, ConflictIsWhole
    <2>4. CASE UNCHANGED durable
      BY <1>1, <2>4
    <2>5. CASE MarkContentConflict(Recoverer)
      BY <1>4, <2>1, <2>5
    <2>6. CASE ~MarkContentConflict(Recoverer) /\ ~UNCHANGED durable
      <3>1. Receipted(d)
        BY <1>12, <2>2, <2>3, <2>6 DEF Adopt, AdoptRefused, Receipted, Applied
      <3> QED
        BY <3>1 DEF Effect
    <2> QED
      BY <2>4, <2>5, <2>6
  <1>13. ASSUME NEW d \in Digest, Foreign(d) PROVE Effect
    BY <1>13 DEF Foreign, Occupied, Effect
  <1>16. ASSUME NEW d \in Digest, ApplyCommit(d) PROVE Effect
    BY <1>16 DEF ApplyCommit, Same, Effect
  <1>14. ASSUME NEW p \in Proc,
                \/ ResolveConflict(p) \/ ResolveDuplicate(p) \/ ResolvePending(p)
                \/ ResolveNone(p) \/ ReserveLost(p) \/ Hash(p) \/ Fails(p) \/ IndexWarns(p)
                \/ \E g \in Group : Take(p, g)
                \/ \E d \in Digest : Lookup(p, d)
         PROVE  Effect
    BY <1>1, <1>14 DEF ResolveConflict, ResolveDuplicate, ResolvePending, ResolveNone,
                       ReserveLost, Hash, Fails, IndexWarns, Take, Lookup
  <1>15. ASSUME \/ Stop \/ StartImport \/ EndImport \/ StartRecovery \/ EndRecovery \/ Skip
                \/ Adopted \/ (\E a \in Asset : Visit(a)) \/ UNCHANGED vars
                \/ \E f \in File : Edit(f) \/ Mount(f)
         PROVE  Effect
    <2>1. CASE \/ Stop \/ StartImport \/ EndImport \/ StartRecovery \/ EndRecovery \/ Skip
               \/ Adopted
      BY <1>1, <2>1 DEF Stop, StartImport, EndImport, StartRecovery, EndRecovery, Skip,
                        Unsettled, Adopted
    <2>2. CASE (\E a \in Asset : Visit(a)) \/ \E f \in File : Edit(f) \/ Mount(f)
      BY <1>1, <2>2 DEF Visit, Edit, Mount
    <2>3. CASE UNCHANGED vars
      <3>1. UNCHANGED durable
        BY <2>3 DEF vars, durable
      <3> QED
        BY <1>1, <3>1
    <2> QED
      BY <1>15, <2>1, <2>2, <2>3
  <1> QED
    BY <1>5, <1>6, <1>7, <1>8, <1>9, <1>10, <1>11, <1>12, <1>13, <1>14, <1>15, <1>16
       DEF Next, GroupStep, RecoveryStep, Outside

\* What no step takes back.
Stable ==
    /\ \A d \in Digest : holder[d] # NoAsset => holder'[d] = holder[d]
    /\ \A d \in Digest : vault[d] = "same" => vault'[d] = "same"
    /\ \A a \in Asset : asset[a] # "none" => asset'[a] # "none"
    /\ \A a \in Asset : asset[a] = "ready" => asset'[a] = "ready"
    /\ meta \subseteq meta'

LEMMA EffectStable == ASSUME TypeOK, Effect PROVE Stable
  <1>1. CASE Same
    BY <1>1 DEF Same, Stable
  <1>2. ASSUME NEW a \in Asset, Refused(a) PROVE Stable
    BY <1>2 DEF Refused, Stable, TypeOK
  <1>3. ASSUME NEW a \in Asset, Finished(a) PROVE Stable
    BY <1>3 DEF Finished, Stable, TypeOK
  <1>4. ASSUME NEW a \in Asset, NEW D \in SUBSET Digest, Reserved(a, D) PROVE Stable
    BY <1>4 DEF Reserved, Stable, TypeOK
  <1>5. ASSUME NEW d \in Digest, Occupied(d) PROVE Stable
    BY <1>5 DEF Occupied, Stable, TypeOK
  <1>6. ASSUME NEW d \in Digest, Stored(d) PROVE Stable
    BY <1>6 DEF Stored, Stable, TypeOK
  <1>7. ASSUME NEW d \in Digest, Receipted(d) PROVE Stable
    BY <1>7 DEF Receipted, Stable, TypeOK
  <1> QED
    BY <1>1, <1>2, <1>3, <1>4, <1>5, <1>6, <1>7 DEF Effect

LEMMA EffectLedger == ASSUME TypeOK, LedgerInv, Effect PROVE LedgerInv'
  <1> USE DEF LedgerInv, OpInv, ConflictIsWhole, ReadyIsComplete, Contents, Complete
  <1>1. CASE Same
    BY <1>1 DEF Same
  <1>2. ASSUME NEW a \in Asset, Refused(a) PROVE LedgerInv'
    BY <1>2 DEF Refused, TypeOK
  <1>3. ASSUME NEW a \in Asset, Finished(a) PROVE LedgerInv'
    BY <1>3 DEF Finished, TypeOK
  <1>4. ASSUME NEW a \in Asset, NEW D \in SUBSET Digest, Reserved(a, D) PROVE LedgerInv'
    BY <1>4 DEF Reserved, TypeOK
  <1>5. ASSUME NEW d \in Digest, Occupied(d) PROVE LedgerInv'
    BY <1>5 DEF Occupied, TypeOK
  <1>6. ASSUME NEW d \in Digest, Stored(d) PROVE LedgerInv'
    BY <1>6 DEF Stored, TypeOK
  <1>7. ASSUME NEW d \in Digest, Receipted(d) PROVE LedgerInv'
    BY <1>7 DEF Receipted, TypeOK
  <1> QED
    BY <1>1, <1>2, <1>3, <1>4, <1>5, <1>6, <1>7 DEF Effect

-----------------------------------------------------------------------------
(* What a process knows *)

\* A process that does not move keeps what it knows.
LEMMA StillKnows ==
    ASSUME IInv, Stable, NEW p \in Proc, proc'[p] = proc[p]
    PROVE  ProcInv(p)'
  <1>1. Sums(p)' = Sums(p) /\ Sums(p) \subseteq Digest
    BY SumsType DEF Sums, IInv
  <1>2. proc[p] \in Process
    BY DEF IInv, TypeOK
  <1>3. AssetInv(p)'
    BY <1>1, <1>2 DEF IInv, ProcInv, AssetInv, Stable, Process
  <1>4. KnownInv(p)'
    BY DEF IInv, ProcInv, KnownInv, Stable
  <1>5. PhaseInv(p)'
    <2>1. proc[p].at \in Working => proc[p].asset \in Asset /\ proc[p].now \subseteq Digest
      BY <1>2 DEF IInv, ProcInv, AssetInv, Process
    <2> QED
      BY <1>1, <2>1 DEF IInv, ProcInv, PhaseInv, Stable, Working
  <1> QED
    BY <1>3, <1>4, <1>5 DEF ProcInv

\* Only one process moves, or all of them stop.
LEMMA IdleKnows == ASSUME NEW p \in Proc, proc[p] = Idle PROVE ProcInv(p)
  BY DEF ProcInv, AssetInv, KnownInv, PhaseInv, Working, Idle, Unknown

LEMMA Others ==
    ASSUME IInv, Stable, NEW p \in Proc, NEW x, proc' = [proc EXCEPT ![p] = x], ProcInv(p)'
    PROVE  \A q \in Proc : ProcInv(q)'
  <1>1. ASSUME NEW q \in Proc, q # p PROVE ProcInv(q)'
    <2>1. proc'[q] = proc[q]
      BY <1>1 DEF IInv, TypeOK
    <2> QED
      BY <2>1, StillKnows
  <1> QED
    BY <1>1

LEMMA Ends ==
    ASSUME IInv, Stable, NEW p \in Proc, proc' = [proc EXCEPT ![p] = Idle]
    PROVE  \A q \in Proc : ProcInv(q)'
  <1>1. proc'[p] = Idle
    BY DEF IInv, TypeOK
  <1>2. ProcInv(p)'
    BY <1>1 DEF ProcInv, AssetInv, KnownInv, PhaseInv, Working, Idle, Unknown
  <1> QED
    BY <1>2, Others

LEMMA NextKnows == ASSUME IInv, [Next]_vars, Stable PROVE \A p \in Proc : ProcInv(p)'
  <1> USE DEF IInv
  <1>1. ASSUME NEW p \in Proc PROVE /\ proc[p] \in Process
                                    /\ Sums(p) \subseteq Digest
    BY SumsType DEF TypeOK
  <1>2. ASSUME NEW p \in Proc, NEW ok, Return(p, ok) PROVE \A q \in Proc : ProcInv(q)'
    BY <1>2, Ends DEF Return
  <1>3. ASSUME NEW p \in Proc, MarkContentConflict(p) PROVE \A q \in Proc : ProcInv(q)'
    BY <1>2, <1>3 DEF MarkContentConflict
  <1>4. ASSUME proc' = proc PROVE \A q \in Proc : ProcInv(q)'
    BY <1>4, StillKnows
  <1>5. ASSUME NEW p \in Proc, NEW g \in Group, Take(p, g) PROVE \A q \in Proc : ProcInv(q)'
    <2>1. proc'[p].at = "hash" /\ proc'[p].known = Unknown /\ proc'[p].now = {}
      BY <1>5 DEF Take, TypeOK, Idle
    <2>2. ProcInv(p)'
      BY <2>1 DEF ProcInv, AssetInv, KnownInv, PhaseInv, Working, Unknown
    <2> QED
      BY <1>5, <2>2, Others DEF Take
  <1>6. ASSUME NEW p \in Proc, Hash(p) PROVE \A q \in Proc : ProcInv(q)'
    <2>1. /\ proc'[p].at = "lookup" /\ proc'[p].known = proc[p].known
          /\ proc'[p].now = proc[p].now
      BY <1>1, <1>6 DEF Hash, TypeOK, Process
    <2>4. proc[p].now = {}
      BY <1>6 DEF Hash, ProcInv, PhaseInv
    <2>2. KnownInv(p)'
      BY <1>6, <2>1 DEF Hash, durable, ProcInv, KnownInv
    <2>3. ProcInv(p)'
      BY <2>1, <2>2, <2>4 DEF ProcInv, AssetInv, PhaseInv, Working
    <2> QED
      BY <1>6, <2>3, Others DEF Hash
  <1>7. ASSUME NEW p \in Proc, NEW d \in Digest, Lookup(p, d)
        PROVE  \A q \in Proc : ProcInv(q)'
    <2> DEFINE k == [proc[p].known EXCEPT ![d] = [asset |-> holder[d], status |-> op[d]]]
               x == [proc[p] EXCEPT !.left = proc[p].left \ {d}, !.known = k]
    <2>4. proc'[p] = x /\ proc[p].at = "lookup" /\ proc[p].now = {}
      BY <1>7 DEF Lookup, TypeOK, ProcInv, PhaseInv
    <2>1. proc'[p].at = "lookup" /\ proc'[p].known = k /\ proc'[p].now = {}
      <3> HIDE DEF k
      <3> QED
        BY <1>1, <2>4 DEF Process
    <2>2. KnownInv(p)'
      BY <1>1, <1>7, <2>1 DEF Lookup, durable, ProcInv, KnownInv, Process
    <2>3. ProcInv(p)'
      BY <2>1, <2>2 DEF ProcInv, AssetInv, PhaseInv, Working
    <2> QED
      BY <1>7, <2>3, Others DEF Lookup
  <1>8. ASSUME NEW p \in Proc, ResolvePending(p) PROVE \A q \in Proc : ProcInv(q)'
    <2> DEFINE rest == {d \in Sums(p) : proc[p].known[d].status # "applied"}
    <2>1. PICK a \in Asset :
            /\ Compatible(p, a) /\ asset[a] = "pending"
            /\ proc' = [proc EXCEPT ![p] = [@ EXCEPT
                 !.at = IF rest = {} THEN "project" ELSE "store",
                 !.asset = a, !.left = rest, !.known = Unknown]]
      BY <1>8 DEF ResolvePending
    <2>2. /\ proc'[p].at \in {"project", "store"} /\ proc'[p].asset = a
          /\ proc'[p].left = rest /\ proc'[p].known = Unknown
          /\ proc'[p].now = proc[p].now /\ proc'[p].sum = proc[p].sum
      <3> DEFINE phase == IF rest = {} THEN "project" ELSE "store"
      <3>1. proc'[p] = [proc[p] EXCEPT !.at = phase, !.asset = a, !.left = rest,
                                       !.known = Unknown]
        BY <2>1 DEF TypeOK
      <3>2. phase \in {"project", "store"}
        OBVIOUS
      <3> HIDE DEF rest, phase
      <3> QED
        BY <1>1, <3>1, <3>2 DEF Process
    <2>3. \A d \in Sums(p) : holder[d] = a
      <3>1. a # NoAsset /\ KnownInv(p) /\ Sums(p) \subseteq Digest
        BY <1>1 DEF ProcInv
      <3>2. HeldBy(p) = {a}
        BY <2>1 DEF Compatible
      <3>3. \A d \in Sums(p) : proc[p].known[d].asset = a
        BY <3>2 DEF HeldBy
      <3> QED
        BY <3>1, <3>3 DEF KnownInv
    <2>4. UNCHANGED <<asset, holder>> /\ Sums(p)' = Sums(p)
      BY <1>8, <2>2 DEF ResolvePending, durable, Sums
    <2>5. proc[p].now = {}
      BY <1>8 DEF ResolvePending, Resolved, PhaseInv, ProcInv
    <2>6. AssetInv(p)'
      BY <2>1, <2>2, <2>3, <2>4, <2>5 DEF AssetInv
    <2>7. KnownInv(p)' /\ PhaseInv(p)'
      BY <2>2, <2>5 DEF KnownInv, PhaseInv, Unknown
    <2> QED
      BY <2>1, <2>6, <2>7, Others DEF ProcInv
  <1>9. ASSUME NEW p \in Proc, ResolveNone(p) PROVE \A q \in Proc : ProcInv(q)'
    <2>1. CASE \E ok \in BOOLEAN : Return(p, ok)
      BY <1>2, <2>1
    <2>2. CASE Goto(p, "reserve")
      <3>1. /\ proc'[p].at = "reserve" /\ proc'[p].known = proc[p].known
            /\ proc'[p].now = proc[p].now /\ Sums(p)' = Sums(p)
        BY <1>1, <2>2 DEF Goto, TypeOK, Process, Sums
      <3>2. Sums(p) # {} /\ proc[p].now = {} /\ KnownInv(p) /\ UNCHANGED holder
        BY <1>9 DEF ResolveNone, Resolved, HeldBy, ProcInv, PhaseInv, durable
      <3>3. ProcInv(p)'
        BY <3>1, <3>2 DEF ProcInv, AssetInv, KnownInv, PhaseInv, Working
      <3> QED
        BY <2>2, <3>3, Others DEF Goto
    <2> QED
      BY <1>9, <2>1, <2>2 DEF ResolveNone
  <1>10. ASSUME NEW p \in Proc, Reserve(p) PROVE \A q \in Proc : ProcInv(q)'
    <2>1. NewAsset \in Asset
      BY <1>10, NewAssetFresh DEF Reserve
    <2>2. /\ proc'[p].at = "store" /\ proc'[p].asset = NewAsset
          /\ proc'[p].left = Sums(p) /\ proc'[p].known = Unknown
          /\ proc'[p].now = proc[p].now /\ Sums(p)' = Sums(p)
      BY <1>1, <1>10 DEF Reserve, TypeOK, Process, Sums
    <2>3. proc[p].now = {}
      BY <1>10 DEF Reserve, ProcInv, PhaseInv
    <2>4. asset'[NewAsset] = "pending" /\ \A d \in Sums(p) : holder'[d] = NewAsset
      BY <1>1, <1>10, <2>1 DEF Reserve, TypeOK
    <2>5. AssetInv(p)'
      BY <2>1, <2>2, <2>3, <2>4 DEF AssetInv
    <2>6. KnownInv(p)' /\ PhaseInv(p)'
      BY <2>2, <2>3 DEF KnownInv, PhaseInv, Unknown
    <2> QED
      BY <1>10, <2>5, <2>6, Others DEF Reserve, ProcInv
  <1>11. ASSUME NEW p \in Proc, ReserveLost(p) PROVE \A q \in Proc : ProcInv(q)'
    <2>1. /\ proc'[p].at = "lookup" /\ proc'[p].known = proc[p].known
          /\ proc'[p].now = proc[p].now
      BY <1>1, <1>11 DEF ReserveLost, TypeOK, Process
    <2>2. proc[p].now = {} /\ KnownInv(p) /\ UNCHANGED holder
      BY <1>11 DEF ReserveLost, ProcInv, PhaseInv, durable
    <2>3. ProcInv(p)'
      BY <2>1, <2>2 DEF ProcInv, AssetInv, KnownInv, PhaseInv, Working
    <2> QED
      BY <1>11, <2>3, Others DEF ReserveLost
  <1>12. ASSUME NEW p \in Proc, proc[p].at \in Working
         PROVE  /\ proc[p].asset \in Asset /\ asset'[proc[p].asset] # "none"
                /\ \A d \in Sums(p) : holder'[d] = proc[p].asset
                /\ \A d \in proc[p].left : holder'[d] = proc[p].asset
                /\ \A d \in Digest : proc[p].known[d].asset # NoAsset =>
                                       holder'[d] = proc[p].known[d].asset
    BY <1>1, <1>12 DEF ProcInv, AssetInv, KnownInv, Stable, Process
  <1>13. ASSUME NEW p \in Proc, NEW d \in Digest, Revalidate(p, d)
         PROVE  \A q \in Proc : ProcInv(q)'
    <2>1. CASE ~MarkContentConflict(p)
      <3>1. /\ proc'[p].at = "create" /\ proc'[p].now = {d}
            /\ proc'[p].asset = proc[p].asset /\ proc'[p].left = proc[p].left
            /\ proc'[p].known = proc[p].known /\ Sums(p)' = Sums(p)
            /\ proc[p].at \in Working /\ d \in proc[p].left
        <4>1. /\ proc'[p] = [proc[p] EXCEPT !.at = "create", !.now = {d}]
              /\ proc[p].at = "store" /\ d \in proc[p].left
          BY <1>13, <2>1 DEF Revalidate, TypeOK
        <4> QED
          BY <1>1, <4>1 DEF Process, Sums, Working
      <3>2. ProcInv(p)'
        BY <1>12, <3>1 DEF ProcInv, AssetInv, KnownInv, PhaseInv
      <3> QED
        BY <1>13, <2>1, <3>2, Others DEF Revalidate
    <2> QED
      BY <1>3, <2>1
  <1>14. ASSUME NEW p \in Proc, NEW d \in Digest, Create(p, d)
         PROVE  \A q \in Proc : ProcInv(q)'
    <2>1. CASE ~MarkContentConflict(p) /\ ~\E ok \in BOOLEAN : Return(p, ok)
      <3>1. /\ proc'[p].at = "receipt" /\ proc'[p].now = proc[p].now
            /\ proc'[p].asset = proc[p].asset /\ proc'[p].left = proc[p].left
            /\ proc'[p].known = proc[p].known /\ Sums(p)' = Sums(p)
            /\ proc[p].at \in Working /\ d \in proc[p].now
            /\ vault' = [vault EXCEPT ![d] = "same"]
        <4>1. /\ proc'[p] = [proc[p] EXCEPT !.at = "receipt"]
              /\ proc[p].at = "create" /\ d \in proc[p].now
              /\ vault' = [vault EXCEPT ![d] = "same"]
          BY <1>14, <2>1 DEF Create, TypeOK
        <4> QED
          BY <1>1, <4>1 DEF Process, Sums, Working
      <3>2. proc[p].now = {d} /\ proc[p].now \subseteq proc[p].left
        BY <1>14, <3>1 DEF Create, ProcInv, PhaseInv, AssetInv
      <3>3. AssetInv(p)' /\ KnownInv(p)'
        BY <1>12, <3>1, <3>2 DEF AssetInv, KnownInv
      <3>4. PhaseInv(p)'
        BY <3>1, <3>2 DEF PhaseInv, TypeOK
      <3> QED
        BY <1>14, <2>1, <3>3, <3>4, Others DEF Create, ProcInv
    <2> QED
      BY <1>2, <1>3, <2>1
  <1>15. ASSUME NEW p \in Proc, NEW d \in Digest, Receipt(p, d)
         PROVE  \A q \in Proc : ProcInv(q)'
    <2>1. CASE ~\E ok \in BOOLEAN : Return(p, ok)
      <3>1. /\ proc'[p].at \in {"project", "store"} /\ proc'[p].now = {}
            /\ proc'[p].asset = proc[p].asset /\ proc'[p].left = proc[p].left \ {d}
            /\ proc'[p].known = proc[p].known /\ Sums(p)' = Sums(p)
            /\ proc[p].at \in Working
        <4>1. /\ proc'[p] = [proc[p] EXCEPT
                               !.at = IF proc[p].left = {d} THEN "project" ELSE "store",
                               !.left = proc[p].left \ {d}, !.now = {}]
              /\ proc[p].at = "receipt"
          BY <1>15, <2>1 DEF Receipt, TypeOK
        <4> QED
          BY <1>1, <4>1 DEF Process, Sums, Working
      <3>2. ProcInv(p)'
        BY <1>12, <3>1 DEF ProcInv, AssetInv, KnownInv, PhaseInv
      <3> QED
        BY <1>15, <2>1, <3>2, Others DEF Receipt
    <2> QED
      BY <1>2, <2>1
  <1>16. ASSUME NEW p \in Proc, NEW phase \in {"project", "finalize", "index"},
                proc[p].at \in {"adopt", "project", "finalize"}, Goto(p, phase),
                phase = "finalize" => proc[p].asset \in meta',
                phase = "index" => asset'[proc[p].asset] = "ready"
         PROVE  \A q \in Proc : ProcInv(q)'
    <2>1. /\ proc'[p].at = phase /\ proc'[p].now = proc[p].now
          /\ proc'[p].asset = proc[p].asset /\ proc'[p].left = proc[p].left
          /\ proc'[p].known = proc[p].known /\ Sums(p)' = Sums(p)
          /\ proc[p].at \in Working
      BY <1>1, <1>16 DEF Goto, TypeOK, Process, Sums, Working
    <2>2. proc[p].now = {}
      BY <1>16 DEF ProcInv, PhaseInv
    <2>3. ProcInv(p)'
      BY <1>12, <1>16, <2>1, <2>2 DEF ProcInv, AssetInv, KnownInv, PhaseInv
    <2> QED
      BY <1>16, <2>3, Others DEF Goto
  <1>17. ASSUME NEW p \in Proc, Project(p) PROVE \A q \in Proc : ProcInv(q)'
    BY <1>2, <1>16, <1>17 DEF Project
  <1>18. ASSUME NEW p \in Proc, FinalizeReady(p) PROVE \A q \in Proc : ProcInv(q)'
    <2>1. proc[p].asset \in Asset
      BY <1>12, <1>18 DEF FinalizeReady, Working
    <2> QED
      BY <1>2, <1>16, <1>18, <2>1 DEF FinalizeReady, TypeOK
  <1>19. ASSUME NEW p \in Proc, Index(p) \/ IndexWarns(p) \/ ResolveConflict(p)
                                  \/ ResolveDuplicate(p)
         PROVE  \A q \in Proc : ProcInv(q)'
    BY <1>2, <1>19 DEF Index, IndexWarns, ResolveConflict, ResolveDuplicate
  <1>20. ASSUME NEW p \in Proc, Fails(p) PROVE \A q \in Proc : ProcInv(q)'
    BY <1>20, Ends DEF Fails
  <1>21. ASSUME Stop PROVE \A q \in Proc : ProcInv(q)'
    BY <1>21 DEF Stop, ProcInv, AssetInv, KnownInv, PhaseInv, Working, Idle, Unknown
  <1>22. ASSUME NEW a \in Asset, Visit(a) PROVE \A q \in Proc : ProcInv(q)'
    <2>1. CASE proc' # proc
      <3> DEFINE r == Recoverer
      <3>1. /\ proc'[r].at = "adopt" /\ proc'[r].now = {} /\ proc'[r].asset = a
            /\ proc'[r].left = {d \in Contents(a) : op[d] = "pending"}
            /\ proc'[r].known = Unknown /\ proc'[r].sum = {}
        <4>1. proc'[r] = [Idle EXCEPT !.at = "adopt", !.asset = a,
                            !.left = {d \in Contents(a) : op[d] = "pending"}]
          BY <1>22, <2>1 DEF Visit, TypeOK
        <4> QED
          BY <4>1 DEF Idle
      <3>2. asset'[a] # "none" /\ UNCHANGED holder
        BY <1>22 DEF Visit, durable, LockInv
      <3>3. AssetInv(r)'
        BY <3>1, <3>2 DEF AssetInv, Sums, Contents
      <3>4. KnownInv(r)' /\ PhaseInv(r)'
        BY <3>1 DEF KnownInv, PhaseInv, Unknown
      <3> QED
        BY <1>22, <2>1, <3>3, <3>4, Others DEF Visit, ProcInv
    <2> QED
      BY <1>4, <2>1
  <1>23. ASSUME NEW d \in Digest, Adopt(d) PROVE \A q \in Proc : ProcInv(q)'
    <2> DEFINE r == Recoverer
    <2>1. CASE ~MarkContentConflict(r) /\ ~AdoptRefused
      <3>1. /\ proc'[r].at = "adopt" /\ proc'[r].now = proc[r].now
            /\ proc'[r].asset = proc[r].asset /\ proc'[r].left = proc[r].left \ {d}
            /\ proc'[r].known = proc[r].known /\ Sums(r)' = Sums(r)
            /\ proc[r].at = "adopt" /\ proc[r].at \in Working
        BY <1>23, <2>1, AdoptKept DEF TypeOK, Adopting, Sums, Working
      <3>2. proc[r].now = {}
        BY <3>1 DEF ProcInv, PhaseInv
      <3>3. ProcInv(r)'
        BY <1>12, <3>1, <3>2 DEF ProcInv, AssetInv, KnownInv, PhaseInv
      <3> QED
        BY <1>23, <2>1, <3>3, Others DEF Adopt
    <2>2. CASE AdoptRefused
      BY <2>2, Ends DEF AdoptRefused
    <2> QED
      BY <1>3, <1>23, <2>1, <2>2
  <1>24. ASSUME Adopted PROVE \A q \in Proc : ProcInv(q)'
    BY <1>2, <1>16, <1>24 DEF Adopted
  <1>25. ASSUME \/ StartImport \/ EndImport \/ StartRecovery \/ EndRecovery \/ Skip \/ Outside
                \/ UNCHANGED vars
         PROVE  \A q \in Proc : ProcInv(q)'
    BY <1>4, <1>25 DEF StartImport, EndImport, StartRecovery, EndRecovery, Skip, Unsettled,
                       Outside, Edit, Mount, Foreign, ApplyCommit, vars
  <1> QED
    BY <1>3, <1>5, <1>6, <1>7, <1>8, <1>9, <1>10, <1>11, <1>13, <1>14, <1>15, <1>17,
       <1>18, <1>19, <1>20, <1>21, <1>22, <1>23, <1>24, <1>25
       DEF Next, GroupStep, RecoveryStep

\* Nothing is reported that is not ready.
LEMMA NextReported == ASSUME IInv, [Next]_vars, Stable PROVE SuccessIsDurable'
  <1> USE DEF IInv
  <1>1. ASSUME reported' = reported PROVE SuccessIsDurable'
    BY <1>1 DEF SuccessIsDurable, Stable, TypeOK
  <1>2. ASSUME NEW p \in Proc, NEW ok \in BOOLEAN, Return(p, ok),
               ok => \E a \in Asset : asset[a] = "ready" /\ \A d \in Sums(p) : holder[d] = a
        PROVE  SuccessIsDurable'
    <2>1. CASE ~ok
      BY <1>1, <1>2, <2>1 DEF Return
    <2>2. CASE ok
      <3>1. PICK a \in Asset : asset[a] = "ready" /\ \A d \in Sums(p) : holder[d] = a
        BY <1>2, <2>2
      <3>2. asset'[a] = "ready" /\ \A d \in Sums(p) : holder'[d] = a
        BY <3>1, SumsType DEF Stable
      <3>3. reported' = reported \cup Sums(p)
        BY <1>2, <2>2 DEF Return
      <3>4. ASSUME NEW d \in reported PROVE \E b \in Asset : holder'[d] = b /\ asset'[b] = "ready"
        BY DEF SuccessIsDurable, Stable, TypeOK
      <3> QED
        BY <3>2, <3>3, <3>4 DEF SuccessIsDurable
    <2> QED
      BY <2>1, <2>2
  <1>3. ASSUME NEW p \in Proc, MarkContentConflict(p), proc[p].at \in Working
        PROVE  SuccessIsDurable'
    <2>1. PICK ok \in BOOLEAN : Return(p, ok) /\ (ok => asset[proc[p].asset] = "ready")
      BY <1>3 DEF MarkContentConflict
    <2>2. proc[p].asset \in Asset /\ \A d \in Sums(p) : holder[d] = proc[p].asset
      BY <1>3 DEF ProcInv, AssetInv
    <2> QED
      BY <1>2, <2>1, <2>2
  <1>4. ASSUME NEW p \in Proc, Index(p) \/ IndexWarns(p) PROVE SuccessIsDurable'
    <2>1. /\ proc[p].asset \in Asset /\ \A d \in Sums(p) : holder[d] = proc[p].asset
          /\ asset[proc[p].asset] = "ready"
      BY <1>4 DEF Index, IndexWarns, ProcInv, AssetInv, PhaseInv, Working
    <2>2. Return(p, TRUE)
      BY <1>4 DEF Index, IndexWarns
    <2> QED
      BY <1>2, <2>1, <2>2
  <1>5. ASSUME NEW p \in Proc, ResolveDuplicate(p) PROVE SuccessIsDurable'
    <2>1. PICK a \in Asset : Compatible(p, a) /\ asset[a] = "ready"
      BY <1>5 DEF ResolveDuplicate
    <2>2. \A d \in Sums(p) : holder[d] = a
      BY <2>1, SumsType DEF Compatible, HeldBy, ProcInv, KnownInv
    <2>3. Return(p, TRUE)
      BY <1>5 DEF ResolveDuplicate
    <2> QED
      BY <1>2, <2>1, <2>2, <2>3
  <1>6. ASSUME NEW p \in Proc, Return(p, FALSE) PROVE SuccessIsDurable'
    BY <1>2, <1>6
  <1>7. ASSUME NEW p \in Proc, NEW d \in Digest, Revalidate(p, d) PROVE SuccessIsDurable'
    BY <1>1, <1>3, <1>7 DEF Revalidate, Working
  <1>8. ASSUME NEW p \in Proc, NEW d \in Digest, Create(p, d) PROVE SuccessIsDurable'
    BY <1>1, <1>3, <1>6, <1>8 DEF Create, Working
  <1>9. ASSUME NEW d \in Digest, Adopt(d) PROVE SuccessIsDurable'
    BY <1>1, <1>3, <1>9 DEF Adopt, AdoptRefused, Working
  <1>10. ASSUME NEW p \in Proc,
                \/ ResolveConflict(p) \/ ResolvePending(p) \/ ResolveNone(p) \/ Reserve(p)
                \/ ReserveLost(p) \/ Hash(p) \/ Fails(p) \/ Project(p) \/ FinalizeReady(p)
                \/ \E g \in Group : Take(p, g)
                \/ \E d \in Digest : Lookup(p, d) \/ Receipt(p, d)
         PROVE  SuccessIsDurable'
    BY <1>1, <1>6, <1>10 DEF ResolveConflict, ResolvePending, ResolveNone, Reserve, ReserveLost,
                             Hash, Fails, Project, FinalizeReady, Take, Lookup, Receipt, Goto
  <1>11. ASSUME \/ Stop \/ StartImport \/ EndImport \/ StartRecovery \/ EndRecovery \/ Skip
                \/ Adopted \/ (\E a \in Asset : Visit(a)) \/ Outside \/ UNCHANGED vars
         PROVE  SuccessIsDurable'
    BY <1>1, <1>6, <1>11 DEF Stop, StartImport, EndImport, StartRecovery, EndRecovery, Skip,
                             Unsettled, Adopted, Visit, Outside, Edit, Mount, Foreign, ApplyCommit, Goto, vars
  <1> QED
    BY <1>4, <1>5, <1>7, <1>8, <1>9, <1>10, <1>11
       DEF Next, GroupStep, RecoveryStep

\* Sources are changed by others only.
LEMMA StepEdits == ASSUME [Next]_vars PROVE Outside \/ UNCHANGED <<source, edits>>
  <1>1. ASSUME NEW p \in Proc,
               GroupStep(p) \/ Fails(p) \/ IndexWarns(p)
        PROVE  UNCHANGED <<source, edits>>
    BY <1>1 DEF GroupStep, Take, Hash, Lookup, Revalidate, Create, Receipt, ResolveConflict,
                ResolveDuplicate, ResolvePending, ResolveNone, Reserve, ReserveLost, Project,
                FinalizeReady, Index, Fails, IndexWarns, Goto, Return, MarkContentConflict
  <1>2. ASSUME RecoveryStep \/ Skip \/ EndImport \/ EndRecovery \/ StartImport
               \/ StartRecovery \/ Stop \/ UNCHANGED vars
        PROVE  UNCHANGED <<source, edits>>
    BY <1>2 DEF RecoveryStep, Visit, Adopt, AdoptRefused, Adopted, Skip, Unsettled, EndImport, EndRecovery,
                StartImport, StartRecovery, Stop, Goto, Return, MarkContentConflict, vars
  <1> QED
    BY <1>1, <1>2 DEF Next

LEMMA NextStamp == ASSUME TypeOK, StampInv, [Next]_vars PROVE StampInv'
  <1>1. CASE UNCHANGED <<source, edits>>
    BY <1>1 DEF StampInv
  <1>2. ASSUME NEW f \in File, Edit(f) PROVE StampInv'
    <2>1. PICK d \in Digest, trace \in 0..1 :
            /\ edits' = edits + 1
            /\ source' = [source EXCEPT ![f] = [@ EXCEPT
                            !.digest = d, !.stamp = source[f].stamp + trace]]
      BY <1>2 DEF Edit
    <2>2. \A g \in File : source'[g].stamp \in {source[g].stamp, source[g].stamp + trace}
      BY <2>1 DEF TypeOK
    <2> QED
      BY <2>1, <2>2 DEF StampInv, TypeOK
  <1>3. ASSUME NEW f \in File, Mount(f) PROVE StampInv'
    <2>1. \A g \in File : source'[g].stamp = source[g].stamp
      BY <1>3 DEF Mount, TypeOK
    <2> QED
      BY <1>3, <2>1 DEF Mount, StampInv, TypeOK
  <1>4. ASSUME NEW d \in Digest, Foreign(d) PROVE StampInv'
    BY <1>4 DEF Foreign, StampInv, TypeOK
  <1>5. ASSUME NEW d \in Digest, ApplyCommit(d) PROVE StampInv'
    BY <1>5 DEF ApplyCommit, StampInv
  <1> QED
    BY <1>1, <1>2, <1>3, <1>4, <1>5, StepEdits DEF Outside

LEMMA NextLock == ASSUME IInv, [Next]_vars, Stable PROVE LockInv'
  <1> USE DEF IInv
  <1>1. /\ \A a \in Asset : asset[a] # "none" => asset'[a] # "none"
        /\ visit \subseteq Asset /\ \A a \in visit : asset[a] # "none"
    BY DEF Stable, TypeOK, LockInv
  <1>2. ASSUME NEW p \in Proc, proc' = [proc EXCEPT ![p] = Idle], lock' = lock,
               visit' \subseteq visit,
               lock = "recover" => p = Recoverer \/ UNCHANGED asset
        PROVE  LockInv'
    <2>1. \A q \in Proc : proc'[q] = IF q = p THEN Idle ELSE proc[q]
      BY <1>2 DEF TypeOK
    <2> QED
      BY <1>1, <1>2, <2>1 DEF LockInv, Idle
  <1>3. ASSUME NEW p \in Proc, NEW ok, Return(p, ok), UNCHANGED asset PROVE LockInv'
    BY <1>2, <1>3 DEF Return
  <1>4. ASSUME NEW p \in Proc, proc[p].at # "idle", MarkContentConflict(p) PROVE LockInv'
    <2>1. lock = "recover" => p = Recoverer
      BY <1>4 DEF LockInv
    <2> QED
      BY <1>2, <1>4, <2>1 DEF MarkContentConflict, Return
  <1>5. ASSUME NEW p \in Proc, proc[p].at # "idle", proc'[p].at # "adopt",
               \A q \in Proc \ {p} : proc'[q] = proc[q],
               lock' = lock, visit' = visit
        PROVE  LockInv'
    <2>1. lock = "recover" => p = Recoverer
      BY <1>5 DEF LockInv
    <2> QED
      BY <1>1, <1>5, <2>1 DEF LockInv
  <1>6. ASSUME NEW p \in Proc, NEW x, proc' = [proc EXCEPT ![p] = x]
        PROVE  proc'[p] = x /\ \A q \in Proc \ {p} : proc'[q] = proc[q]
    BY <1>6 DEF TypeOK
  <1>7. \A p \in Proc : proc[p] \in Process
    BY DEF TypeOK
  <1>8. ASSUME NEW p \in Proc, NEW phase, phase # "adopt", proc[p].at # "idle", Goto(p, phase)
        PROVE  LockInv'
    <2>1. proc'[p] = [proc[p] EXCEPT !.at = phase] /\ \A q \in Proc \ {p} : proc'[q] = proc[q]
      BY <1>6, <1>8 DEF Goto
    <2>2. proc'[p].at = phase
      BY <1>7, <2>1 DEF Process
    <2> QED
      BY <1>5, <1>8, <2>1, <2>2 DEF Goto
  <1>9. ASSUME NEW p \in Proc, NEW g \in Group, Take(p, g) PROVE LockInv'
    <2>1. p \in Worker /\ lock = "import" /\ UNCHANGED <<asset, lock, visit>>
      BY <1>9 DEF Take, durable
    <2>2. \A q \in Proc \ {p} : proc'[q] = proc[q]
      BY <1>6, <1>9 DEF Take
    <2> QED
      BY <2>1, <2>2 DEF LockInv
  <1>10. ASSUME NEW p \in Proc, Hash(p) PROVE LockInv'
    <2> DEFINE sums == {<<f, source[f].digest>> : f \in proc[p].group}
               x == [proc[p] EXCEPT !.at = "lookup", !.sum = sums,
                                    !.left = {y[2] : y \in sums}]
    <2>1. proc'[p] = x /\ \A q \in Proc \ {p} : proc'[q] = proc[q]
      BY <1>6, <1>10 DEF Hash
    <2>2. x.at = "lookup"
      BY <1>7 DEF Process
    <2> HIDE DEF x
    <2> QED
      BY <1>5, <1>10, <2>1, <2>2 DEF Hash
  <1>11. ASSUME NEW p \in Proc, NEW d \in Digest, Lookup(p, d) PROVE LockInv'
    <2> DEFINE k == [proc[p].known EXCEPT ![d] = [asset |-> holder[d], status |-> op[d]]]
               x == [proc[p] EXCEPT !.left = proc[p].left \ {d}, !.known = k]
    <2>1. proc'[p] = x /\ \A q \in Proc \ {p} : proc'[q] = proc[q]
      BY <1>6, <1>11 DEF Lookup
    <2>2. x.at = proc[p].at
      <3> HIDE DEF k
      <3> QED
        BY <1>7 DEF Process
    <2> HIDE DEF x
    <2> QED
      BY <1>5, <1>11, <2>1, <2>2 DEF Lookup
  <1>12. ASSUME NEW p \in Proc, ResolvePending(p) PROVE LockInv'
    <2> DEFINE rest == {d \in Sums(p) : proc[p].known[d].status # "applied"}
               phase == IF rest = {} THEN "project" ELSE "store"
    <2>1. PICK a \in Asset : proc' = [proc EXCEPT ![p] = [@ EXCEPT
                 !.at = phase, !.asset = a, !.left = rest, !.known = Unknown]]
      BY <1>12 DEF ResolvePending
    <2> DEFINE x == [proc[p] EXCEPT !.at = phase, !.asset = a, !.left = rest,
                                    !.known = Unknown]
    <2>2. proc'[p] = x /\ \A q \in Proc \ {p} : proc'[q] = proc[q]
      BY <1>6, <2>1
    <2>3. phase # "adopt"
      OBVIOUS
    <2>4. x.at # "adopt"
      <3> HIDE DEF phase, rest
      <3> QED
        BY <1>7, <2>3 DEF Process
    <2> HIDE DEF x, phase, rest
    <2> QED
      BY <1>5, <1>12, <2>2, <2>4 DEF ResolvePending, Resolved
  <1>13. ASSUME NEW p \in Proc, Reserve(p) PROVE LockInv'
    <2>1. /\ proc'[p] = [proc[p] EXCEPT !.at = "store", !.asset = NewAsset, !.left = Sums(p),
                                        !.known = Unknown]
          /\ \A q \in Proc \ {p} : proc'[q] = proc[q]
      BY <1>6, <1>13 DEF Reserve
    <2>2. proc'[p].at = "store"
      BY <1>7, <2>1 DEF Process
    <2> QED
      BY <1>5, <1>13, <2>1, <2>2 DEF Reserve
  <1>14. ASSUME NEW p \in Proc, ReserveLost(p) PROVE LockInv'
    <2>1. /\ proc'[p] = [proc[p] EXCEPT !.at = "lookup", !.left = Sums(p), !.again = TRUE]
          /\ \A q \in Proc \ {p} : proc'[q] = proc[q]
      BY <1>6, <1>14 DEF ReserveLost
    <2>2. proc'[p].at = "lookup"
      BY <1>7, <2>1 DEF Process
    <2> QED
      BY <1>5, <1>14, <2>1, <2>2 DEF ReserveLost
  <1>15. ASSUME NEW p \in Proc, NEW d \in Digest, Revalidate(p, d) PROVE LockInv'
    <2>1. CASE ~MarkContentConflict(p)
      <3>1. /\ proc'[p] = [proc[p] EXCEPT !.at = "create", !.now = {d}]
            /\ \A q \in Proc \ {p} : proc'[q] = proc[q]
        BY <1>6, <1>15, <2>1 DEF Revalidate
      <3>2. proc'[p].at = "create"
        BY <1>7, <3>1 DEF Process
      <3> QED
        BY <1>5, <1>15, <2>1, <3>1, <3>2 DEF Revalidate
    <2> QED
      BY <1>4, <1>15, <2>1 DEF Revalidate
  <1>16. ASSUME NEW p \in Proc, NEW d \in Digest, Create(p, d) PROVE LockInv'
    <2>1. CASE MarkContentConflict(p)
      BY <1>4, <1>16, <2>1 DEF Create
    <2>2. CASE Return(p, FALSE) /\ UNCHANGED durable
      BY <1>3, <2>2 DEF durable
    <2>3. CASE /\ proc' = [proc EXCEPT ![p] = [@ EXCEPT !.at = "receipt"]]
               /\ UNCHANGED <<lock, visit>>
      <3>1. /\ proc'[p] = [proc[p] EXCEPT !.at = "receipt"]
            /\ \A q \in Proc \ {p} : proc'[q] = proc[q]
        BY <1>6, <2>3
      <3>2. proc'[p].at = "receipt" /\ proc[p].at # "idle"
        BY <1>7, <1>16, <3>1 DEF Process, Create
      <3> QED
        BY <1>5, <2>3, <3>1, <3>2
    <2> QED
      BY <1>16, <2>1, <2>2, <2>3 DEF Create
  <1>17. ASSUME NEW p \in Proc, NEW d \in Digest, Receipt(p, d) PROVE LockInv'
    <2>1. CASE Return(p, FALSE) /\ UNCHANGED durable
      BY <1>3, <2>1 DEF durable
    <2>2. CASE ~(Return(p, FALSE) /\ UNCHANGED durable)
      <3> DEFINE phase == IF proc[p].left = {d} THEN "project" ELSE "store"
                 x == [proc[p] EXCEPT !.at = phase, !.left = proc[p].left \ {d}, !.now = {}]
      <3>1. proc'[p] = x /\ \A q \in Proc \ {p} : proc'[q] = proc[q]
        BY <1>6, <1>17, <2>2 DEF Receipt
      <3>2. phase # "adopt"
        OBVIOUS
      <3>3. x.at # "adopt"
        <4> HIDE DEF phase
        <4> QED
          BY <1>7, <3>2 DEF Process
      <3> HIDE DEF x
      <3> QED
        BY <1>5, <1>17, <2>2, <3>1, <3>3 DEF Receipt
    <2> QED
      BY <1>17, <2>1, <2>2 DEF Receipt
  <1>18. ASSUME NEW p \in Proc, Project(p) PROVE LockInv'
    BY <1>3, <1>8, <1>18 DEF Project, durable
  <1>19. ASSUME NEW p \in Proc, FinalizeReady(p) PROVE LockInv'
    BY <1>3, <1>8, <1>19 DEF FinalizeReady, durable
  <1>20. ASSUME NEW p \in Proc, \/ Index(p) \/ IndexWarns(p) \/ ResolveConflict(p)
                                \/ ResolveDuplicate(p) \/ ResolveNone(p)
         PROVE  LockInv'
    BY <1>3, <1>8, <1>20 DEF Index, IndexWarns, ResolveConflict, ResolveDuplicate, ResolveNone,
                             Resolved, durable
  <1>21. ASSUME NEW p \in Proc, Fails(p) PROVE LockInv'
    <2>1. proc'[p] = Idle /\ \A q \in Proc \ {p} : proc'[q] = proc[q]
      BY <1>6, <1>21 DEF Fails
    <2>2. CASE p = Recoverer
      <3>1. \A q \in Proc : proc'[q].at = "idle"
        BY <1>21, <2>1, <2>2 DEF Fails, LockInv, Idle
      <3> QED
        BY <1>1, <1>21, <3>1 DEF Fails, LockInv
    <2>3. CASE p # Recoverer
      BY <1>1, <1>21, <2>1, <2>3 DEF Fails, LockInv, Idle, durable
    <2> QED
      BY <2>2, <2>3
  <1>22. ASSUME Stop PROVE LockInv'
    BY <1>22 DEF Stop, LockInv, Idle
  <1>23. ASSUME StartImport \/ StartRecovery \/ Skip PROVE LockInv'
    BY <1>1, <1>23 DEF StartImport, StartRecovery, Skip, Unsettled, LockInv, durable
  <1>24. ASSUME EndImport \/ EndRecovery PROVE LockInv'
    BY <1>1, <1>24 DEF EndImport, EndRecovery, LockInv, durable
  <1>25. ASSUME NEW a \in Asset, Visit(a) PROVE LockInv'
    <2>1. CASE proc' = proc
      BY <1>1, <1>25, <2>1 DEF Visit, LockInv, durable
    <2>2. CASE proc' # proc
      <3> DEFINE l == {d \in Contents(a) : op[d] = "pending"}
      <3>1. /\ proc'[Recoverer] = [Idle EXCEPT !.at = "adopt", !.asset = a, !.left = l]
            /\ \A q \in Proc \ {Recoverer} : proc'[q] = proc[q]
            /\ lock = "recover" /\ UNCHANGED <<lock, visit, asset>> /\ asset[a] # "conflict"
        BY <1>6, <1>25, <2>2 DEF Visit, durable
      <3>2. proc'[Recoverer].asset = a
        <4> HIDE DEF l
        <4> QED
          BY <3>1 DEF Idle
      <3> QED
        BY <1>1, <3>1, <3>2 DEF LockInv
    <2> QED
      BY <2>1, <2>2
  <1>26. ASSUME NEW d \in Digest, Adopt(d) PROVE LockInv'
    <2> DEFINE r == Recoverer
    <2>1. CASE MarkContentConflict(r)
      BY <1>4, <1>26, <2>1 DEF Adopt
    <2>3. CASE AdoptRefused
      <3>1. proc[r].at = "adopt" /\ lock = "recover" /\ \A q \in Worker : proc[q].at = "idle"
        BY <1>26 DEF Adopt, LockInv
      <3>2. proc'[r] = Idle /\ \A q \in Proc \ {r} : proc'[q] = proc[q]
        BY <1>6, <2>3 DEF AdoptRefused
      <3>3. \A q \in Proc : proc'[q].at = "idle"
        BY <3>1, <3>2 DEF Idle
      <3> QED
        BY <2>3, <3>3 DEF AdoptRefused, LockInv
    <2>2. CASE ~MarkContentConflict(r) /\ ~AdoptRefused
      <3>1. /\ proc'[r].at = "adopt" /\ proc'[r].asset = proc[r].asset
            /\ \A q \in Proc \ {r} : proc'[q] = proc[q]
            /\ proc[r].at = "adopt" /\ UNCHANGED <<asset, lock, visit>>
        BY <1>26, <2>2, AdoptKept DEF TypeOK, Adopting
      <3> QED
        BY <1>1, <3>1 DEF LockInv
    <2> QED
      BY <2>1, <2>2, <2>3
  <1>27. ASSUME Adopted PROVE LockInv'
    BY <1>3, <1>8, <1>27 DEF Adopted, durable
  <1>28. ASSUME Outside \/ UNCHANGED vars PROVE LockInv'
    <2>1. UNCHANGED <<asset, lock, visit, proc>>
      BY <1>28 DEF Outside, Edit, Mount, Foreign, ApplyCommit, vars, durable
    <2> QED
      BY <2>1 DEF LockInv
  <1> QED
    BY <1>9, <1>10, <1>11, <1>12, <1>13, <1>15, <1>14, <1>16, <1>17, <1>18, <1>19, <1>20,
       <1>21, <1>22, <1>23, <1>24, <1>25, <1>26, <1>27, <1>28
       DEF Next, GroupStep, RecoveryStep

-----------------------------------------------------------------------------
(* Theorems *)

LEMMA InitInv == Init => IInv
  <1> SUFFICES ASSUME Init PROVE IInv
    OBVIOUS
  <1>1. TypeOK
    BY InitType
  <1>2. StampInv
    <2>1. \A f \in File : source[f].stamp = 0
      BY DEF Init
    <2> QED
      BY <2>1 DEF StampInv, Init
  <1>3. LedgerInv
    <2>1. \A d \in Digest : holder[d] = NoAsset /\ op[d] = "none" /\ vault[d] = "absent"
      BY DEF Init
    <2>2. \A a \in Asset : asset[a] = "none"
      BY DEF Init
    <2>3. \A d \in Digest : OpInv(d)
      BY <2>1 DEF OpInv
    <2>4. ConflictIsWhole
      BY <2>1 DEF ConflictIsWhole
    <2>5. ReadyIsComplete
      BY <2>2 DEF ReadyIsComplete
    <2> QED
      BY <2>3, <2>4, <2>5 DEF LedgerInv
  <1>4. \A p \in Proc : ProcInv(p)
    BY IdleKnows DEF Init
  <1>5. LockInv /\ SuccessIsDurable
    BY DEF Init, LockInv, SuccessIsDurable, Idle
  <1> QED
    BY <1>1, <1>2, <1>3, <1>4, <1>5 DEF IInv

LEMMA NextInv == IInv /\ [Next]_vars => IInv'
  <1> SUFFICES ASSUME IInv, [Next]_vars PROVE IInv'
    OBVIOUS
  <1>1. Effect
    BY StepEffect
  <1>2. Stable
    BY <1>1, EffectStable DEF IInv
  <1>3. TypeOK'
    BY NextType DEF IInv, ProcInv
  <1>4. LedgerInv'
    BY <1>1, EffectLedger DEF IInv
  <1> QED
    BY <1>2, <1>3, <1>4, NextStamp, NextKnows, NextLock, NextReported DEF IInv

LEMMA Invariance == Spec => []IInv
  BY InitInv, NextInv, PTL DEF Spec

\* The catalog rows, Docbank and the processes keep the values the code can give them.
THEOREM TypeCorrect == Spec => []TypeOK
  BY Invariance, PTL DEF IInv

\* FinalizeReady never lets an asset through whose contents are not all in Docbank under
\* the reserved paths, whichever workers stored them.
THEOREM ReadyComplete == Spec => []ReadyIsComplete
  BY Invariance, PTL DEF IInv, LedgerInv

\* What an import reports as imported or duplicate is in the library from then on.
THEOREM SuccessDurable == Spec => []SuccessIsDurable
  BY Invariance, PTL DEF IInv

\* The terminal conflict takes the whole asset, and no late receipt undoes it.
THEOREM ConflictWhole == Spec => []ConflictIsWhole
  BY Invariance, PTL DEF IInv, LedgerInv

\* Imports and recoveries implement the abstract ledger.
THEOREM LedgerImplemented == Spec => ImplementsLedger
  <1> DEFINE S == {d \in Digest : vault[d] = "same"}
  <1>1. Init => Ledger!Init
    BY DEF Init, Ledger!Init
  <1>2. IInv /\ [Next]_vars => [Ledger!Next]_Ledger!vars
    <2> SUFFICES ASSUME IInv, [Next]_vars PROVE Ledger!Next \/ UNCHANGED Ledger!vars
      OBVIOUS
    <2>1. Effect /\ TypeOK
      BY StepEffect DEF IInv
    <2>2. CASE Same
      BY <2>2 DEF Same, Ledger!vars
    <2>3. ASSUME NEW a \in Asset, Refused(a) PROVE Ledger!Next \/ UNCHANGED Ledger!vars
      <3>1. CASE asset[a] = "pending"
        <4>1. Ledger!Refuse(a)
          BY <2>1, <2>3, <3>1 DEF Refused, Ledger!Refuse, TypeOK
        <4> QED
          BY <4>1 DEF Ledger!Next
      <3>2. CASE asset[a] # "pending"
        <4>1. asset' = asset
          BY <2>1, <2>3, <3>2 DEF Refused, TypeOK
        <4> QED
          BY <2>3, <4>1 DEF Refused, Ledger!vars
      <3> QED
        BY <3>1, <3>2
    <2>4. ASSUME NEW a \in Asset, Finished(a) PROVE Ledger!Next \/ UNCHANGED Ledger!vars
      <3>1. CASE asset[a] = "pending"
        <4>1. Ledger!Contents(a) \subseteq S
          BY <2>4 DEF Finished, Complete, Contents, Ledger!Contents, IInv, LedgerInv, OpInv
        <4>2. Ledger!Finish(a)
          BY <2>4, <3>1, <4>1 DEF Finished, Ledger!Finish
        <4> QED
          BY <4>2 DEF Ledger!Next
      <3>2. CASE asset[a] # "pending"
        <4>1. asset' = asset
          BY <2>1, <2>4, <3>2 DEF Finished, TypeOK
        <4> QED
          BY <2>4, <4>1 DEF Finished, Ledger!vars
      <3> QED
        BY <3>1, <3>2
    <2>5. ASSUME NEW a \in Asset, NEW D \in SUBSET Digest, Reserved(a, D)
          PROVE  Ledger!Next
      <3>1. Ledger!Reserve(a, D) /\ D \in (SUBSET Digest) \ {{}}
        BY <2>5 DEF Reserved, Ledger!Reserve
      <3> QED
        BY <3>1 DEF Ledger!Next
    <2>6. ASSUME NEW d \in Digest, Occupied(d) PROVE UNCHANGED Ledger!vars
      <3>1. S' = S
        BY <2>1, <2>6 DEF Occupied, TypeOK
      <3> QED
        BY <2>6, <3>1 DEF Occupied, Ledger!vars
    <2>7. ASSUME NEW d \in Digest, Stored(d) PROVE Ledger!Next
      <3>1. S' = S \cup {d}
        BY <2>1, <2>7 DEF Stored, TypeOK
      <3>2. Ledger!Store(d)
        BY <2>7, <3>1 DEF Stored, Ledger!Store
      <3> QED
        BY <3>2 DEF Ledger!Next
    <2>8. ASSUME NEW d \in Digest, Receipted(d) PROVE UNCHANGED Ledger!vars
      BY <2>8 DEF Receipted, Ledger!vars
    <2> QED
      BY <2>1, <2>2, <2>3, <2>4, <2>5, <2>6, <2>7, <2>8 DEF Effect
  <1> QED
    BY <1>1, <1>2, Invariance, PTL DEF Spec, ImplementsLedger, Ledger!Spec

\* An asset made ready is at the index step of some process until it has its text row.
IndexedOrInterrupted ==
    \A a \in Asset : Unprojected(a)' => Unprojected(a) \/ faults' > faults

LEMMA NextUnprojected ==
    ASSUME IInv, [Next]_vars
    PROVE  IndexedOrInterrupted
  <1> USE DEF IInv
  <1>1. faults \in Nat
    BY ConstantAssumption DEF ConstantAssumption, TypeOK
  <1>2. ASSUME faults' = faults + 1 PROVE IndexedOrInterrupted
    BY <1>1, <1>2 DEF IndexedOrInterrupted
  <1>3. ASSUME UNCHANGED faults, projected \subseteq projected',
               \A a \in Asset : asset'[a] = "ready" =>
                 \/ asset[a] = "ready" \/ a \in projected'
                 \/ \E p \in Proc : proc'[p].at = "index" /\ proc'[p].asset = a,
               \A p \in Proc : proc[p].at = "index" =>
                 \/ proc[p].asset \in projected'
                 \/ proc'[p].at = "index" /\ proc'[p].asset = proc[p].asset
        PROVE  IndexedOrInterrupted
    BY <1>3 DEF IndexedOrInterrupted, Unprojected
  <1>4. ASSUME UNCHANGED <<faults, projected>>,
               \A a \in Asset : asset'[a] = "ready" => asset[a] = "ready",
               NEW p \in Proc, proc[p].at # "index",
               NEW x, proc' = [proc EXCEPT ![p] = x]
        PROVE  IndexedOrInterrupted
    <2>1. \A q \in Proc : proc[q].at = "index" => proc'[q] = proc[q]
      BY <1>4 DEF TypeOK
    <2> QED
      BY <1>3, <1>4, <2>1
  <1>5. ASSUME UNCHANGED <<faults, projected, asset, proc>> PROVE IndexedOrInterrupted
    BY <1>5 DEF IndexedOrInterrupted, Unprojected
  <1>6. ASSUME NEW p \in Proc, NEW ok, Return(p, ok), UNCHANGED <<durable, faults>>,
               proc[p].at # "index"
        PROVE  IndexedOrInterrupted
    BY <1>4, <1>6 DEF Return, durable
  <1>7. ASSUME NEW p \in Proc, MarkContentConflict(p), proc[p].at # "index"
        PROVE  IndexedOrInterrupted
    <2>1. \A a \in Asset : asset'[a] = "ready" => asset[a] = "ready"
      BY <1>7 DEF MarkContentConflict, TypeOK
    <2>2. UNCHANGED <<faults, projected>> /\ proc' = [proc EXCEPT ![p] = Idle]
      BY <1>7 DEF MarkContentConflict, Return
    <2> QED
      BY <1>4, <1>7, <2>1, <2>2
  <1>8. ASSUME NEW p \in Proc, NEW g \in Group, Take(p, g) PROVE IndexedOrInterrupted
    BY <1>4, <1>8 DEF Take, durable
  <1>9. ASSUME NEW p \in Proc, Hash(p) PROVE IndexedOrInterrupted
    BY <1>4, <1>9 DEF Hash, durable
  <1>10. ASSUME NEW p \in Proc, NEW d \in Digest, Lookup(p, d)
         PROVE  IndexedOrInterrupted
    BY <1>4, <1>10 DEF Lookup, durable
  <1>11. ASSUME NEW p \in Proc, NEW d \in Digest, Revalidate(p, d)
         PROVE  IndexedOrInterrupted
    BY <1>4, <1>7, <1>11 DEF Revalidate, durable
  <1>12. ASSUME NEW p \in Proc, NEW d \in Digest, Create(p, d)
         PROVE  IndexedOrInterrupted
    BY <1>4, <1>6, <1>7, <1>12 DEF Create
  <1>13. ASSUME NEW p \in Proc, NEW d \in Digest, Receipt(p, d)
         PROVE  IndexedOrInterrupted
    BY <1>4, <1>6, <1>13 DEF Receipt
  <1>14. ASSUME NEW p \in Proc, ResolveConflict(p) \/ ResolveDuplicate(p)
         PROVE  IndexedOrInterrupted
    BY <1>6, <1>14 DEF ResolveConflict, ResolveDuplicate, Resolved
  <1>15. ASSUME NEW p \in Proc, ResolvePending(p) PROVE IndexedOrInterrupted
    BY <1>4, <1>15 DEF ResolvePending, Resolved, durable
  <1>16. ASSUME NEW p \in Proc, ResolveNone(p) PROVE IndexedOrInterrupted
    BY <1>4, <1>6, <1>16 DEF ResolveNone, Resolved, Goto, durable
  <1>17. ASSUME NEW p \in Proc, Reserve(p) PROVE IndexedOrInterrupted
    <2>1. \A a \in Asset : asset'[a] = "ready" => asset[a] = "ready"
      BY <1>17, NewAssetFresh DEF Reserve, TypeOK
    <2> QED
      BY <1>4, <1>17, <2>1 DEF Reserve
  <1>18. ASSUME NEW p \in Proc, ReserveLost(p) PROVE IndexedOrInterrupted
    BY <1>4, <1>18 DEF ReserveLost, durable
  <1>19. ASSUME NEW p \in Proc, Project(p) PROVE IndexedOrInterrupted
    BY <1>4, <1>6, <1>19 DEF Project, Goto
  <1>20. ASSUME NEW p \in Proc, FinalizeReady(p) PROVE IndexedOrInterrupted
    <2>1. CASE Return(p, FALSE) /\ UNCHANGED <<durable, faults>>
      BY <1>6, <1>20, <2>1 DEF FinalizeReady
    <2>2. CASE asset' = [asset EXCEPT ![proc[p].asset] = "ready"] /\ Goto(p, "index")
               /\ UNCHANGED projected
      <3>1. proc'[p] = [proc[p] EXCEPT !.at = "index"] /\ \A q \in Proc \ {p} : proc'[q] = proc[q]
        BY <2>2 DEF Goto, TypeOK
      <3>2. proc'[p].at = "index" /\ proc'[p].asset = proc[p].asset /\ proc[p].at # "index"
        BY <1>20, <3>1 DEF FinalizeReady, TypeOK, Process
      <3>3. \A a \in Asset : asset'[a] = "ready" => asset[a] = "ready" \/ a = proc[p].asset
        BY <2>2 DEF TypeOK
      <3> QED
        BY <1>3, <2>2, <3>1, <3>2, <3>3 DEF Goto
    <2> QED
      BY <1>20, <2>1, <2>2 DEF FinalizeReady
  <1>21. ASSUME NEW p \in Proc, Index(p) PROVE IndexedOrInterrupted
    <2>1. \A q \in Proc \ {p} : proc'[q] = proc[q]
      BY <1>21 DEF Index, Return, TypeOK
    <2>2. projected' = projected \cup {proc[p].asset} /\ UNCHANGED <<asset, faults>>
      BY <1>21 DEF Index
    <2> QED
      BY <1>3, <2>1, <2>2
  <1>22. ASSUME NEW p \in Proc, IndexWarns(p) \/ Fails(p) PROVE IndexedOrInterrupted
    BY <1>2, <1>22 DEF IndexWarns, Fails
  <1>23. ASSUME Stop PROVE IndexedOrInterrupted
    BY <1>2, <1>23 DEF Stop
  <1>24. ASSUME NEW a \in Asset, Visit(a) PROVE IndexedOrInterrupted
    <2>1. proc[Recoverer].at # "index" /\ Recoverer \in Proc /\ UNCHANGED <<durable, faults>>
      BY <1>24 DEF Visit
    <2> QED
      BY <1>4, <1>5, <1>24, <2>1 DEF Visit, durable
  <1>25. ASSUME NEW d \in Digest, Adopt(d) PROVE IndexedOrInterrupted
    BY <1>4, <1>7, <1>25 DEF Adopt, AdoptRefused, durable, Applied
  <1>26. ASSUME Adopted PROVE IndexedOrInterrupted
    BY <1>4, <1>6, <1>26 DEF Adopted, Goto, durable
  <1>27. ASSUME \/ StartImport \/ EndImport \/ StartRecovery \/ EndRecovery \/ Skip
                \/ Outside \/ UNCHANGED vars
         PROVE  IndexedOrInterrupted
    <2>1. UNCHANGED <<faults, projected, asset, proc>>
      BY <1>27 DEF StartImport, EndImport, StartRecovery, EndRecovery, Skip, Unsettled,
                   Outside, Edit, Mount, Foreign, ApplyCommit, vars, durable
    <2> QED
      BY <1>5, <2>1
  <1> QED
    BY <1>8, <1>9, <1>10, <1>11, <1>12, <1>13, <1>14, <1>15, <1>16, <1>17, <1>18, <1>19,
       <1>20, <1>21, <1>22, <1>23, <1>24, <1>25, <1>26, <1>27
       DEF Next, GroupStep, RecoveryStep

\* Every ready asset gets its text row and AI job, unless the very step that should have
\* led there stops or fails.
THEOREM AllProjected == Spec => UnprojectedIsInterrupted
  <1>1. IInv /\ [Next]_vars => [IndexedOrInterrupted]_vars
    BY NextUnprojected
  <1> QED
    BY <1>1, Invariance, PTL DEF Spec, UnprojectedIsInterrupted, IndexedOrInterrupted

\* Commits replace contents of ready assets only.
ReplacedInv == \A d \in Digest : Replaced(d) => asset[holder[d]] = "ready"

\* Who writes the recorded contents, and who applies an operation.
LEMMA StepRecorded ==
    ASSUME TypeOK, [Next]_vars
    PROVE  \/ /\ UNCHANGED recorded
              /\ \A d \in Digest : op'[d] = "applied" => op[d] = "applied"
           \/ \E d \in Digest : Applied(d) \/ ApplyCommit(d)
  <1> DEFINE Kept == /\ UNCHANGED recorded
                     /\ \A d \in Digest : op'[d] = "applied" => op[d] = "applied"
             Goal == Kept \/ \E d \in Digest : Applied(d) \/ ApplyCommit(d)
  <1>1. ASSUME NEW p \in Proc, MarkContentConflict(p) PROVE Goal
    BY <1>1 DEF MarkContentConflict
  <1>2. ASSUME UNCHANGED <<op, recorded>> PROVE Goal
    BY <1>2
  <1>3. ASSUME NEW p \in Proc, Reserve(p) PROVE Goal
    BY <1>3 DEF Reserve
  <1>4. ASSUME NEW p \in Proc, NEW d \in Digest,
               Revalidate(p, d) \/ Create(p, d) \/ Receipt(p, d)
        PROVE  Goal
    BY <1>1, <1>2, <1>4 DEF Revalidate, Create, Receipt, durable
  <1>5. ASSUME NEW d \in Digest, Adopt(d) PROVE Goal
    BY <1>1, <1>2, <1>5 DEF Adopt, AdoptRefused, durable
  <1>6. ASSUME NEW p \in Proc,
               \/ ResolveConflict(p) \/ ResolveDuplicate(p) \/ ResolvePending(p)
               \/ ResolveNone(p) \/ ReserveLost(p) \/ Hash(p) \/ Fails(p) \/ IndexWarns(p)
               \/ Project(p) \/ FinalizeReady(p) \/ Index(p)
               \/ \E g \in Group : Take(p, g)
               \/ \E d \in Digest : Lookup(p, d)
        PROVE  UNCHANGED <<op, recorded>>
    BY <1>6 DEF ResolveConflict, ResolveDuplicate, ResolvePending, ResolveNone, ReserveLost,
                Hash, Fails, IndexWarns, Project, FinalizeReady, Index, Take, Lookup, durable
  <1>7. ASSUME \/ Stop \/ StartImport \/ EndImport \/ StartRecovery \/ EndRecovery \/ Skip
               \/ Adopted \/ (\E a \in Asset : Visit(a)) \/ UNCHANGED vars
               \/ (\E f \in File : Edit(f) \/ Mount(f)) \/ \E d \in Digest : Foreign(d)
        PROVE  UNCHANGED <<op, recorded>>
    BY <1>7 DEF Stop, StartImport, EndImport, StartRecovery, EndRecovery, Skip, Unsettled,
                Adopted, Visit, Edit, Mount, Foreign, vars, durable
  <1> HIDE DEF Goal
  <1>8. ASSUME NEW d \in Digest, ApplyCommit(d) PROVE Goal
    BY <1>8 DEF Goal
  <1>9. Goal
    BY <1>2, <1>3, <1>4, <1>5, <1>6, <1>7, <1>8
       DEF Next, GroupStep, RecoveryStep, Outside
  <1> QED
    BY <1>9 DEF Goal

LEMMA NextReplaced == ASSUME IInv, [Next]_vars, ReplacedInv PROVE ReplacedInv'
  <1> USE DEF IInv
  <1>1. \A d \in Digest : holder[d] # NoAsset => holder'[d] = holder[d]
    BY StepEffect, EffectStable DEF Stable
  <1>2. \A d \in Digest : op[d] = "applied" /\ asset[holder[d]] = "ready" =>
           holder[d] \in Asset /\ asset'[holder'[d]] = "ready"
    BY <1>1, StepEffect, EffectStable DEF Stable, TypeOK, LedgerInv, OpInv
  <1>3. CASE /\ UNCHANGED recorded
             /\ \A d \in Digest : op'[d] = "applied" => op[d] = "applied"
    BY <1>2, <1>3 DEF ReplacedInv, Replaced
  <1>4. ASSUME NEW d \in Digest, Applied(d) PROVE ReplacedInv'
    <2>1. ASSUME NEW e \in Digest, Replaced(e)' PROVE Replaced(e)
      BY <1>4, <2>1 DEF Applied, Replaced, TypeOK
    <2> QED
      BY <1>2, <2>1 DEF ReplacedInv, Replaced
  <1>5. ASSUME NEW d \in Digest, ApplyCommit(d) PROVE ReplacedInv'
    <2>1. ASSUME NEW e \in Digest, e # d, Replaced(e)' PROVE Replaced(e)
      BY <1>5, <2>1 DEF ApplyCommit, Replaced, TypeOK
    <2>2. UNCHANGED <<asset, holder>> /\ asset[holder[d]] = "ready"
      BY <1>5 DEF ApplyCommit
    <2> QED
      BY <2>1, <2>2 DEF ReplacedInv
  <1> QED
    BY <1>3, <1>4, <1>5, StepRecorded

LEMMA CommitsReady == Spec => []ReplacedInv
  <1>1. Init => ReplacedInv
    BY DEF Init, ReplacedInv, Replaced
  <1> QED
    BY <1>1, NextReplaced, Invariance, PTL DEF Spec

\* While recovery holds the lock nobody else moves.
LEMMA NextRecovery ==
    ASSUME IInv, ReplacedInv, [Next]_vars, RecoveryInv PROVE RecoveryInv'
  <1> USE DEF IInv
  <1> DEFINE R == Recoverer
  <1>0. PICK a : a = proc[R].asset
    OBVIOUS
  <1> USE <1>0
  <1>1. \A p \in Proc : proc[p] \in Process
    BY DEF TypeOK
  <1>2. ASSUME lock' # "recover" PROVE RecoveryInv'
    BY <1>2 DEF RecoveryInv
  <1>3. ASSUME StartRecovery PROVE RecoveryInv'
    <2>1. proc'[R].at = "idle" /\ \A b \in Asset : asset'[b] = "pending" => b \in visit'
      BY <1>3 DEF StartRecovery, LockInv, durable
    <2> QED
      BY <2>1 DEF RecoveryInv, InHand
  <1>4. ASSUME lock = "recover"
        PROVE  /\ \A b \in Asset : asset[b] = "pending" => b \in visit \/ Settled(b)
               /\ InHand
               /\ \A p \in Worker : proc[p].at = "idle"
    BY <1>4 DEF RecoveryInv, LockInv
  <1>5. ASSUME lock = "recover", proc[R].at # "idle"
        PROVE  a \in Asset /\ a \in visit
    BY <1>4, <1>5 DEF InHand, ProcInv, AssetInv, Working
  \* Recovery is done with its asset.
  <1>6. ASSUME lock = "recover", proc' = [proc EXCEPT ![R] = Idle], visit' = visit \ {a},
               asset'[a] = "pending" => Settled(a)',
               \A b \in Asset \ {a} : asset'[b] = asset[b] /\ (Settled(b) => Settled(b)')
        PROVE  RecoveryInv'
    <2>1. proc'[R].at = "idle"
      BY <1>6 DEF TypeOK, Idle
    <2> QED
      BY <1>4, <1>6, <2>1 DEF RecoveryInv, InHand
  \* Recovery goes on with its asset.
  <1>7. ASSUME lock = "recover", UNCHANGED visit, InHand',
               \A b \in Asset \ {a} : asset'[b] = asset[b] /\ (Settled(b) => Settled(b)'),
               proc[R].at # "idle"
        PROVE  RecoveryInv'
    BY <1>4, <1>5, <1>7 DEF RecoveryInv
  <1>8. ASSUME UNCHANGED <<holder, op, vault>>, NEW b \in Asset, Settled(b)
        PROVE  Settled(b)'
    BY <1>8 DEF Settled, Complete, Contents
  <1>9. ASSUME lock = "recover", proc[R].at # "idle", MarkContentConflict(R) PROVE RecoveryInv'
    <2>1. asset'[a] # "pending" /\ \A b \in Asset \ {a} : asset'[b] = asset[b]
      BY <1>5, <1>9 DEF MarkContentConflict, TypeOK
    <2>2. ASSUME NEW b \in Asset \ {a}, Settled(b) PROVE Settled(b)'
      <3>1. \A d \in Contents(b) : op'[d] = op[d]
        BY <1>9 DEF MarkContentConflict, Contents
      <3> QED
        BY <1>9, <2>2, <3>1 DEF MarkContentConflict, Settled, Complete, Contents
    <2> QED
      BY <1>6, <1>9, <2>1, <2>2 DEF MarkContentConflict, Return
  <1>10. ASSUME lock = "recover", NEW b \in Asset, Visit(b) PROVE RecoveryInv'
    <2>1. CASE asset[b] = "conflict"
      <3>1. proc' = proc /\ visit' = visit \ {b} /\ UNCHANGED durable /\ proc[R].at = "idle"
        BY <1>10, <2>1 DEF Visit
      <3>2. ASSUME NEW c \in Asset, asset'[c] = "pending" PROVE c \in visit' \/ Settled(c)'
        BY <1>4, <1>8, <1>10, <2>1, <3>1, <3>2 DEF durable
      <3>3. InHand'
        BY <3>1 DEF InHand
      <3> QED
        BY <3>2, <3>3 DEF RecoveryInv
    <2>2. CASE asset[b] # "conflict"
      <3> DEFINE l == {d \in Contents(b) : op[d] = "pending"}
      <3>1. /\ proc'[R] = [Idle EXCEPT !.at = "adopt", !.asset = b, !.left = l]
            /\ visit' = visit /\ UNCHANGED durable /\ b \in visit
        BY <1>10, <2>2 DEF Visit, TypeOK
      <3>2. /\ proc'[R].at = "adopt" /\ proc'[R].asset = b /\ proc'[R].left = l
            /\ proc'[R].missing = FALSE
        <4> HIDE DEF l
        <4> QED
          BY <3>1 DEF Idle
      <3>3. InHand'
        BY <3>1, <3>2 DEF InHand, durable, Contents
      <3>4. ASSUME NEW c \in Asset, asset'[c] = "pending" PROVE c \in visit' \/ Settled(c)'
        BY <1>4, <1>8, <1>10, <3>1, <3>4 DEF durable
      <3> QED
        BY <3>3, <3>4 DEF RecoveryInv
    <2> QED
      BY <2>1, <2>2
  <1>11. ASSUME lock = "recover", NEW d \in Digest, Adopt(d) PROVE RecoveryInv'
    <2>1. proc[R].at = "adopt" /\ d \in proc[R].left /\ R \in Proc
      BY <1>11 DEF Adopt
    <2>2. holder[d] = a /\ a \in Asset /\ a \in visit /\ op[d] = "pending"
      BY <1>4, <1>5, <1>11, <2>1 DEF ProcInv, AssetInv, Working, InHand
    <2>3. CASE MarkContentConflict(R)
      BY <1>9, <1>11, <2>1, <2>3
    <2>4. CASE /\ vault[d] = "absent" /\ UNCHANGED durable /\ UNCHANGED visit
               /\ proc' = [proc EXCEPT ![R] =
                             [@ EXCEPT !.left = proc[R].left \ {d}, !.missing = TRUE]]
      <3>1. proc'[R] = [proc[R] EXCEPT !.left = proc[R].left \ {d}, !.missing = TRUE]
        BY <2>4 DEF TypeOK
      <3>2. /\ proc'[R].at = "adopt" /\ proc'[R].asset = a
            /\ proc'[R].left = proc[R].left \ {d} /\ proc'[R].missing
        BY <1>1, <2>1, <3>1 DEF Process
      <3>3. InHand'
        BY <1>4, <1>11, <2>1, <2>2, <2>4, <3>2 DEF InHand, durable, Contents
      <3> QED
        BY <1>7, <1>8, <1>11, <2>1, <2>4, <3>3 DEF durable
    <2>5. CASE /\ vault[d] = "same" /\ Applied(d)
               /\ UNCHANGED <<asset, holder, vault, visit>>
               /\ proc' = [proc EXCEPT ![R] = [@ EXCEPT !.left = proc[R].left \ {d}]]
      <3>1. proc'[R] = [proc[R] EXCEPT !.left = proc[R].left \ {d}]
        BY <2>5 DEF TypeOK
      <3>2. /\ proc'[R].at = "adopt" /\ proc'[R].asset = a
            /\ proc'[R].left = proc[R].left \ {d} /\ proc'[R].missing = proc[R].missing
        BY <1>1, <2>1, <3>1 DEF Process
      <3>3. \A e \in Digest : op'[e] = IF e = d THEN "applied" ELSE op[e]
        BY <2>5 DEF Applied, TypeOK
      <3>4. InHand'
        <4>1. \A e \in proc[R].left \ {d} : op'[e] = "pending"
          BY <1>1, <1>4, <1>11, <2>1, <3>3 DEF InHand, Process
        <4>2. \A e \in Contents(a)' : op'[e] = "pending" =>
                 e \in proc[R].left \ {d} \/ (proc[R].missing /\ vault'[e] # "same")
          BY <1>4, <1>11, <2>1, <2>5, <3>3 DEF InHand, Contents
        <4>3. ASSUME proc[R].missing
              PROVE  \E e \in Contents(a)' : op'[e] = "pending" /\ vault'[e] # "same"
          BY <1>4, <1>11, <2>1, <2>5, <3>3, <4>3 DEF InHand, Contents
        <4> QED
          BY <2>2, <2>5, <3>2, <4>1, <4>2, <4>3 DEF InHand, Contents
      <3>5. ASSUME NEW b \in Asset \ {a}, Settled(b) PROVE Settled(b)'
        BY <2>2, <2>5, <3>3, <3>5 DEF Settled, Complete, Contents
      <3> QED
        BY <1>7, <1>11, <2>1, <2>5, <3>4, <3>5
    <2>6. CASE AdoptRefused
      BY <1>2, <2>6 DEF AdoptRefused
    <2> QED
      BY <1>11, <2>3, <2>4, <2>5, <2>6 DEF Adopt, durable
  <1>12. ASSUME lock = "recover", NEW phase, Goto(R, phase), proc[R].at # "idle",
                (phase \in {"project", "finalize"} /\ Complete(a)') \/ phase = "index",
                \A b \in Asset \ {a} : asset'[b] = asset[b] /\ (Settled(b) => Settled(b)')
         PROVE  RecoveryInv'
    <2>1. proc'[R] = [proc[R] EXCEPT !.at = phase] /\ visit' = visit
      BY <1>12 DEF Goto, TypeOK
    <2>2. proc'[R].at = phase /\ proc'[R].asset = a
      BY <1>1, <2>1 DEF Process
    <2>3. InHand'
      BY <1>5, <1>12, <2>1, <2>2 DEF InHand
    <2> QED
      BY <1>7, <1>12, <2>1, <2>3
  <1>13. ASSUME lock = "recover", NEW ok, Return(R, ok), proc[R].at # "idle",
                UNCHANGED durable, asset[a] = "pending" => Settled(a)
         PROVE  RecoveryInv'
    BY <1>5, <1>6, <1>8, <1>13 DEF Return, durable
  <1>14. ASSUME lock = "recover", Adopted PROVE RecoveryInv'
    <2>1. /\ proc[R].at = "adopt" /\ proc[R].left = {} /\ a \in Asset /\ UNCHANGED durable
          /\ \A d \in Contents(a) : op[d] = "pending" => proc[R].missing /\ vault[d] # "same"
          /\ proc[R].missing => \E d \in Contents(a) : op[d] = "pending" /\ vault[d] # "same"
      BY <1>4, <1>5, <1>14 DEF Adopted, InHand
    <2>2. proc[R].missing => Settled(a)
      BY <2>1 DEF Settled, Complete
    <2>3. ~proc[R].missing /\ asset[a] = "pending" => Complete(a)
      <3>1. \A d \in Contents(a) : d \in Digest /\ holder[d] = a
        BY DEF Contents
      <3>2. \A d \in Contents(a) : op[d] # "none" /\ (asset[a] = "pending" => op[d] # "conflict")
        BY <2>1, <3>1 DEF LedgerInv, OpInv, ConflictIsWhole
      <3> QED
        BY <2>1, <3>1, <3>2 DEF Complete, TypeOK, Statuses
    <2>4. CASE Goto(R, "project") /\ ~proc[R].missing /\ asset[a] = "pending"
      <3>1. Complete(a)'
        BY <2>1, <2>3, <2>4 DEF Complete, Contents, durable
      <3> QED
        BY <1>8, <1>12, <1>14, <2>1, <2>4, <3>1 DEF durable
    <2>5. CASE Return(R, FALSE) /\ (proc[R].missing \/ asset[a] # "pending")
      BY <1>13, <1>14, <2>1, <2>2, <2>5
    <2> QED
      BY <1>14, <2>4, <2>5 DEF Adopted
  <1>15. ASSUME lock = "recover", Project(R) PROVE RecoveryInv'
    <2>1. proc[R].at = "project" /\ Complete(a)
      BY <1>4, <1>15 DEF Project, InHand
    <2>2. CASE /\ asset[a] = "conflict" \/ ~Complete(a) \/ \E d \in Contents(a) : Replaced(d)
               /\ Return(R, FALSE) /\ UNCHANGED durable
      <3>1. asset[a] = "pending" => Settled(a)
        BY <2>1, <2>2 DEF ReplacedInv, Contents
      <3> QED
        BY <1>13, <1>15, <2>1, <2>2, <3>1
    <2>3. CASE Goto(R, "finalize") /\ UNCHANGED <<asset, holder, op, vault>>
      <3>1. Complete(a)'
        BY <2>1, <2>3 DEF Complete, Contents
      <3> QED
        BY <1>8, <1>12, <1>15, <2>1, <2>3, <3>1
    <2> QED
      BY <1>15, <2>2, <2>3 DEF Project
  <1>16. ASSUME lock = "recover", FinalizeReady(R) PROVE RecoveryInv'
    <2>1. proc[R].at = "finalize" /\ Complete(a)
      BY <1>4, <1>16 DEF FinalizeReady, InHand
    <2>2. CASE /\ asset[a] = "conflict" \/ ~Complete(a)
               /\ Return(R, FALSE) /\ UNCHANGED durable
      BY <1>13, <1>16, <2>1, <2>2
    <2>3. CASE /\ asset' = [asset EXCEPT ![a] = "ready"] /\ Goto(R, "index")
               /\ UNCHANGED <<holder, op, vault>>
      <3>1. \A b \in Asset \ {a} : asset'[b] = asset[b]
        BY <2>3 DEF TypeOK
      <3> QED
        BY <1>8, <1>12, <1>16, <2>1, <2>3, <3>1
    <2> QED
      BY <1>16, <2>2, <2>3 DEF FinalizeReady
  <1>17. ASSUME lock = "recover", Index(R) PROVE RecoveryInv'
    <2>1. asset[a] = "ready"
      BY <1>17 DEF Index, ProcInv, PhaseInv
    <2>2. proc' = [proc EXCEPT ![R] = Idle] /\ visit' = visit \ {a}
          /\ UNCHANGED <<asset, holder, op, vault>>
      BY <1>17 DEF Index, Return
    <2> QED
      BY <1>5, <1>6, <1>8, <1>17, <2>1, <2>2
  <1>18. ASSUME lock = "recover", UNCHANGED <<asset, holder, op, visit, proc>>,
                \A d \in Digest : vault'[d] = "same" <=> vault[d] = "same"
         PROVE  RecoveryInv'
    <2>1. \A b : Contents(b)' = Contents(b)
      BY <1>18 DEF Contents
    <2>2. \A b : Complete(b)' <=> Complete(b)
      BY <1>18, <2>1 DEF Complete
    <2>3. \A b : Settled(b)' <=> Settled(b)
      BY <1>18, <2>1, <2>2 DEF Settled, Contents
    <2>4. InHand'
      BY <1>4, <1>18, <2>1, <2>2 DEF InHand, Contents
    <2> QED
      BY <1>4, <1>18, <2>3, <2>4 DEF RecoveryInv
  <1>19. ASSUME lock = "recover", Outside \/ UNCHANGED vars PROVE RecoveryInv'
    <2>1. UNCHANGED <<asset, holder, op, visit, proc>>
      BY <1>19 DEF Outside, Edit, Mount, Foreign, ApplyCommit, vars, durable
    <2>2. \A d \in Digest : vault'[d] = "same" <=> vault[d] = "same"
      BY <1>19 DEF Outside, Edit, Mount, Foreign, ApplyCommit, vars, durable, TypeOK
    <2> QED
      BY <1>18, <1>19, <2>1, <2>2
  <1>20. ASSUME lock = "recover", NEW p \in Worker
         PROVE  ~(GroupStep(p) \/ Fails(p) \/ IndexWarns(p))
    <2>1. proc[p].at = "idle"
      BY <1>4, <1>20
    <2> QED
      BY <1>20, <2>1 DEF GroupStep, Take, Hash, Lookup, Revalidate, Create, Receipt,
         ResolveConflict, ResolveDuplicate, ResolvePending, ResolveNone, Resolved, Reserve,
         ReserveLost, Project, FinalizeReady, Index, Fails, IndexWarns
  <1>21. ASSUME lock = "recover", GroupStep(R) PROVE Project(R) \/ FinalizeReady(R) \/ Index(R)
    <2>1. proc[R].at \in {"idle", "adopt", "project", "finalize", "index"}
      BY <1>4, <1>21 DEF InHand
    <2> QED
      BY <1>21, <2>1 DEF GroupStep, Take, Hash, Lookup, Revalidate, Create, Receipt,
         ResolveConflict, ResolveDuplicate, ResolvePending, ResolveNone, Resolved, Reserve,
         ReserveLost
  <1>22. ASSUME lock = "recover", Fails(R) \/ Stop \/ EndRecovery \/ StartImport \/ EndImport
                                  \/ Skip \/ IndexWarns(R)
         PROVE  RecoveryInv'
    BY <1>2, <1>22 DEF Fails, Stop, EndRecovery, StartImport, EndImport, Skip, Unsettled,
                       IndexWarns
  <1>23. CASE lock = "recover"
    BY <1>10, <1>11, <1>14, <1>15, <1>16, <1>17, <1>19, <1>20, <1>21, <1>22, <1>23, <1>3
       DEF Next, RecoveryStep, StartRecovery
  <1>24. CASE lock # "recover"
    <2>1. CASE StartRecovery
      BY <1>3, <2>1
    <2>2. ASSUME NEW p \in Proc, GroupStep(p) \/ Fails(p) \/ IndexWarns(p)
          PROVE  lock' # "recover"
      BY <1>24, <2>2 DEF GroupStep, Take, Hash, Lookup, Revalidate, Create, Receipt,
         ResolveConflict, ResolveDuplicate, ResolvePending, ResolveNone, Reserve, ReserveLost,
         Project, FinalizeReady, Index, Fails, IndexWarns, Goto, Return, MarkContentConflict
    <2>3. ASSUME \/ RecoveryStep \/ Skip \/ EndImport \/ EndRecovery \/ StartImport \/ Stop
                 \/ Outside \/ UNCHANGED vars
          PROVE  lock' # "recover"
      BY <1>24, <2>3 DEF RecoveryStep, Visit, Adopt, AdoptRefused, Adopted, Skip, Unsettled, EndImport,
         EndRecovery, StartImport, Stop, Outside, Edit, Mount, Foreign, ApplyCommit, Goto, Return,
         MarkContentConflict, vars
    <2> QED
      BY <1>2, <2>1, <2>2, <2>3 DEF Next
  <1> QED
    BY <1>23, <1>24

\* A recovery that ends has adopted everything Docbank holds; what is still pending lacks a
\* content there.
THEOREM RecoveryComplete == Spec => RecoveryIsComplete
  <1>1. Init => RecoveryInv
    BY DEF Init, RecoveryInv
  <1>2. RecoveryInv /\ EndRecovery => \A a \in Asset : asset[a] = "pending" => Settled(a)
    BY DEF RecoveryInv, EndRecovery
  <1>3. Spec => []RecoveryInv
    BY <1>1, NextRecovery, Invariance, CommitsReady, PTL DEF Spec
  <1>4. RecoveryInv /\ [Next]_vars =>
          [EndRecovery => \A a \in Asset : asset[a] = "pending" =>
            /\ ~Complete(a)
            /\ \A d \in Contents(a) : op[d] = "pending" => vault[d] # "same"]_vars
    BY <1>2 DEF Settled
  <1> QED
    BY <1>3, <1>4, PTL DEF Spec, RecoveryIsComplete

LEMMA FileOfContent ==
    ASSUME TypeOK, NEW p \in Proc, NEW d \in Sums(p)
    PROVE  FileOf(p, d) \in File /\ <<FileOf(p, d), d>> \in proc[p].sum
  <1>1. PICK x \in proc[p].sum : x[2] = d
    BY DEF Sums
  <1>2. proc[p].sum \subseteq File \X Digest
    BY DEF TypeOK, Process
  <1>3. x[1] \in File /\ <<x[1], d>> \in proc[p].sum
    BY <1>1, <1>2
  <1> QED
    BY <1>3 DEF FileOf

\* As long as nothing is changed from outside no conflict is found.
LEMMA NextCalm == ASSUME IInv, ReplacedInv, [Next]_vars, CalmInv PROVE CalmInv'
  <1> USE DEF IInv
  <1>1. \A p \in Proc : proc[p] \in Process /\ Sums(p) \subseteq Digest
    BY SumsType DEF TypeOK
  <1>2. CASE edits # 0
    <2>1. edits' \in {edits, edits + 1}
      <3>1. CASE UNCHANGED edits
        BY <3>1
      <3>2. CASE Outside
        BY <3>2 DEF Outside, Edit, Mount, Foreign, ApplyCommit
      <3> QED
        BY <3>1, <3>2, StepEdits
    <2> QED
      BY <1>2, <2>1 DEF CalmInv, TypeOK
  <1>3. CASE edits = 0
    <2> USE <1>3
    <2>1. /\ \A f \in File : source[f].there /\ source[f].stamp = 0
          /\ \A d \in Digest : vault[d] # "other"
          /\ \A p \in Proc : Faithful(p)
          /\ \A a \in Asset : asset[a] # "conflict"
      BY DEF CalmInv
    <2>2. CASE Outside
      <3>1. ASSUME NEW d \in Digest, ApplyCommit(d) PROVE CalmInv'
        BY <2>1, <3>1 DEF ApplyCommit, CalmInv, Faithful, Sums
      <3>2. CASE ~\E d \in Digest : ApplyCommit(d)
        BY <2>2, <3>2 DEF Outside, Edit, Mount, Foreign, CalmInv
      <3> QED
        BY <3>1, <3>2
    <2>3. ASSUME UNCHANGED source, UNCHANGED edits,
                 \A d \in Digest : vault'[d] \in {vault[d], "same"},
                 \A a \in Asset : asset'[a] \in {asset[a], "pending", "ready"},
                 \A p \in Proc : Faithful(p)'
          PROVE  CalmInv'
      BY <2>1, <2>3 DEF CalmInv
    \* One process moves, the ledger has no conflict.
    <2>4. ASSUME UNCHANGED source, UNCHANGED edits,
                 \A d \in Digest : vault'[d] \in {vault[d], "same"},
                 \A a \in Asset : asset'[a] \in {asset[a], "pending", "ready"},
                 NEW p \in Proc, NEW x, proc' = [proc EXCEPT ![p] = x], Faithful(p)'
          PROVE  CalmInv'
      <3>1. ASSUME NEW q \in Proc, q # p PROVE Faithful(q)'
        <4>1. proc'[q] = proc[q]
          BY <2>4, <3>1 DEF TypeOK
        <4> QED
          BY <2>1, <2>4, <4>1 DEF Faithful, Sums
      <3> QED
        BY <2>3, <2>4, <3>1
    <2>5. ASSUME NEW p \in Proc, proc'[p] = Idle PROVE Faithful(p)'
      BY <2>5 DEF Faithful, Idle
    <2>6. ASSUME NEW p \in Proc, proc'[p].stamp = proc[p].stamp, proc'[p].sum = proc[p].sum,
                 UNCHANGED source,
                 proc'[p].at \in {"store", "create", "receipt"} =>
                   proc'[p].left \subseteq Sums(p) /\ proc'[p].now \subseteq Sums(p)
          PROVE  Faithful(p)'
      BY <2>1, <2>6 DEF Faithful, Sums
    <2>7. ASSUME UNCHANGED <<asset, vault>>
          PROVE  /\ \A d \in Digest : vault'[d] \in {vault[d], "same"}
                 /\ \A a \in Asset : asset'[a] \in {asset[a], "pending", "ready"}
      BY <2>7
    <2>8. ASSUME NEW p \in Proc, NEW ok, Return(p, ok), UNCHANGED <<asset, vault>>
          PROVE  CalmInv'
      <3>1. proc'[p] = Idle
        BY <2>8 DEF Return, TypeOK
      <3> QED
        BY <2>4, <2>5, <2>7, <2>8, <3>1 DEF Return
    <2>9. ASSUME NEW p \in Proc, NEW phase, Goto(p, phase), UNCHANGED vault,
                 \A a \in Asset : asset'[a] \in {asset[a], "pending", "ready"},
                 phase \notin {"store", "create", "receipt"}
          PROVE  CalmInv'
      <3>1. proc'[p] = [proc[p] EXCEPT !.at = phase]
        BY <2>9 DEF Goto, TypeOK
      <3>2. /\ proc'[p].stamp = proc[p].stamp /\ proc'[p].sum = proc[p].sum
            /\ proc'[p].at = phase
        BY <1>1, <3>1 DEF Process
      <3>3. Faithful(p)'
        BY <2>6, <2>9, <3>2 DEF Goto
      <3> QED
        BY <2>4, <2>9, <3>3 DEF Goto
    <2>10. ASSUME NEW p \in Proc, NEW g \in Group, Take(p, g) PROVE CalmInv'
      <3> DEFINE t == [f \in File |-> IF f \in g THEN source[f].stamp ELSE 0]
      <3>1. t = [f \in File |-> 0]
        BY <2>1
      <3>2. proc'[p] = [Idle EXCEPT !.at = "hash", !.group = g, !.stamp = t]
        BY <2>10 DEF Take, TypeOK
      <3>3. proc'[p].stamp = t /\ proc'[p].sum = {} /\ proc'[p].at = "hash"
        <4> HIDE DEF t
        <4> QED
          BY <3>2 DEF Idle
      <3>4. Faithful(p)'
        BY <3>1, <3>3 DEF Faithful
      <3> QED
        BY <2>4, <2>7, <2>10, <3>4 DEF Take, durable
    <2>11. ASSUME NEW p \in Proc, Hash(p) PROVE CalmInv'
      <3> DEFINE sums == {<<f, source[f].digest>> : f \in proc[p].group}
                 l == {y[2] : y \in sums}
      <3>1. proc'[p] = [proc[p] EXCEPT !.at = "lookup", !.sum = sums, !.left = l]
        BY <2>11 DEF Hash, TypeOK
      <3>2. \A x \in sums : source[x[1]].digest = x[2]
        OBVIOUS
      <3>3. /\ proc'[p].stamp = proc[p].stamp /\ proc'[p].sum = sums
            /\ proc'[p].at = "lookup"
        <4> HIDE DEF sums, l
        <4> QED
          BY <1>1, <3>1 DEF Process
      <3>4. Faithful(p)'
        BY <2>1, <2>11, <3>2, <3>3 DEF Faithful, Hash
      <3> QED
        BY <2>4, <2>7, <2>11, <3>4 DEF Hash, durable
    <2>12. ASSUME NEW p \in Proc, NEW d \in Digest, Lookup(p, d) PROVE CalmInv'
      <3> DEFINE k == [proc[p].known EXCEPT ![d] = [asset |-> holder[d], status |-> op[d]]]
      <3>1. /\ proc'[p] = [proc[p] EXCEPT !.left = proc[p].left \ {d}, !.known = k]
            /\ proc[p].at = "lookup"
        BY <2>12 DEF Lookup, TypeOK
      <3>2. /\ proc'[p].stamp = proc[p].stamp /\ proc'[p].sum = proc[p].sum
            /\ proc'[p].at = "lookup"
        <4> HIDE DEF k
        <4> QED
          BY <1>1, <3>1 DEF Process
      <3>3. Faithful(p)'
        BY <2>6, <2>12, <3>2 DEF Lookup
      <3> QED
        BY <2>4, <2>7, <2>12, <3>3 DEF Lookup, durable
    <2>13. ASSUME NEW p \in Proc, ResolvePending(p) PROVE CalmInv'
      <3> DEFINE rest == {d \in Sums(p) : proc[p].known[d].status # "applied"}
                 phase == IF rest = {} THEN "project" ELSE "store"
      <3>1. PICK a \in Asset : proc' = [proc EXCEPT ![p] = [@ EXCEPT
                   !.at = phase, !.asset = a, !.left = rest, !.known = Unknown]]
        BY <2>13 DEF ResolvePending
      <3>2. proc'[p] = [proc[p] EXCEPT !.at = phase, !.asset = a, !.left = rest,
                                       !.known = Unknown]
        BY <3>1 DEF TypeOK
      <3>3. rest \subseteq Sums(p)
        OBVIOUS
      <3>4. /\ proc'[p].stamp = proc[p].stamp /\ proc'[p].sum = proc[p].sum
            /\ proc'[p].left = rest /\ proc'[p].now = proc[p].now
        <4> HIDE DEF phase, rest
        <4> QED
          BY <1>1, <3>2 DEF Process
      <3>5. proc[p].now = {}
        BY <2>13 DEF ResolvePending, Resolved, ProcInv, PhaseInv
      <3>6. Faithful(p)'
        BY <2>6, <2>13, <3>3, <3>4, <3>5 DEF ResolvePending
      <3> QED
        BY <2>4, <2>7, <2>13, <3>1, <3>6 DEF ResolvePending, durable
    <2>14. ASSUME NEW p \in Proc, Reserve(p) PROVE CalmInv'
      <3>1. proc'[p] = [proc[p] EXCEPT !.at = "store", !.asset = NewAsset, !.left = Sums(p),
                                       !.known = Unknown]
        BY <2>14 DEF Reserve, TypeOK
      <3>2. /\ proc'[p].stamp = proc[p].stamp /\ proc'[p].sum = proc[p].sum
            /\ proc'[p].left = Sums(p) /\ proc'[p].now = proc[p].now
        BY <1>1, <3>1 DEF Process
      <3>3. proc[p].now = {}
        BY <2>14 DEF Reserve, ProcInv, PhaseInv
      <3>4. Faithful(p)'
        BY <2>6, <2>14, <3>2, <3>3 DEF Reserve
      <3>5. \A a \in Asset : asset'[a] \in {asset[a], "pending", "ready"}
        BY <2>14 DEF Reserve, TypeOK
      <3> QED
        BY <2>4, <2>14, <3>4, <3>5 DEF Reserve
    <2>15. ASSUME NEW p \in Proc, ReserveLost(p) PROVE CalmInv'
      <3>1. proc'[p] = [proc[p] EXCEPT !.at = "lookup", !.left = Sums(p), !.again = TRUE]
        BY <2>15 DEF ReserveLost, TypeOK
      <3>2. /\ proc'[p].stamp = proc[p].stamp /\ proc'[p].sum = proc[p].sum
            /\ proc'[p].at = "lookup"
        BY <1>1, <3>1 DEF Process
      <3>3. Faithful(p)'
        BY <2>6, <2>15, <3>2 DEF ReserveLost
      <3> QED
        BY <2>4, <2>7, <2>15, <3>3 DEF ReserveLost, durable
    <2>16. ASSUME NEW p \in Proc, NEW d \in Sums(p)
           PROVE  Unchanged(p, d) /\ source[FileOf(p, d)].there
                  /\ source[FileOf(p, d)].digest = d
      <3>1. FileOf(p, d) \in File /\ <<FileOf(p, d), d>> \in proc[p].sum
        BY FileOfContent
      <3> QED
        BY <2>1, <3>1 DEF Faithful, Unchanged
    <2>17. ASSUME NEW p \in Proc, NEW d \in Digest, Revalidate(p, d) PROVE CalmInv'
      <3>1. /\ proc[p].at = "store" /\ d \in proc[p].left /\ proc[p].left \subseteq Sums(p)
        BY <2>1, <2>17 DEF Revalidate, Faithful
      <3>2. /\ proc' = [proc EXCEPT ![p] = [@ EXCEPT !.at = "create", !.now = {d}]]
            /\ UNCHANGED <<durable, source, edits>>
        BY <2>16, <2>17, <3>1 DEF Revalidate
      <3>3. proc'[p] = [proc[p] EXCEPT !.at = "create", !.now = {d}]
        BY <3>2 DEF TypeOK
      <3>4. /\ proc'[p].stamp = proc[p].stamp /\ proc'[p].sum = proc[p].sum
            /\ proc'[p].left = proc[p].left /\ proc'[p].now = {d}
        BY <1>1, <3>3 DEF Process
      <3>5. Faithful(p)'
        BY <2>6, <3>1, <3>2, <3>4
      <3> QED
        BY <2>4, <2>7, <3>2, <3>5 DEF durable
    <2>18. ASSUME NEW p \in Proc, NEW d \in Digest, Create(p, d) PROVE CalmInv'
      <3>1. /\ proc[p].at = "create" /\ d \in proc[p].now
            /\ proc[p].left \subseteq Sums(p) /\ proc[p].now \subseteq Sums(p)
        BY <2>1, <2>18 DEF Create, Faithful
      <3>2. source[FileOf(p, d)].there /\ source[FileOf(p, d)].digest = d /\ vault[d] # "other"
        BY <2>1, <2>16, <3>1
      <3>8. CASE Replaced(d)
        <4>1. asset[proc[p].asset] = "ready" /\ proc[p].asset \in Asset
          BY <2>18, <3>1, <3>8 DEF ReplacedInv, ProcInv, AssetInv, Working
        <4>2. MarkContentConflict(p)
          <5>1. vault[d] = "same"
            BY <3>8 DEF LedgerInv, OpInv, Replaced
          <5> QED
            BY <2>18, <3>2, <3>8, <5>1 DEF Create
        <4>3. UNCHANGED <<asset, vault>> /\ \E ok \in BOOLEAN : Return(p, ok)
          BY <4>1, <4>2 DEF MarkContentConflict, TypeOK
        <4> QED
          BY <2>8, <4>3
      <3> SUFFICES ASSUME ~Replaced(d) PROVE CalmInv'
        BY <3>8
      <3>3. /\ vault' = [vault EXCEPT ![d] = "same"]
            /\ proc' = [proc EXCEPT ![p] = [@ EXCEPT !.at = "receipt"]]
            /\ UNCHANGED <<source, asset, edits>>
        BY <2>18, <3>2 DEF Create
      <3>4. proc'[p] = [proc[p] EXCEPT !.at = "receipt"]
        BY <3>3 DEF TypeOK
      <3>5. /\ proc'[p].stamp = proc[p].stamp /\ proc'[p].sum = proc[p].sum
            /\ proc'[p].left = proc[p].left /\ proc'[p].now = proc[p].now
        BY <1>1, <3>4 DEF Process
      <3>6. Faithful(p)'
        BY <2>6, <3>1, <3>3, <3>5
      <3>7. \A e \in Digest : vault'[e] \in {vault[e], "same"}
        BY <3>3 DEF TypeOK
      <3> QED
        BY <2>4, <3>3, <3>6, <3>7
    <2>19. ASSUME NEW p \in Proc, NEW d \in Digest, Receipt(p, d) PROVE CalmInv'
      <3>1. CASE Return(p, FALSE) /\ UNCHANGED durable
        BY <2>8, <3>1 DEF durable
      <3>2. CASE Applied(d)
        <4> DEFINE phase == IF proc[p].left = {d} THEN "project" ELSE "store"
        <4>1. /\ proc' = [proc EXCEPT ![p] = [@ EXCEPT
                            !.at = phase, !.left = proc[p].left \ {d}, !.now = {}]]
              /\ UNCHANGED <<source, asset, vault, edits>> /\ proc[p].at = "receipt"
          BY <2>19, <3>2 DEF Receipt, Applied
        <4>2. proc'[p] = [proc[p] EXCEPT !.at = phase, !.left = proc[p].left \ {d}, !.now = {}]
          BY <4>1 DEF TypeOK
        <4>3. /\ proc'[p].stamp = proc[p].stamp /\ proc'[p].sum = proc[p].sum
              /\ proc'[p].left = proc[p].left \ {d} /\ proc'[p].now = {}
          <5> HIDE DEF phase
          <5> QED
            BY <1>1, <4>2 DEF Process
        <4>4. Faithful(p)'
          BY <2>1, <2>6, <4>1, <4>3 DEF Faithful
        <4> HIDE DEF phase
        <4> QED
          BY <2>4, <2>7, <4>1, <4>4
      <3> QED
        BY <2>19, <3>1, <3>2 DEF Receipt
    <2>20. ASSUME NEW p \in Proc, \/ Project(p) \/ ResolveNone(p) \/ Index(p) \/ IndexWarns(p)
                                  \/ ResolveConflict(p) \/ ResolveDuplicate(p)
           PROVE  CalmInv'
      BY <2>7, <2>8, <2>9, <2>20 DEF Project, ResolveNone, Index, IndexWarns, ResolveConflict,
                                     ResolveDuplicate, durable
    <2>21. ASSUME NEW p \in Proc, FinalizeReady(p) PROVE CalmInv'
      <3>1. CASE Return(p, FALSE) /\ UNCHANGED durable
        BY <2>8, <3>1 DEF durable
      <3>2. CASE /\ asset' = [asset EXCEPT ![proc[p].asset] = "ready"]
                 /\ Goto(p, "index") /\ UNCHANGED vault
        <4>1. \A a \in Asset : asset'[a] \in {asset[a], "pending", "ready"}
          BY <3>2 DEF TypeOK
        <4> QED
          BY <2>9, <3>2, <4>1
      <3> QED
        BY <2>21, <3>1, <3>2 DEF FinalizeReady
    <2>22. ASSUME NEW p \in Proc, Fails(p) PROVE CalmInv'
      <3>1. proc'[p] = Idle
        BY <2>22 DEF Fails, TypeOK
      <3> QED
        BY <2>4, <2>5, <2>7, <2>22, <3>1 DEF Fails, durable
    <2>23. ASSUME Stop PROVE CalmInv'
      <3>1. \A p \in Proc : proc'[p] = Idle
        BY <2>23 DEF Stop
      <3> QED
        BY <2>3, <2>5, <2>7, <2>23, <3>1 DEF Stop, durable
    <2>24. ASSUME NEW a \in Asset, Visit(a) PROVE CalmInv'
      <3> DEFINE l == {d \in Contents(a) : op[d] = "pending"}
      <3>1. /\ proc' = [proc EXCEPT ![Recoverer] =
                          [Idle EXCEPT !.at = "adopt", !.asset = a, !.left = l]]
            /\ UNCHANGED <<source, asset, vault, edits>>
        BY <2>1, <2>24 DEF Visit, durable
      <3>2. proc'[Recoverer] = [Idle EXCEPT !.at = "adopt", !.asset = a, !.left = l]
        BY <3>1 DEF TypeOK
      <3>3. /\ proc'[Recoverer].stamp = [f \in File |-> 0] /\ proc'[Recoverer].sum = {}
            /\ proc'[Recoverer].at = "adopt"
        <4> HIDE DEF l
        <4> QED
          BY <3>2 DEF Idle
      <3>4. Faithful(Recoverer)'
        BY <3>3 DEF Faithful
      <3> HIDE DEF l
      <3> QED
        BY <2>4, <2>7, <3>1, <3>4
    <2>28. ASSUME AdoptRefused PROVE CalmInv'
      <3>1. proc'[Recoverer] = Idle
        BY <2>28 DEF AdoptRefused, TypeOK
      <3> QED
        BY <2>4, <2>5, <2>7, <2>28, <3>1 DEF AdoptRefused, durable
    <2>25. ASSUME NEW d \in Digest, Adopt(d), ~AdoptRefused PROVE CalmInv'
      <3> DEFINE r == Recoverer
      <3>1. PICK x : /\ proc' = [proc EXCEPT ![r] = x]
                     /\ \/ x = [proc[r] EXCEPT !.left = proc[r].left \ {d}]
                        \/ x = [proc[r] EXCEPT !.left = proc[r].left \ {d}, !.missing = TRUE]
                     /\ UNCHANGED <<source, asset, vault, edits>>
        BY <2>1, <2>25 DEF Adopt, Applied, durable
      <3>2. proc'[r] = x /\ proc[r].at = "adopt"
        BY <2>25, <3>1 DEF Adopt, TypeOK
      <3>3. proc'[r].stamp = proc[r].stamp /\ proc'[r].sum = proc[r].sum
            /\ proc'[r].at = "adopt"
        <4> DEFINE D == proc[r].left \ {d}
        <4>1. /\ Adopting([proc[r] EXCEPT !.left = D], proc[r], D)
              /\ Adopting([proc[r] EXCEPT !.left = D, !.missing = TRUE], proc[r], D)
          BY <1>1, LeftKept, LeftKeptMissing
        <4> QED
          BY <3>1, <3>2, <4>1 DEF Adopting
      <3>4. Faithful(r)'
        BY <2>6, <3>1, <3>3
      <3> QED
        BY <2>4, <2>7, <3>1, <3>4
    <2>26. ASSUME Adopted PROVE CalmInv'
      BY <2>7, <2>8, <2>9, <2>26 DEF Adopted, durable
    <2>27. ASSUME \/ StartImport \/ EndImport \/ StartRecovery \/ EndRecovery \/ Skip
                  \/ UNCHANGED vars
           PROVE  CalmInv'
      <3>1. UNCHANGED <<source, asset, vault, proc, edits>>
        BY <2>27 DEF StartImport, EndImport, StartRecovery, EndRecovery, Skip, Unsettled,
                     vars, durable
      <3> QED
        BY <2>1, <3>1 DEF CalmInv, Faithful, Sums
    <2> QED
      BY <2>2, <2>10, <2>11, <2>12, <2>13, <2>14, <2>15, <2>17, <2>18, <2>19, <2>20, <2>21,
         <2>22, <2>23, <2>24, <2>25, <2>26, <2>27, <2>28
         DEF Next, GroupStep, RecoveryStep
  <1> QED
    BY <1>2, <1>3

\* Only a change from outside can end in the terminal conflict.
THEOREM ConflictCaused == Spec => []ConflictHasCause
  <1>1. Init => CalmInv
    <2> SUFFICES ASSUME Init PROVE CalmInv
      OBVIOUS
    <2>1. \A p \in Proc : Faithful(p)
      BY DEF Init, Idle, Faithful
    <2> QED
      BY <2>1 DEF Init, CalmInv
  <1>2. CalmInv /\ TypeOK => ConflictHasCause
    BY DEF CalmInv, ConflictHasCause, TypeOK
  <1> QED
    BY <1>1, <1>2, NextCalm, Invariance, CommitsReady, PTL DEF Spec, IInv
=============================================================================
