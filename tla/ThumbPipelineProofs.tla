------------------------- MODULE ThumbPipelineProofs -------------------------
(***************************************************************************)
(* Safety of the thumbnail queue and its worker for every set of assets,   *)
(* number of sizes and concurrency.  The argument is about versions only:  *)
(* every return to pending takes a new one, so no two attempts share a key *)
(* and an item of an older version can neither write under the current one *)
(* nor finalise the row.                                                   *)
(***************************************************************************)
EXTENDS ThumbPipeline, TLAPS

\* The versions used so far: those of the items in hand and of the objects.
VersionInv(m) ==
    /\ item[m].stage # "none" => item[m].version <= version[m]
    /\ item[m].stage # "none" /\ status[m] = "pending" => item[m].version < version[m]
    /\ \A o \in stored[m] : o.version <= version[m]

\* An attempt starts under a version without objects.
FreshInv(m) ==
    item[m].stage \in {"queued", "decoding"} =>
        /\ item[m].next = 1
        /\ \A o \in stored[m] : o.version < item[m].version

\* An attempt that writes has written the sizes before next, and nobody else
\* has written under its version.
WrittenInv(m) ==
    LET i == item[m]
    IN  i.stage = "writing" =>
          /\ \A o \in stored[m] :
               /\ o.version <= i.version
               /\ o.version = i.version => o.source = i.source
          /\ \A k \in 1..Sizes : k < i.next =>
               [version |-> i.version, size |-> k, source |-> i.source] \in stored[m]

\* As long as its version is the row's, what it decoded is what is current.
SourceInv(m) ==
    item[m].stage = "writing" /\ item[m].version = version[m]
        => item[m].source = content[m]

ReadyInv(m) == status[m] = "ready" => \A k \in 1..Sizes : Holds(m, k, content[m])

UnwrittenInv(m) == status[m] = "pending" => \A o \in stored[m] : o.version < version[m]

Safe(m) ==
    /\ VersionInv(m)
    /\ FreshInv(m)
    /\ WrittenInv(m)
    /\ SourceInv(m)
    /\ ReadyInv(m)
    /\ UnwrittenInv(m)

IInv == TypeOK /\ \A m \in Asset : Safe(m)

USE ThumbAssumption DEF Terminal, Stage, Item, NoItem

LEMMA InitIInv == Init => IInv
  <1> SUFFICES ASSUME Init
               PROVE  IInv
    OBVIOUS
  <1> USE DEF Init, bounds
  <1>1. TypeOK
    BY DEF TypeOK
  <1>2. ASSUME NEW m \in Asset PROVE Safe(m)
    BY <1>2 DEF Safe, VersionInv, FreshInv, WrittenInv, SourceInv, ReadyInv, UnwrittenInv
  <1> QED
    BY <1>1, <1>2 DEF IInv

\* A row that goes back to pending leaves its item and its objects behind,
\* whether or not its content changed with it.
LEMMA RequeueSafe ==
    ASSUME IInv,
           NEW S \in SUBSET Asset,
           Requeue(S),
           UNCHANGED <<item, stored>>,
           content' \in [Asset -> Nat],
           \A m \in Asset \ S : content'[m] = content[m]
    PROVE  /\ status' \in [Asset -> Terminal \cup {"pending", "working"}]
           /\ version' \in [Asset -> Nat]
           /\ claimedAt' \in [Asset -> Nat]
           /\ overdue' \in [Asset -> BOOLEAN]
           /\ \A m \in Asset : Safe(m)'
  <1> USE DEF IInv, TypeOK, Requeue
  <1>1. status' \in [Asset -> Terminal \cup {"pending", "working"}]
    OBVIOUS
  <1>2. version' \in [Asset -> Nat]
    OBVIOUS
  <1>3. claimedAt' \in [Asset -> Nat]
    OBVIOUS
  <1>4. overdue' \in [Asset -> BOOLEAN]
    OBVIOUS
  <1>5. ASSUME NEW m \in Asset PROVE Safe(m)'
    <2>1. item[m] \in Item /\ version[m] \in Nat
      OBVIOUS
    <2>2. \A o \in stored[m] : o.version \in Nat
      OBVIOUS
    <2>3. CASE m \in S
      <3>1. status'[m] = "pending" /\ version'[m] = version[m] + 1
        BY <2>3
      <3> QED
        BY <2>1, <2>2, <3>1
        DEF Safe, VersionInv, FreshInv, WrittenInv, SourceInv, ReadyInv, UnwrittenInv
    <2>4. CASE m \notin S
      <3>1. status'[m] = status[m] /\ version'[m] = version[m] /\ content'[m] = content[m]
        BY <2>4
      <3> QED
        BY <2>1, <2>2, <3>1
        DEF Safe, VersionInv, FreshInv, WrittenInv, SourceInv, ReadyInv, UnwrittenInv, Holds
    <2> QED
      BY <2>3, <2>4
  <1> QED
    BY <1>1, <1>2, <1>3, <1>4, <1>5

\* Dropping an item asks nothing of the row.
LEMMA DropSafe ==
    ASSUME NEW m \in Asset, Safe(m),
           item'[m] = NoItem \/ item'[m] = item[m],
           status'[m] = status[m],
           UNCHANGED <<content, version, stored>>
    PROVE  Safe(m)'
  BY DEF Safe, VersionInv, FreshInv, WrittenInv, SourceInv, ReadyInv, UnwrittenInv, Holds

LEMMA ClaimIInv == IInv /\ ClaimBatch => IInv'
  <1> SUFFICES ASSUME IInv, ClaimBatch
               PROVE  IInv'
    OBVIOUS
  <1> DEFINE batch == Newest(Claimable, 2 * Concurrency)
  <1>1. batch \subseteq Claimable
    BY DEF Newest
  <1>2. \A m \in Asset : item[m].stage = "none"
    BY DEF ClaimBatch, Busy, IInv, TypeOK
  <1>3. /\ clock' = clock + 1
        /\ status' = [m \in Asset |-> IF m \in batch THEN "working" ELSE status[m]]
        /\ claimedAt' = [m \in Asset |-> IF m \in batch THEN clock + 1 ELSE claimedAt[m]]
        /\ item' = [m \in Asset |->
             IF m \in batch
               THEN [stage |-> "queued", version |-> version[m], claimedAt |-> clock + 1,
                     source |-> 0, next |-> 1]
               ELSE item[m]]
        /\ UNCHANGED <<content, hidden, version, overdue, stored, edits, faults>>
    BY DEF ClaimBatch, bounds
  <1> HIDE DEF batch
  <1>4. TypeOK'
    BY <1>3 DEF IInv, TypeOK
  <1>5. ASSUME NEW m \in Asset PROVE Safe(m)'
    <2>1. CASE m \in batch
      <3>1. status[m] = "pending" /\ UnwrittenInv(m)
        BY <1>1, <2>1 DEF Claimable, IInv, Safe
      <3>2. /\ status'[m] = "working"
            /\ item'[m].stage = "queued"
            /\ item'[m].version = version[m]
            /\ item'[m].next = 1
        BY <1>3, <2>1
      <3>3. version[m] \in Nat /\ \A o \in stored[m] : o.version \in Nat
        BY DEF IInv, TypeOK
      <3> QED
        BY <1>3, <3>1, <3>2, <3>3
        DEF Safe, VersionInv, FreshInv, WrittenInv, SourceInv, ReadyInv, UnwrittenInv
    <2>2. CASE m \notin batch
      <3>1. status'[m] = status[m] /\ item'[m] = item[m]
        BY <1>3, <2>2
      <3> QED
        BY <1>3, <3>1
        DEF IInv, Safe, VersionInv, FreshInv, WrittenInv, SourceInv, ReadyInv, UnwrittenInv, Holds
    <2> QED
      BY <2>1, <2>2
  <1> QED
    BY <1>4, <1>5 DEF IInv

LEMMA StartIInv == ASSUME IInv, NEW m \in Asset, StartItem(m) PROVE IInv'
  <1> USE DEF StartItem, row, bounds
  <1>1. item[m].stage = "queued"
    BY DEF Newest, Busy
  <1>2. TypeOK'
    BY DEF IInv, TypeOK
  <1>3. ASSUME NEW n \in Asset PROVE Safe(n)'
    BY <1>1, <1>3
    DEF IInv, TypeOK, Safe, VersionInv, FreshInv, WrittenInv, SourceInv, ReadyInv, UnwrittenInv, Holds
  <1> QED
    BY <1>2, <1>3 DEF IInv

LEMMA DecodeIInv == ASSUME IInv, NEW m \in Asset, Decode(m) PROVE IInv'
  <1> USE DEF Decode, row, bounds
  <1>1. TypeOK'
    <2>1. item[m] \in Item /\ content[m] \in Nat
      BY DEF IInv, TypeOK
    <2>2. [item[m] EXCEPT !.stage = "writing", !.source = content[m]] \in Item
      BY <2>1
    <2>3. item' \in [Asset -> Item]
      BY <2>2 DEF IInv, TypeOK
    <2> QED
      BY <2>3 DEF IInv, TypeOK
  <1>2. ASSUME NEW n \in Asset PROVE Safe(n)'
    BY <1>2
    DEF IInv, TypeOK, Safe, VersionInv, FreshInv, WrittenInv, SourceInv, ReadyInv, UnwrittenInv, Holds
  <1> QED
    BY <1>1, <1>2 DEF IInv

\* By WrittenInv the key is free, so the write adds exactly the object that
\* the item has in hand.
LEMMA WriteIInv == ASSUME IInv, NEW m \in Asset, WriteSize(m) PROVE IInv'
  <1> DEFINE i == item[m]
             new == [version |-> i.version, size |-> i.next, source |-> i.source]
  <1> USE DEF WriteSize, row, bounds
  <1>1. /\ i.stage = "writing"
        /\ i \in Item
        /\ i.next \in 1..Sizes
        /\ Safe(m)
        /\ version[m] \in Nat
        /\ stored[m] \subseteq [version : Nat, size : 1..Sizes, source : Nat]
    BY DEF IInv, TypeOK, More
  <1>2. /\ item'[m].stage = "writing"
        /\ item'[m].version = i.version
        /\ item'[m].source = i.source
        /\ item'[m].next = i.next + 1
        /\ item'[m] \in Item
        /\ \A n \in Asset \ {m} : item'[n] = item[n] /\ stored'[n] = stored[n]
    BY <1>1 DEF IInv, TypeOK
  <1>3. /\ stored[m] \subseteq stored'[m]
        /\ stored'[m] \subseteq stored[m] \cup {new}
        /\ new \in stored'[m] \/ Occupied(m, i.version, i.next)
    BY <1>1 DEF IInv, TypeOK
  <1>4. Occupied(m, i.version, i.next) => new \in stored[m]
    BY <1>1 DEF Occupied, Safe, WrittenInv
  <1>5. TypeOK'
    BY <1>1, <1>2, <1>3 DEF IInv, TypeOK
  <1>6. ASSUME NEW n \in Asset PROVE Safe(n)'
    <2>1. CASE n = m
      <3>1. new \in stored'[m]
        BY <1>3, <1>4
      <3>2. VersionInv(m)' /\ FreshInv(m)' /\ SourceInv(m)'
        BY <1>1, <1>2, <1>3 DEF Safe, VersionInv, FreshInv, SourceInv
      <3>3. WrittenInv(m)'
        BY <1>1, <1>2, <1>3, <3>1 DEF Safe, WrittenInv
      <3>4. ReadyInv(m)' /\ UnwrittenInv(m)'
        BY <1>1, <1>3 DEF Safe, VersionInv, ReadyInv, UnwrittenInv, Holds
      <3> QED
        BY <2>1, <3>2, <3>3, <3>4 DEF Safe
    <2>2. CASE n # m
      BY <1>2, <2>2
      DEF IInv, Safe, VersionInv, FreshInv, WrittenInv, SourceInv, ReadyInv, UnwrittenInv, Holds
    <2> QED
      BY <2>1, <2>2
  <1> QED
    BY <1>5, <1>6 DEF IInv

\* The fence compares versions, so the content decoded by the item is the
\* content that is current when the row becomes ready.
LEMMA FinalizeIInv ==
    ASSUME IInv, NEW m \in Asset, NEW outcome \in Terminal, Finalize(m, outcome),
           outcome = "ready" => item[m].stage = "writing" /\ ~More(m)
    PROVE  IInv'
  <1> USE DEF Finalize, Drop, bounds
  <1>1. TypeOK'
    <2>1. item' \in [Asset -> Item]
      BY DEF IInv, TypeOK
    <2>2. status' \in [Asset -> Terminal \cup {"pending", "working"}]
      BY DEF IInv, TypeOK
    <2>3. claimedAt' \in [Asset -> Nat]
      BY DEF IInv, TypeOK
    <2>4. overdue' \in [Asset -> BOOLEAN]
      BY DEF IInv, TypeOK
    <2> QED
      BY <2>1, <2>2, <2>3, <2>4 DEF IInv, TypeOK
  <1>2. ASSUME NEW n \in Asset PROVE Safe(n)'
    <2>1. Safe(n) /\ item[m] \in Item
      BY DEF IInv, TypeOK
    <2>2. item'[n] = NoItem \/ item'[n] = item[n]
      BY DEF IInv, TypeOK
    <2>3. CASE status'[n] = status[n]
      BY <2>1, <2>2, <2>3, DropSafe
    <2>4. CASE status'[n] # status[n]
      <3>1. n = m /\ status'[m] = outcome /\ Fence(m)
        BY <2>4 DEF IInv, TypeOK
      <3>2. item'[m].stage = "none"
        BY DEF IInv, TypeOK
      <3>3. outcome = "ready" => \A k \in 1..Sizes : Holds(m, k, content[m])
        BY <2>1, <3>1 DEF Fence, More, Safe, WrittenInv, SourceInv, Holds
      <3> QED
        BY <2>1, <3>1, <3>2, <3>3
        DEF Safe, VersionInv, FreshInv, WrittenInv, SourceInv, ReadyInv, UnwrittenInv, Holds
    <2> QED
      BY <2>3, <2>4
  <1> QED
    BY <1>1, <1>2 DEF IInv

LEMMA NextIInv == IInv /\ [Next]_tvars => IInv'
  <1> SUFFICES ASSUME IInv, [Next]_tvars
               PROVE  IInv'
    OBVIOUS
  <1>1. ASSUME NEW S \in SUBSET Asset, Enqueue(S) PROVE IInv'
    BY <1>1, RequeueSafe DEF Enqueue, Edit, IInv, TypeOK
  <1>2. ASSUME NEW m \in Asset, ApplyCommit(m) PROVE IInv'
    <2>1. content' \in [Asset -> Nat] /\ \A n \in Asset \ {m} : content'[n] = content[n]
      BY <1>2 DEF ApplyCommit, IInv, TypeOK
    <2> QED
      BY <1>2, <2>1, RequeueSafe DEF ApplyCommit, Edit, IInv, TypeOK
  <1>3. ASSUME NEW m \in Asset, NEW h \in BOOLEAN, SetHidden(m, h) PROVE IInv'
    <2>1. TypeOK'
      BY <1>3 DEF SetHidden, row, bounds, IInv, TypeOK
    <2> QED
      BY <1>3, <2>1, DropSafe DEF SetHidden, row, IInv
  <1>4. CASE SweepLeases
    <2>1. Expired \subseteq Asset
      BY DEF Expired
    <2> QED
      BY <1>4, <2>1, RequeueSafe DEF SweepLeases, bounds, IInv, TypeOK
  <1>5. CASE ClaimBatch
    BY <1>5, ClaimIInv
  <1>6. ASSUME NEW m \in Asset, ItemStep(m) PROVE IInv'
    <2>1. CASE MarkReady(m)
      BY <2>1, FinalizeIInv DEF MarkReady
    <2>2. CASE MarkNoPreview(m)
      BY <2>2, FinalizeIInv DEF MarkNoPreview
    <2>3. CASE MarkFailed(m)
      BY <2>3, FinalizeIInv DEF MarkFailed
    <2> QED
      BY <1>6, <2>1, <2>2, <2>3, StartIInv, DecodeIInv, WriteIInv DEF ItemStep
  <1>7. ASSUME NEW m \in Asset, LoseItem(m) PROVE IInv'
    <2>1. TypeOK'
      BY <1>7 DEF LoseItem, Drop, Fault, row, IInv, TypeOK
    <2>2. \A n \in Asset : item'[n] = NoItem \/ item'[n] = item[n]
      BY <1>7 DEF LoseItem, Drop, IInv, TypeOK
    <2> QED
      BY <1>7, <2>1, <2>2, DropSafe DEF LoseItem, row, IInv
  <1>8. ASSUME NEW m \in Asset, Expire(m) PROVE IInv'
    <2>1. TypeOK'
      BY <1>8 DEF Expire, Fault, IInv, TypeOK
    <2> QED
      BY <1>8, <2>1, DropSafe DEF Expire, IInv
  <1>9. CASE Stop
    <2>1. TypeOK'
      BY <1>9 DEF Stop, Fault, row, IInv, TypeOK
    <2> QED
      BY <1>9, <2>1, DropSafe DEF Stop, row, IInv
  <1>10. CASE UNCHANGED tvars
    <2>1. TypeOK'
      BY <1>10 DEF tvars, row, bounds, IInv, TypeOK
    <2> QED
      BY <1>10, <2>1, DropSafe DEF tvars, row, IInv
  <1> QED
    BY <1>1, <1>2, <1>3, <1>4, <1>5, <1>6, <1>7, <1>8, <1>9, <1>10 DEF Next

LEMMA SpecIInv == Spec => []IInv
  BY InitIInv, NextIInv, PTL DEF Spec

-----------------------------------------------------------------------------
\* Every variable keeps its type, for every instance.
THEOREM TypeCorrect == Spec => []TypeOK
  <1>1. IInv => TypeOK
    BY DEF IInv
  <1> QED
    BY <1>1, SpecIInv, PTL

\* A thumbnail that is served was made from the content that is current: the
\* fence of finalize and the version taken by every requeue are enough.
THEOREM ReadyCurrent == Spec => []ReadyIsCurrent
  <1>1. IInv => ReadyIsCurrent
    BY DEF IInv, Safe, ReadyInv, ReadyIsCurrent
  <1> QED
    BY <1>1, SpecIInv, PTL

\* ErrPathOccupied may be counted as success: what is there is what was
\* about to be written.
THEOREM OccupiedValid == Spec => []OccupiedIsValid
  <1>1. IInv => OccupiedIsValid
    BY DEF IInv, Safe, WrittenInv, OccupiedIsValid
  <1> QED
    BY <1>1, SpecIInv, PTL

\* A pending row has no objects under its version, so an attempt never finds
\* the leftovers of another.
THEOREM PendingUnwritten == Spec => []PendingIsUnwritten
  <1>1. IInv => PendingIsUnwritten
    BY DEF IInv, Safe, UnwrittenInv, PendingIsUnwritten
  <1> QED
    BY <1>1, SpecIInv, PTL

-----------------------------------------------------------------------------
(* What readers of a row see.                                              *)

\* An item whose version is the row's holds the claim.
ClaimInv(m) ==
    item[m].stage # "none" /\ item[m].version = version[m] =>
        status[m] = "working" /\ claimedAt[m] = item[m].claimedAt

\* A ready row has no object of an older image under its version.
ServedInv(m) ==
    status[m] = "ready" =>
        \A o \in stored[m] : o.version = version[m] => o.source = content[m]

Seen(m) == ClaimInv(m) /\ ServedInv(m)

RInv == IInv /\ \A m \in Asset : Seen(m)

\* Neither a row that is queued again nor one whose item is dropped can break it.
LEMMA RowSeen ==
    ASSUME IInv, NEW m \in Asset, Seen(m),
           item'[m] = NoItem \/ item'[m] = item[m],
           stored'[m] = stored[m],
           \/ status'[m] = "pending" /\ version'[m] = version[m] + 1
           \/ /\ status'[m] = status[m]
              /\ version'[m] = version[m]
              /\ claimedAt'[m] = claimedAt[m]
              /\ content'[m] = content[m]
    PROVE  Seen(m)'
  <1>1. item[m].version \in Nat /\ version[m] \in Nat
    BY DEF IInv, TypeOK
  <1>2. item[m].stage # "none" => item[m].version <= version[m]
    BY DEF IInv, Safe, VersionInv
  <1> QED
    BY <1>1, <1>2 DEF Seen, ClaimInv, ServedInv

LEMMA RequeueSeen ==
    ASSUME RInv, NEW S \in SUBSET Asset, Requeue(S), UNCHANGED <<item, stored>>,
           \A m \in Asset \ S : content'[m] = content[m]
    PROVE  \A m \in Asset : Seen(m)'
  <1> SUFFICES ASSUME NEW m \in Asset
               PROVE  Seen(m)'
    OBVIOUS
  <1>1. CASE m \in S
    <2>1. status'[m] = "pending" /\ version'[m] = version[m] + 1
      BY <1>1 DEF Requeue
    <2> QED
      BY <2>1, RowSeen DEF RInv
  <1>2. CASE m \notin S
    <2>1. /\ status'[m] = status[m]
          /\ version'[m] = version[m]
          /\ claimedAt'[m] = claimedAt[m]
          /\ content'[m] = content[m]
      BY <1>2 DEF Requeue
    <2> QED
      BY <2>1, RowSeen DEF RInv
  <1> QED
    BY <1>1, <1>2

\* A batch takes the version and the time that the row has from then on.
LEMMA ClaimSeen == ASSUME RInv, ClaimBatch PROVE \A m \in Asset : Seen(m)'
  <1> DEFINE batch == Newest(Claimable, 2 * Concurrency)
  <1>1. /\ status' = [m \in Asset |-> IF m \in batch THEN "working" ELSE status[m]]
        /\ claimedAt' = [m \in Asset |-> IF m \in batch THEN clock + 1 ELSE claimedAt[m]]
        /\ item' = [m \in Asset |->
             IF m \in batch
               THEN [stage |-> "queued", version |-> version[m], claimedAt |-> clock + 1,
                     source |-> 0, next |-> 1]
               ELSE item[m]]
        /\ UNCHANGED <<content, version, stored>>
    BY DEF ClaimBatch
  <1> HIDE DEF batch
  <1> SUFFICES ASSUME NEW m \in Asset
               PROVE  Seen(m)'
    OBVIOUS
  <1>2. CASE m \in batch
    <2>1. status'[m] = "working" /\ claimedAt'[m] = clock + 1 /\ item'[m].claimedAt = clock + 1
      BY <1>1, <1>2
    <2> QED
      BY <2>1 DEF Seen, ClaimInv, ServedInv
  <1>3. CASE m \notin batch
    <2>1. status'[m] = status[m] /\ claimedAt'[m] = claimedAt[m] /\ item'[m] = item[m]
      BY <1>1, <1>3
    <2> QED
      BY <1>1, <2>1, RowSeen DEF RInv
  <1> QED
    BY <1>2, <1>3

\* An item under way keeps its claim; what it writes is not under a ready row.
LEMMA ItemSeen ==
    ASSUME RInv, NEW m \in Asset, StartItem(m) \/ Decode(m) \/ WriteSize(m)
    PROVE  \A n \in Asset : Seen(n)'
  <1>1. /\ item[m].stage # "none"
        /\ item'[m].version = item[m].version
        /\ item'[m].claimedAt = item[m].claimedAt
        /\ \A n \in Asset \ {m} : item'[n] = item[n] /\ stored'[n] = stored[n]
        /\ \A o \in stored'[m] : o \in stored[m] \/ o.version = item[m].version
        /\ UNCHANGED <<content, status, version, claimedAt>>
    BY DEF RInv, IInv, TypeOK, StartItem, Decode, WriteSize, Newest, Busy, row
  <1> SUFFICES ASSUME NEW n \in Asset
               PROVE  Seen(n)'
    OBVIOUS
  <1>2. CASE n = m
    <2>1. ClaimInv(m)'
      BY <1>1 DEF RInv, Seen, ClaimInv
    <2>2. ServedInv(m)'
      BY <1>1 DEF RInv, Seen, ClaimInv, ServedInv
    <2> QED
      BY <1>2, <2>1, <2>2 DEF Seen
  <1>3. CASE n # m
    BY <1>1, <1>3, RowSeen DEF RInv
  <1> QED
    BY <1>2, <1>3

\* By WrittenInv all objects of the item's version are its own.
LEMMA FinalizeSeen ==
    ASSUME RInv, NEW m \in Asset, NEW outcome \in Terminal, Finalize(m, outcome),
           outcome = "ready" => item[m].stage = "writing"
    PROVE  \A n \in Asset : Seen(n)'
  <1>1. /\ item'[m] = NoItem
        /\ \A n \in Asset \ {m} : item'[n] = item[n]
        /\ UNCHANGED <<content, version, stored>>
    BY DEF RInv, IInv, TypeOK, Finalize, Drop
  <1>2. \A n \in Asset \ {m} : status'[n] = status[n] /\ claimedAt'[n] = claimedAt[n]
    BY DEF RInv, IInv, TypeOK, Finalize
  <1>3. ASSUME NEW n \in Asset, n # m PROVE Seen(n)'
    BY <1>1, <1>2, <1>3, RowSeen DEF RInv
  <1>4. Seen(m)'
    <2>1. ClaimInv(m)'
      BY <1>1 DEF ClaimInv
    <2>2. ServedInv(m)'
      <3>1. CASE Fence(m)
        <4>1. status'[m] = outcome
          BY <3>1 DEF RInv, IInv, TypeOK, Finalize
        <4>2. outcome = "ready" =>
                \A o \in stored[m] : o.version = version[m] => o.source = content[m]
          BY <3>1 DEF RInv, IInv, Safe, WrittenInv, SourceInv, Fence
        <4> QED
          BY <1>1, <4>1, <4>2 DEF ServedInv
      <3>2. CASE ~Fence(m)
        <4>1. status' = status
          BY <3>2 DEF Finalize
        <4> QED
          BY <1>1, <4>1 DEF RInv, Seen, ServedInv
      <3> QED
        BY <3>1, <3>2
    <2> QED
      BY <2>1, <2>2 DEF Seen
  <1> QED
    BY <1>3, <1>4

LEMMA NextRInv == RInv /\ [Next]_tvars => RInv'
  <1> SUFFICES ASSUME RInv, [Next]_tvars
               PROVE  \A m \in Asset : Seen(m)'
    BY NextIInv DEF RInv
  <1>1. ASSUME NEW S \in SUBSET Asset, Enqueue(S) PROVE \A m \in Asset : Seen(m)'
    BY <1>1, RequeueSeen DEF Enqueue
  <1>2. ASSUME NEW m \in Asset, ApplyCommit(m) PROVE \A n \in Asset : Seen(n)'
    <2>1. \A n \in Asset \ {m} : content'[n] = content[n]
      BY <1>2 DEF ApplyCommit, RInv, IInv, TypeOK
    <2> QED
      BY <1>2, <2>1, RequeueSeen DEF ApplyCommit
  <1>3. CASE SweepLeases
    <2>1. Expired \subseteq Asset
      BY DEF Expired
    <2> QED
      BY <1>3, <2>1, RequeueSeen DEF SweepLeases
  <1>4. CASE ClaimBatch
    BY <1>4, ClaimSeen
  <1>5. ASSUME NEW m \in Asset, ItemStep(m) PROVE \A n \in Asset : Seen(n)'
    <2>1. CASE MarkReady(m)
      BY <2>1, FinalizeSeen DEF MarkReady
    <2>2. CASE MarkNoPreview(m)
      BY <2>2, FinalizeSeen DEF MarkNoPreview
    <2>3. CASE MarkFailed(m)
      BY <2>3, FinalizeSeen DEF MarkFailed
    <2> QED
      BY <1>5, <2>1, <2>2, <2>3, ItemSeen DEF ItemStep
  <1>6. CASE \/ \E m \in Asset, h \in BOOLEAN : SetHidden(m, h)
             \/ \E m \in Asset : LoseItem(m) \/ Expire(m)
             \/ Stop
             \/ UNCHANGED tvars
    <2>1. /\ UNCHANGED <<content, status, version, claimedAt, stored>>
          /\ \A m \in Asset : item'[m] = NoItem \/ item'[m] = item[m]
      BY <1>6 DEF SetHidden, LoseItem, Expire, Stop, Drop, row, tvars, RInv, IInv, TypeOK
    <2> QED
      BY <2>1, RowSeen DEF RInv
  <1> QED
    BY <1>1, <1>2, <1>3, <1>4, <1>5, <1>6 DEF Next

LEMMA SpecRInv == Spec => []RInv
  <1>1. Init => RInv
    BY InitIInv DEF Init, RInv, Seen, ClaimInv, ServedInv
  <1> QED
    BY <1>1, NextRInv, PTL DEF Spec

\* The version alone would do as the fence of the finalising statements:
\* whenever it still matches, so does thumb_claimed_at.
THEOREM VersionFence == Spec => []VersionDecides
  <1>1. RInv => VersionDecides
    BY DEF RInv, Seen, ClaimInv, VersionDecides, Fence
  <1> QED
    BY <1>1, SpecRInv, PTL

\* Nothing to see: the row stays what it is to others, and so does what a
\* reader of a ready row finds.
Unseen(m) ==
    /\ Preview(m)' = Preview(m)
    /\ status[m] = "ready" =>
         /\ version'[m] = version[m]
         /\ \A o \in [version : {version[m]}, size : 1..Sizes, source : Nat] :
              o \in stored'[m] <=> o \in stored[m]

LEMMA ViewKept ==
    ASSUME TypeOK, TypeOK', NEW m \in Asset, Unseen(m)
    PROVE  Preview(m)' = Preview(m) /\ Served(m)' = Served(m)
  <1>1. Preview(m)' = Preview(m)
    BY DEF Unseen
  <1>2. status'[m] = "ready" <=> status[m] = "ready"
    BY <1>1 DEF Preview
  <1>3. CASE status[m] = "ready"
    <2>1. version'[m] = version[m]
      BY <1>3 DEF Unseen
    <2>2. {p \in stored'[m] : p.version = version[m]} = {p \in stored[m] : p.version = version[m]}
      <3>1. stored[m] \subseteq [version : Nat, size : 1..Sizes, source : Nat]
        BY DEF TypeOK
      <3>2. stored'[m] \subseteq [version : Nat, size : 1..Sizes, source : Nat]
        BY DEF TypeOK
      <3>3. ASSUME NEW o \in [version : Nat, size : 1..Sizes, source : Nat], o.version = version[m]
            PROVE  o \in stored'[m] <=> o \in stored[m]
        BY <1>3, <3>3 DEF Unseen
      <3> QED
        BY <3>1, <3>2, <3>3
    <2> QED
      BY <1>1, <1>2, <1>3, <2>1, <2>2 DEF Served
  <1>4. CASE status[m] # "ready"
    BY <1>1, <1>2, <1>4 DEF Served
  <1> QED
    BY <1>3, <1>4

LEMMA Stutters ==
    ASSUME TypeOK, TypeOK', \A m \in Asset : Unseen(m), UNCHANGED content
    PROVE  UNCHANGED Previews!pvars
  BY ViewKept DEF Previews!pvars

\* Rows of S go back to pending, whether they were shown or not.
LEMMA Withdrawn ==
    ASSUME RInv, RInv', NEW S \in SUBSET Asset, Requeue(S), UNCHANGED stored
    PROVE  Previews!Withdraw(S)
  <1>1. ASSUME NEW m \in S PROVE Preview(m)' = "pending" /\ Served(m)' = {}
    <2>1. status'[m] = "pending"
      BY DEF Requeue
    <2> QED
      BY <2>1 DEF Preview, Served
  <1>2. ASSUME NEW m \in Asset \ S PROVE Preview(m)' = Preview(m) /\ Served(m)' = Served(m)
    <2>1. status'[m] = status[m] /\ version'[m] = version[m] /\ stored'[m] = stored[m]
      BY DEF Requeue
    <2> QED
      BY <2>1 DEF Preview, Served
  <1> QED
    BY <1>1, <1>2 DEF Previews!Withdraw

\* A claim that holds ends in the outcome, and a ready row shows the present
\* content and nothing else.
LEMMA Settled ==
    ASSUME RInv, RInv', NEW m \in Asset, NEW outcome \in Terminal, Finalize(m, outcome),
           item[m].stage # "none"
    PROVE  Previews!Next \/ UNCHANGED Previews!pvars
  <1>1. UNCHANGED <<content, version, stored>>
    BY DEF Finalize
  <1>2. TypeOK /\ TypeOK'
    BY DEF RInv, IInv
  <1>3. CASE ~Fence(m)
    <2>1. status' = status
      BY <1>3 DEF Finalize
    <2> QED
      BY <1>1, <1>2, <2>1, Stutters DEF Unseen, Preview
  <1>4. CASE Fence(m)
    <2>1. status[m] = "working" /\ status'[m] = outcome
      BY <1>2, <1>4 DEF RInv, Seen, ClaimInv, Fence, Finalize, TypeOK
    <2>2. \A n \in Asset \ {m} : status'[n] = status[n]
      BY <1>2, <1>4 DEF Finalize, TypeOK
    <2>3. \A n \in Asset \ {m} : Preview(n)' = Preview(n) /\ Served(n)' = Served(n)
      BY <1>1, <2>2 DEF Preview, Served
    <2>4. Preview(m) = "pending" /\ Preview(m)' = outcome /\ Served(m) = {}
      BY <2>1 DEF Preview, Served
    <2>5. CASE outcome = "ready"
      <3>1. status'[m] = "ready"
        BY <2>1, <2>5
      <3>2. /\ \A k \in 1..Sizes : Holds(m, k, content[m])'
            /\ \A o \in stored'[m] : o.version = version'[m] => o.source = content'[m]
        BY <1>1, <3>1 DEF RInv, IInv, Safe, ReadyInv, Seen, ServedInv, Holds
      <3>3. [version |-> version'[m], size |-> 1, source |-> content'[m]] \in stored'[m]
        BY <1>1, <3>2 DEF Holds
      <3>4. Served(m)' = {content'[m]}
        BY <3>1, <3>2, <3>3 DEF Served
      <3> QED
        BY <1>1, <2>3, <2>4, <2>5, <3>4 DEF Previews!Next, Previews!Render
    <2>6. CASE outcome \in {"no_preview", "failed"}
      <3>1. Served(m)' = {}
        BY <2>1, <2>6 DEF Served
      <3> QED
        BY <1>1, <2>3, <2>4, <2>6, <3>1 DEF Previews!Next, Previews!GiveUp
    <2> QED
      BY <2>5, <2>6
  <1> QED
    BY <1>3, <1>4

\* What is written under a ready row is under an older version, where no
\* reader looks.
LEMMA WriteUnseen ==
    ASSUME RInv, NEW m \in Asset, WriteSize(m)
    PROVE  \A n \in Asset : Unseen(n)
  <1>1. /\ item[m].stage # "none"
        /\ UNCHANGED <<content, status, version>>
        /\ \A n \in Asset \ {m} : stored'[n] = stored[n]
        /\ stored[m] \subseteq stored'[m]
        /\ \A o \in stored'[m] : o \in stored[m] \/ o.version = item[m].version
    BY DEF RInv, IInv, TypeOK, WriteSize, row
  <1>2. status[m] = "ready" => item[m].version # version[m]
    BY <1>1 DEF RInv, Seen, ClaimInv
  <1>3. Unseen(m)
    BY <1>1, <1>2 DEF Unseen, Preview
  <1>4. \A n \in Asset \ {m} : Unseen(n)
    BY <1>1 DEF Unseen, Preview
  <1> QED
    BY <1>3, <1>4

\* To those who read photos, the queue with its sweeps, lost claims, second
\* attempts and leftovers in a store that never overwrites is PreviewLedger: a
\* preview comes and goes as a whole, and always shows the present image.
THEOREM PreviewsImplemented == Spec => ImplementsPreviews
  <1>1. Init => Previews!Init
    BY DEF Init, Previews!Init, Preview, Served
  <1>2. RInv /\ RInv' /\ [Next]_tvars => [Previews!Next]_Previews!pvars
    <2> SUFFICES ASSUME RInv, RInv', [Next]_tvars
                 PROVE  Previews!Next \/ UNCHANGED Previews!pvars
      OBVIOUS
    <2>1. TypeOK /\ TypeOK'
      BY DEF RInv, IInv
    <2>2. ASSUME NEW S \in SUBSET Asset, Enqueue(S) PROVE Previews!Next
      BY <2>2, Withdrawn DEF Enqueue, Previews!Next, Previews!Again
    <2>3. ASSUME NEW m \in Asset, ApplyCommit(m) PROVE Previews!Next
      BY <2>3, Withdrawn DEF ApplyCommit, Previews!Next, Previews!Commit, Previews!NewImage
    <2>4. CASE SweepLeases
      <3>1. /\ UNCHANGED <<content, stored>>
            /\ \A m \in Asset :
                 \/ status'[m] = status[m] /\ version'[m] = version[m]
                 \/ status[m] = "working" /\ status'[m] = "pending"
        BY <2>4 DEF SweepLeases, Requeue, Expired
      <3>2. \A m \in Asset : Unseen(m)
        BY <3>1 DEF Unseen, Preview
      <3> QED
        BY <2>1, <3>1, <3>2, Stutters
    <2>5. CASE ClaimBatch
      <3>1. Newest(Claimable, 2 * Concurrency) \subseteq Claimable
        BY DEF Newest
      <3>2. /\ UNCHANGED <<content, version, stored>>
            /\ \A m \in Asset :
                 \/ status'[m] = status[m]
                 \/ status[m] = "pending" /\ status'[m] = "working"
        BY <2>5, <3>1 DEF ClaimBatch, Claimable
      <3>3. \A m \in Asset : Unseen(m)
        BY <3>2 DEF Unseen, Preview
      <3> QED
        BY <2>1, <3>2, <3>3, Stutters
    <2>6. ASSUME NEW m \in Asset, ItemStep(m) PROVE Previews!Next \/ UNCHANGED Previews!pvars
      <3>1. CASE StartItem(m) \/ Decode(m)
        <4>1. UNCHANGED <<content, status, version, stored>>
          BY <3>1 DEF StartItem, Decode, row
        <4> QED
          BY <2>1, <4>1, Stutters DEF Unseen, Preview
      <3>2. CASE WriteSize(m)
        <4>1. UNCHANGED content
          BY <3>2 DEF WriteSize
        <4> QED
          BY <2>1, <3>2, <4>1, WriteUnseen, Stutters
      <3>3. CASE MarkReady(m)
        BY <3>3, Settled DEF MarkReady
      <3>4. CASE MarkNoPreview(m)
        BY <3>4, Settled DEF MarkNoPreview
      <3>5. CASE MarkFailed(m)
        BY <3>5, Settled DEF MarkFailed
      <3> QED
        BY <2>6, <3>1, <3>2, <3>3, <3>4, <3>5 DEF ItemStep
    <2>7. CASE \/ \E m \in Asset, h \in BOOLEAN : SetHidden(m, h)
               \/ \E m \in Asset : LoseItem(m) \/ Expire(m)
               \/ Stop
               \/ UNCHANGED tvars
      <3>1. UNCHANGED <<content, status, version, stored>>
        BY <2>7 DEF SetHidden, LoseItem, Expire, Stop, row, tvars
      <3> QED
        BY <2>1, <3>1, Stutters DEF Unseen, Preview
    <2> QED
      BY <2>2, <2>3, <2>4, <2>5, <2>6, <2>7 DEF Next
  <1> QED
    BY <1>1, <1>2, SpecRInv, PTL DEF Spec, ImplementsPreviews, Previews!Spec
=============================================================================
