------------------------- MODULE PreviewReaderProofs -------------------------
(***************************************************************************)
(* A reader that looked up a ready row may take its time: what it found    *)
(* never changes again, whatever the queue and the worker do.  The reason  *)
(* is a fact about one version of one asset: once the row was ready under  *)
(* it, its set of objects is complete, of one image, and closed.           *)
(***************************************************************************)
EXTENDS PreviewReader, ThumbPipelineProofs

\* Version v of m is complete, shows image i, and nobody writes under it or
\* takes it up again.
Fixed(m, v, i) ==
    /\ v <= version[m]
    /\ version[m] = v => status[m] = "ready"
    /\ item[m].stage # "none" => item[m].version # v
    /\ \A k \in 1..Sizes : [version |-> v, size |-> k, source |-> i] \in stored[m]
    /\ \A o \in stored[m] : o.version = v => o.source = i

\* What a reader looked up is fixed, and it got nothing else.
ReadingInv(r) ==
    Active(r) =>
        /\ Fixed(reading[r].asset, reading[r].version, reading[r].image)
        /\ reading[r].got \in {0, reading[r].image}

\* A copy is a copy of an object that is still there.
CopyInv(c) == [version |-> c.version, size |-> c.size, source |-> c.source] \in stored[c.asset]

ReaderInv ==
    /\ RInv
    /\ ReaderTypeOK
    /\ \A r \in Reader : ReadingInv(r)
    /\ \A c \in copies : CopyInv(c)

USE ThumbAssumption DEF Terminal, Stage, Item, NoItem

LEMMA ReadyFixed ==
    ASSUME RInv, NEW m \in Asset, status[m] = "ready"
    PROVE  Fixed(m, version[m], content[m])
  <1>1. version[m] \in Nat
    BY DEF RInv, IInv, TypeOK
  <1>2. \A k \in 1..Sizes : Holds(m, k, content[m])
    BY DEF RInv, IInv, Safe, ReadyInv
  <1>3. item[m].stage # "none" => item[m].version # version[m]
    BY DEF RInv, Seen, ClaimInv
  <1>4. \A o \in stored[m] : o.version = version[m] => o.source = content[m]
    BY DEF RInv, Seen, ServedInv
  <1> QED
    BY <1>1, <1>2, <1>3, <1>4 DEF Fixed, Holds

\* Nothing deletes an object.
LEMMA StoreGrows ==
    ASSUME TypeOK, [Next]_tvars, NEW m \in Asset
    PROVE  stored[m] \subseteq stored'[m]
  <1>1. CASE \E n \in Asset : WriteSize(n)
    BY <1>1 DEF WriteSize, TypeOK
  <1>2. CASE ~\E n \in Asset : WriteSize(n)
    <2>1. stored' = stored
      BY <1>2 DEF Next, Enqueue, ApplyCommit, SetHidden, SweepLeases, ClaimBatch, ItemStep,
         StartItem, Decode, MarkReady, MarkNoPreview, MarkFailed, Finalize, LoseItem, Expire,
         Stop, tvars
    <2> QED
      BY <2>1
  <1> QED
    BY <1>1, <1>2

\* Steps that write nothing: the row is left alone, or queued again under a
\* higher version, and its item goes on under the version it has or ends.
LEMMA RowFixed ==
    ASSUME TypeOK, NEW m \in Asset, NEW v \in Nat, NEW i, Fixed(m, v, i),
           stored'[m] = stored[m],
           item'[m].stage # "none" => item[m].stage # "none" /\ item'[m].version = item[m].version,
           \/ version'[m] = version[m] + 1
           \/ version'[m] = version[m] /\ (version[m] = v => status'[m] = status[m])
    PROVE  Fixed(m, v, i)'
  <1>1. version[m] \in Nat
    BY DEF TypeOK
  <1> QED
    BY <1>1 DEF Fixed

LEMMA FixedKept ==
    ASSUME TypeOK, [Next]_tvars, NEW m \in Asset, NEW v \in Nat, NEW i, Fixed(m, v, i)
    PROVE  Fixed(m, v, i)'
  <1> USE DEF row, bounds
  <1>1. ASSUME NEW S \in SUBSET Asset, Requeue(S), UNCHANGED <<item, stored>>
        PROVE  Fixed(m, v, i)'
    <2>1. \/ version'[m] = version[m] + 1
          \/ version'[m] = version[m] /\ status'[m] = status[m]
      BY <1>1 DEF Requeue
    <2> QED
      BY <1>1, <2>1, RowFixed
  <1>2. ASSUME NEW S \in SUBSET Asset, Enqueue(S) PROVE Fixed(m, v, i)'
    BY <1>1, <1>2 DEF Enqueue
  <1>3. ASSUME NEW n \in Asset, ApplyCommit(n) PROVE Fixed(m, v, i)'
    BY <1>1, <1>3 DEF ApplyCommit
  <1>4. CASE SweepLeases
    <2>1. Expired \subseteq Asset
      BY DEF Expired
    <2> QED
      BY <1>1, <1>4, <2>1 DEF SweepLeases
  <1>5. CASE ClaimBatch
    <2>1. Newest(Claimable, 2 * Concurrency) \subseteq Claimable
      BY DEF Newest
    <2>2. UNCHANGED <<version, stored>>
      BY <1>5 DEF ClaimBatch
    <2>3. CASE m \in Newest(Claimable, 2 * Concurrency)
      <3>1. status[m] = "pending" /\ version[m] # v
        BY <2>1, <2>3 DEF Claimable, Fixed
      <3>2. item'[m].version = version[m]
        BY <1>5, <2>3 DEF ClaimBatch
      <3> QED
        BY <2>2, <3>1, <3>2 DEF Fixed
    <2>4. CASE m \notin Newest(Claimable, 2 * Concurrency)
      <3>1. status'[m] = status[m] /\ item'[m] = item[m]
        BY <1>5, <2>4 DEF ClaimBatch
      <3> QED
        BY <2>2, <3>1, RowFixed
    <2> QED
      BY <2>3, <2>4
  <1>6. ASSUME NEW n \in Asset, StartItem(n) \/ Decode(n) PROVE Fixed(m, v, i)'
    <2>1. UNCHANGED <<status, version, stored>>
      BY <1>6 DEF StartItem, Decode
    <2>2. /\ item[n].stage # "none"
          /\ item'[n].version = item[n].version
          /\ m # n => item'[m] = item[m]
      BY <1>6 DEF StartItem, Decode, Newest, Busy, TypeOK
    <2> QED
      BY <2>1, <2>2, RowFixed
  <1>7. ASSUME NEW n \in Asset, WriteSize(n) PROVE Fixed(m, v, i)'
    <2>1. /\ UNCHANGED <<status, version>>
          /\ item[n].stage # "none"
          /\ item'[n].version = item[n].version
          /\ m # n => item'[m] = item[m] /\ stored'[m] = stored[m]
          /\ stored[n] \subseteq stored'[n]
          /\ \A o \in stored'[n] : o \in stored[n] \/ o.version = item[n].version
      BY <1>7 DEF WriteSize, TypeOK
    <2>2. CASE m = n
      BY <2>1, <2>2 DEF Fixed
    <2>3. CASE m # n
      BY <2>1, <2>3, RowFixed
    <2> QED
      BY <2>2, <2>3
  <1>8. ASSUME NEW n \in Asset, NEW outcome \in Terminal, Finalize(n, outcome),
               item[n].stage # "none"
        PROVE  Fixed(m, v, i)'
    <2>1. /\ UNCHANGED <<version, stored>>
          /\ item' = [item EXCEPT ![n] = NoItem]
      BY <1>8 DEF Finalize, Drop
    <2>2. item'[m].stage # "none" =>
            item[m].stage # "none" /\ item'[m].version = item[m].version
      BY <2>1 DEF TypeOK
    <2>3. ASSUME version[m] = v PROVE status'[m] = status[m]
      <3>1. m = n => ~Fence(n)
        BY <1>8, <2>3 DEF Fixed, Fence
      <3> QED
        BY <1>8, <3>1 DEF Finalize, TypeOK
    <2> QED
      BY <2>1, <2>2, <2>3, RowFixed
  <1>9. ASSUME NEW n \in Asset, MarkReady(n) \/ MarkNoPreview(n) \/ MarkFailed(n)
        PROVE  Fixed(m, v, i)'
    BY <1>8, <1>9 DEF MarkReady, MarkNoPreview, MarkFailed
  <1>10. CASE \/ \E n \in Asset, h \in BOOLEAN : SetHidden(n, h)
              \/ \E n \in Asset : LoseItem(n) \/ Expire(n)
              \/ Stop
              \/ UNCHANGED tvars
    <2>1. UNCHANGED <<status, version, stored>>
      BY <1>10 DEF SetHidden, LoseItem, Expire, Stop, tvars
    <2>2. item'[m] = NoItem \/ item'[m] = item[m]
      BY <1>10 DEF SetHidden, LoseItem, Expire, Stop, Drop, tvars, TypeOK
    <2> QED
      BY <2>1, <2>2, RowFixed
  <1> QED
    BY <1>2, <1>3, <1>4, <1>5, <1>6, <1>7, <1>9, <1>10 DEF Next, ItemStep

\* A step of the queue or the worker disturbs neither a reading nor a copy.
LEMMA PipelineReaderInv ==
    ASSUME ReaderInv, [Next]_tvars, UNCHANGED rvars
    PROVE  ReaderInv'
  <1>1. RInv' /\ ReaderTypeOK' /\ TypeOK
    BY NextRInv DEF ReaderInv, ReaderTypeOK, rvars, RInv, IInv
  <1>2. ASSUME NEW r \in Reader PROVE ReadingInv(r)'
    <2>1. CASE ~Active(r)
      BY <2>1 DEF ReadingInv, Active, rvars
    <2>2. CASE Active(r)
      <3>1. reading[r].asset \in Asset /\ reading[r].version \in Nat
        BY <2>2 DEF ReaderInv, ReaderTypeOK, Active, Reading
      <3>2. ReadingInv(r)
        BY DEF ReaderInv
      <3>3. Fixed(reading[r].asset, reading[r].version, reading[r].image)'
        <4>1. PICK m \in Asset, v \in Nat, i \in {reading[r].image} :
                m = reading[r].asset /\ v = reading[r].version
          BY <3>1
        <4>2. Fixed(m, v, i)
          BY <2>2, <3>2, <4>1 DEF ReadingInv
        <4>3. Fixed(m, v, i)'
          BY <1>1, <4>2, FixedKept
        <4>4. reading'[r].asset = m /\ reading'[r].version = v /\ reading'[r].image = i
          BY <4>1 DEF rvars
        <4> QED
          BY <4>3, <4>4
      <3> QED
        BY <2>2, <3>2, <3>3 DEF ReadingInv, rvars
    <2> QED
      BY <2>1, <2>2
  <1>3. ASSUME NEW c \in copies' PROVE CopyInv(c)'
    <2>1. c \in copies /\ c.asset \in Asset
      BY <1>3 DEF rvars, ReaderInv, ReaderTypeOK, Copy
    <2> QED
      BY <1>1, <2>1, StoreGrows DEF ReaderInv, CopyInv
  <1> QED
    BY <1>1, <1>2, <1>3 DEF ReaderInv

\* A step of the readers changes no row and no object.
LEMMA ReadReaderInv ==
    ASSUME ReaderInv, Read, UNCHANGED tvars
    PROVE  ReaderInv'
  <1>1. RInv'
    BY NextRInv DEF ReaderInv
  <1>2. /\ UNCHANGED <<content, status, version, item, stored>>
        /\ \A m, v, i : Fixed(m, v, i)' <=> Fixed(m, v, i)
        /\ \A c : CopyInv(c)' <=> CopyInv(c)
    BY DEF tvars, row, Fixed, CopyInv
  <1>3. TypeOK
    BY DEF ReaderInv, RInv, IInv
  <1>4. ASSUME NEW r \in Reader, NEW m \in Asset, NEW k \in 1..Sizes, LookUp(r, m, k)
        PROVE  ReaderInv'
    <2> DEFINE new == [asset |-> m, version |-> version[m], size |-> k, image |-> content[m],
                       got |-> 0]
    <2>1. content[m] \in Nat /\ version[m] \in Nat
      BY <1>3 DEF TypeOK
    <2>2. Fixed(m, version[m], content[m])
      BY <1>4, ReadyFixed DEF LookUp, ReaderInv
    <2>3. new \in Reading
      BY <2>1 DEF Reading
    <2>4. reading' = [reading EXCEPT ![r] = new] /\ copies' = copies
      BY <1>4 DEF LookUp
    <2>5. ReaderTypeOK'
      BY <2>3, <2>4 DEF ReaderInv, ReaderTypeOK
    <2>6. ASSUME NEW q \in Reader PROVE ReadingInv(q)'
      <3>1. CASE q = r
        <4>1. reading'[q] = new
          BY <2>4, <3>1 DEF ReaderInv, ReaderTypeOK
        <4> QED
          BY <1>2, <2>2, <4>1 DEF ReadingInv
      <3>2. CASE q # r
        <4>1. reading'[q] = reading[q]
          BY <2>4, <3>2
        <4> QED
          BY <1>2, <4>1 DEF ReaderInv, ReadingInv, Active
      <3> QED
        BY <3>1, <3>2
    <2> QED
      BY <1>1, <1>2, <2>4, <2>5, <2>6 DEF ReaderInv
  <1>5. ASSUME NEW r \in Reader, Open(r) \/ OpenCopy(r)
        PROVE  ReaderInv'
    <2>1. Active(r) /\ reading[r] \in Reading /\ ReadingInv(r)
      BY <1>5 DEF Open, OpenCopy, ReaderInv, ReaderTypeOK, Active
    <2>2. PICK o \in stored[reading[r].asset] :
            o.version = reading[r].version /\ Got(r, o.source)
      <3>1. CASE Open(r)
        BY <3>1 DEF Open, Found
      <3>2. CASE OpenCopy(r)
        <4>1. PICK c \in copies :
                /\ c.asset = reading[r].asset
                /\ c.version = reading[r].version
                /\ Got(r, c.source)
          BY <3>2 DEF OpenCopy
        <4>2. [version |-> c.version, size |-> c.size, source |-> c.source] \in stored[c.asset]
          BY DEF ReaderInv, CopyInv
        <4> QED
          BY <4>1, <4>2
      <3> QED
        BY <1>5, <3>1, <3>2
    <2>3. o.source = reading[r].image
      BY <2>1, <2>2 DEF ReadingInv, Fixed
    <2>4. reading' = [reading EXCEPT ![r].got = reading[r].image] /\ copies' = copies
      BY <1>5, <2>2, <2>3 DEF Open, OpenCopy, Got
    <2>5. /\ reading'[r] \in Reading
          /\ reading'[r].asset = reading[r].asset
          /\ reading'[r].version = reading[r].version
          /\ reading'[r].image = reading[r].image
          /\ reading'[r].got = reading[r].image
      BY <2>1, <2>4 DEF ReaderInv, ReaderTypeOK, Reading
    <2>6. \A q \in Reader \ {r} : reading'[q] = reading[q]
      BY <2>4
    <2>7. ReaderTypeOK'
      BY <2>4, <2>5, <2>6 DEF ReaderInv, ReaderTypeOK
    <2>8. ASSUME NEW q \in Reader PROVE ReadingInv(q)'
      <3>1. CASE q = r
        BY <1>2, <2>1, <2>5, <3>1 DEF ReadingInv
      <3>2. CASE q # r
        BY <1>2, <2>6, <3>2 DEF ReaderInv, ReadingInv, Active
      <3> QED
        BY <3>1, <3>2
    <2> QED
      BY <1>1, <1>2, <2>4, <2>7, <2>8 DEF ReaderInv
  <1>6. ASSUME NEW r \in Reader, Close(r)
        PROVE  ReaderInv'
    <2>1. reading' = [reading EXCEPT ![r] = NoReading] /\ copies' = copies
      BY <1>6 DEF Close
    <2>2. ReaderTypeOK'
      BY <2>1 DEF ReaderInv, ReaderTypeOK
    <2>3. ASSUME NEW q \in Reader PROVE ReadingInv(q)'
      <3>1. CASE q = r
        BY <2>1, <3>1 DEF ReaderInv, ReaderTypeOK, ReadingInv, Active
      <3>2. CASE q # r
        BY <1>2, <2>1, <3>2 DEF ReaderInv, ReadingInv, Active
      <3> QED
        BY <3>1, <3>2
    <2> QED
      BY <1>1, <1>2, <2>1, <2>2, <2>3 DEF ReaderInv
  <1>7. ASSUME NEW m \in Asset, Populate(m)
        PROVE  ReaderInv'
    <2>1. PICK o \in stored[m] :
            copies' = copies \cup
              {[asset |-> m, version |-> o.version, size |-> o.size, source |-> o.source]}
      BY <1>7 DEF Populate
    <2> DEFINE new == [asset |-> m, version |-> o.version, size |-> o.size, source |-> o.source]
    <2>2. o \in [version : Nat, size : 1..Sizes, source : Nat]
      BY <1>3 DEF TypeOK
    <2>3. new \in Copy
      BY <2>2 DEF Copy
    <2>4. CopyInv(new)
      BY <2>2 DEF CopyInv
    <2>5. reading' = reading
      BY <1>7 DEF Populate
    <2>6. ReaderTypeOK'
      BY <2>1, <2>3, <2>5 DEF ReaderInv, ReaderTypeOK
    <2>7. \A c \in copies' : CopyInv(c)'
      BY <1>2, <2>1, <2>4 DEF ReaderInv
    <2>8. \A q \in Reader : ReadingInv(q)'
      BY <1>2, <2>5 DEF ReaderInv, ReadingInv, Active
    <2> QED
      BY <1>1, <2>6, <2>7, <2>8 DEF ReaderInv
  <1>8. ASSUME NEW c \in copies, Evict(c)
        PROVE  ReaderInv'
    <2>1. copies' \subseteq copies /\ reading' = reading
      BY <1>8 DEF Evict
    <2>2. \A q \in Reader : ReadingInv(q)'
      BY <1>2, <2>1 DEF ReaderInv, ReadingInv, Active
    <2> QED
      BY <1>1, <1>2, <2>1, <2>2 DEF ReaderInv, ReaderTypeOK
  <1> QED
    BY <1>4, <1>5, <1>6, <1>7, <1>8 DEF Read

LEMMA ReaderSpecInv == ReaderSpec => []ReaderInv
  <1>1. ReaderInit => ReaderInv
    <2> SUFFICES ASSUME ReaderInit
                 PROVE  ReaderInv
      OBVIOUS
    <2>1. RInv
      BY InitIInv DEF ReaderInit, Init, RInv, Seen, ClaimInv, ServedInv
    <2> QED
      BY <2>1 DEF ReaderInit, ReaderInv, ReaderTypeOK, ReadingInv, Active
  <1>2. ReaderInv /\ [ReaderNext]_<<tvars, rvars>> => ReaderInv'
    <2> SUFFICES ASSUME ReaderInv, [ReaderNext]_<<tvars, rvars>>
                 PROVE  ReaderInv'
      OBVIOUS
    <2>1. CASE [Next]_tvars /\ UNCHANGED rvars
      BY <2>1, PipelineReaderInv
    <2>2. CASE Read /\ UNCHANGED tvars
      BY <2>2, ReadReaderInv
    <2> QED
      BY <2>1, <2>2 DEF ReaderNext
  <1> QED
    BY <1>1, <1>2, PTL DEF ReaderSpec

-----------------------------------------------------------------------------
\* Readers and copies keep their types, for every instance.
THEOREM ReaderTypeCorrect == ReaderSpec => []ReaderTypeOK
  <1>1. ReaderInv => ReaderTypeOK
    BY DEF ReaderInv
  <1> QED
    BY <1>1, ReaderSpecInv, PTL

\* The object of a row that was ready can be opened at any later time,
\* whatever was regenerated or committed in between (ai/imginput).
THEOREM LookUpOpens == ReaderSpec => []FoundWhenLookedUp
  <1>1. ReaderInv => FoundWhenLookedUp
    <2> SUFFICES ASSUME ReaderInv, NEW r \in Reader, Active(r)
                 PROVE  Found(r) # {}
      BY DEF FoundWhenLookedUp
    <2>1. reading[r].size \in 1..Sizes
      BY DEF ReaderInv, ReaderTypeOK, Active, Reading
    <2> DEFINE o == [version |-> reading[r].version, size |-> reading[r].size,
                     source |-> reading[r].image]
    <2>2. o \in stored[reading[r].asset]
      BY <2>1 DEF ReaderInv, ReadingInv, Fixed
    <2>3. o.version = reading[r].version /\ o.size = reading[r].size
      OBVIOUS
    <2> HIDE DEF o
    <2> QED
      BY <2>2, <2>3 DEF Found
  <1> QED
    BY <1>1, ReaderSpecInv, PTL

\* Reading the row and opening the object are two steps without a lock, and
\* the object may be a cached copy: the answer is the one that a single step
\* at the time of the first would have given.
THEOREM ReadAtomic == ReaderSpec => []ReadIsAtomic
  <1>1. ReaderInv => ReadIsAtomic
    BY DEF ReaderInv, ReadingInv, Opened, ReadIsAtomic
  <1> QED
    BY <1>1, ReaderSpecInv, PTL

\* A cache that is never invalidated and a browser that asks only whether the
\* version is still the same show the present content.
THEOREM CopiesConfirmed == ReaderSpec => []ConfirmedIsCurrent
  <1>1. ReaderInv => ConfirmedIsCurrent
    <2> SUFFICES ASSUME ReaderInv, NEW c \in copies,
                        status[c.asset] = "ready", version[c.asset] = c.version
                 PROVE  c.source = content[c.asset]
      BY DEF ConfirmedIsCurrent
    <2>1. c.asset \in Asset
      BY DEF ReaderInv, ReaderTypeOK, Copy
    <2>2. [version |-> c.version, size |-> c.size, source |-> c.source] \in stored[c.asset]
      BY DEF ReaderInv, CopyInv
    <2>3. ServedInv(c.asset)
      BY <2>1 DEF ReaderInv, RInv, Seen
    <2> QED
      BY <2>2, <2>3 DEF ServedInv
  <1> QED
    BY <1>1, ReaderSpecInv, PTL
=============================================================================
