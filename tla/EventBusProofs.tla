--------------------------- MODULE EventBusProofs ---------------------------
(***************************************************************************)
(* Proofs about the events of one owner.  The ring holds the ids handed    *)
(* out last, its oldest one in the slot that is overwritten next; so what  *)
(* a connection takes from it continues, without a hole, in its channel.   *)
(***************************************************************************)
EXTENDS EventBus, FiniteSetTheorems, SequenceTheorems, TLAPS

-----------------------------------------------------------------------------
(* The inductive invariant.                                                *)

\* The ring holds the last ids: up to the slot before "next" the newest
\* ones, from there on the older ones.
SlotId(k) == IF k <= next THEN nextID - next + k ELSE nextID - next - Len(events) + k

RingInv ==
    /\ Len(events) < BufLen => next = 0 /\ nextID = Len(events)
    /\ Len(events) <= nextID
    /\ \A k \in 1..Len(events) : events[k] = SlotId(k)

Increasing(s) == \A i, j \in DOMAIN s : i < j => s[i] < s[j]

\* What a connection has in hand is newer than what it wrote, its channel
\* is newer than its snapshot, and nothing is newer than the bus.
Ordered(c) ==
    /\ Increasing(replay[c])
    /\ Increasing(queue[c])
    /\ \A i \in DOMAIN replay[c] : \A j \in DOMAIN queue[c] : replay[c][i] < queue[c][j]
    /\ \A i \in DOMAIN replay[c] :
         from[c] < replay[c][i] /\ sent[c] < replay[c][i] /\ replay[c][i] <= nextID
    /\ \A i \in DOMAIN queue[c] : sent[c] < queue[c][i] /\ queue[c][i] <= nextID
    /\ stage[c] # "away" => sent[c] <= nextID

OrderInv == \A c \in Client : Ordered(c)

\* Where a connection is, it has only what belongs there.
StageInv ==
    \A c \in Client :
        /\ stage[c] \in {"away", "hello"} => c \notin subs /\ queue[c] = <<>>
        /\ stage[c] = "hello" => sent[c] = 0
        /\ stage[c] # "replay" => replay[c] = <<>>

IInv == TypeOK /\ RingInv /\ OrderInv /\ StageInv /\ StreamIsComplete

-----------------------------------------------------------------------------
(* The ring.                                                               *)

\* One round of the ring at most: the remainder is a subtraction.
LEMMA WrapAround ==
    ASSUME NEW n \in Nat \ {0}, NEW x \in 0..(2 * n - 1)
    PROVE  x % n = IF x < n THEN x ELSE x - n
  <1>1. CASE x < n
    BY <1>1
  <1>2. CASE x >= n
    BY <1>2
  <1> QED
    BY <1>1, <1>2

\* Read from its oldest slot on, the ring holds the last ids in order.
LEMMA RotatedIds ==
    ASSUME TypeOK, RingInv
    PROVE  /\ DOMAIN Rotated = 1..Len(events)
           /\ \A i \in 1..Len(events) : Rotated[i] = nextID - Len(events) + i
  <1> DEFINE n == Len(events)
             start == IF n = BufLen THEN next ELSE 0
  <1>1. n \in Nat /\ start \in Nat /\ (n > 0 => start < n) /\ start = next /\ nextID \in Int
    BY EventBusAssumption, LenProperties DEF TypeOK, RingInv
  <1>2. Rotated = [i \in 1..n |-> events[((start + i - 1) % n) + 1]]
    BY DEF Rotated
  <1>3. \A k \in 1..n : events[k] = IF k <= start THEN nextID - start + k ELSE nextID - start - n + k
    BY <1>1 DEF RingInv, SlotId
  <1> HIDE DEF n, start
  <1>4. ASSUME NEW i \in 1..n
        PROVE  Rotated[i] = nextID - n + i
    <2>1. n \in Nat \ {0}
      BY <1>1, <1>4
    <2>2. PICK x \in 0..(2 * n - 1) : x = start + i - 1
      BY <1>1, <1>4
    <2>3. Rotated[i] = events[(x % n) + 1]
      BY <1>2, <1>4, <2>2
    <2>4. x % n = IF x < n THEN x ELSE x - n
      BY <2>1, <2>2, WrapAround
    <2>5. CASE x < n
      BY <1>1, <1>3, <1>4, <2>1, <2>2, <2>3, <2>4, <2>5
    <2>6. CASE ~(x < n)
      BY <1>1, <1>3, <1>4, <2>1, <2>2, <2>3, <2>4, <2>6
    <2> QED
      BY <2>5, <2>6
  <1> QED
    BY <1>2, <1>4 DEF n

\* Positions that follow each other are picked as they are.
LEMMA PickInterval ==
    ASSUME NEW a \in Int, NEW b \in Int, a <= b + 1
    PROVE  Pick(a..b) = [j \in 1..(b - a + 1) |-> Rotated[a + j - 1]]
  <1>1. Cardinality(a..b) = b - a + 1
    BY FS_Interval
  <1>2. ASSUME NEW j \in 1..(b - a + 1)
        PROVE  (CHOOSE i \in a..b : Cardinality({k \in a..b : k <= i}) = j) = a + j - 1
    <2>1. ASSUME NEW i \in a..b
          PROVE  Cardinality({k \in a..b : k <= i}) = i - a + 1
      <3>1. {k \in a..b : k <= i} = a..i
        BY <2>1
      <3>2. i \in Int
        BY <2>1
      <3>3. Cardinality(a..i) = IF a > i THEN 0 ELSE i - a + 1
        BY <3>2, FS_Interval
      <3>4. Cardinality({k \in a..b : k <= i}) = Cardinality(a..i)
        BY <3>1, Zenon
      <3> QED
        BY <2>1, <3>2, <3>3, <3>4
    <2>2. a + j - 1 \in a..b
      BY <1>2
    <2>3. \A i \in a..b : Cardinality({k \in a..b : k <= i}) = j <=> i = a + j - 1
      BY <1>2, <2>1
    <2> QED
      BY <2>2, <2>3
  <1> DEFINE at(j) == CHOOSE i \in a..b : Cardinality({k \in a..b : k <= i}) = j
  <1>3. Pick(a..b) = [j \in 1..(b - a + 1) |-> Rotated[at(j)]]
    BY <1>1, Zenon DEF Pick
  <1>4. \A j \in 1..(b - a + 1) : at(j) = a + j - 1
    BY <1>2
  <1> HIDE DEF at
  <1> QED
    BY <1>3, <1>4

\* A snapshot has the ids after "id" that the ring still holds, one by one.
After(id) == IF id < nextID - Len(events) THEN nextID - Len(events) ELSE id

LEMMA SnapshotIds ==
    ASSUME TypeOK, RingInv, NEW id \in Nat
    PROVE  /\ Snapshot(id) = [j \in 1..(nextID - After(id)) |-> After(id) + j]
           /\ Snapshot(id) \in Seq(Id)
           /\ After(id) \in Nat /\ id <= After(id)
  <1> DEFINE n == Len(events)
             b == After(id)
             first == b - (nextID - n) + 1
  <1>1. /\ n \in Nat /\ nextID \in 0..MaxEvents /\ n <= nextID /\ MaxEvents \in Nat
        /\ b \in Nat /\ id <= b /\ nextID - n <= b
    BY EventBusAssumption, LenProperties DEF TypeOK, RingInv, After
  <1>2. ASSUME NEW i \in 1..n
        PROVE  Rotated[i] > id <=> i >= first
    BY <1>1, <1>2, RotatedIds DEF After
  <1>3. {i \in DOMAIN Rotated : Rotated[i] > id} = first..n
    <2> HIDE DEF n, first
    <2>1. first \in Nat \ {0}
      BY <1>1 DEF first
    <2>2. DOMAIN Rotated = 1..n
      BY RotatedIds DEF n
    <2> QED
      BY <1>1, <1>2, <2>1, <2>2
  <1>4. Snapshot(id) = [j \in 1..(nextID - b) |-> b + j]
    <2>1. CASE b <= nextID
      <3>0. first \in Int /\ n \in Int /\ first <= n + 1
        BY <1>1, <2>1
      <3>1. Pick(first..n) = [j \in 1..(n - first + 1) |-> Rotated[first + j - 1]]
        <4> HIDE DEF n, first
        <4> QED
          BY <3>0, PickInterval
      <3>2. n - first + 1 = nextID - b
        BY <1>1
      <3>3. ASSUME NEW j \in 1..(nextID - b)
            PROVE  Rotated[first + j - 1] = b + j
        <4>1. first + j - 1 \in 1..n
          BY <1>1, <3>3
        <4> QED
          BY <1>1, <3>3, <4>1, RotatedIds
      <3> QED
        BY <1>3, <3>1, <3>2, <3>3 DEF Snapshot
    <2>2. CASE b > nextID
      <3>1. first..n = {} /\ 1..(nextID - b) = {}
        BY <1>1, <2>2
      <3>2. Cardinality({}) = 0 /\ 1..0 = {}
        BY FS_EmptySet
      <3> QED
        BY <1>3, <3>1, <3>2 DEF Snapshot, Pick
    <2> QED
      BY <1>1, <2>1, <2>2
  <1>5. Snapshot(id) \in Seq(Id)
    <2>1. \A j \in 1..(nextID - b) : b + j \in Id
      BY <1>1 DEF Id
    <2>2. PICK l \in Nat : 1..(nextID - b) = 1..l
      <3>1. CASE nextID - b \in Nat
        BY <3>1
      <3>2. CASE nextID - b \notin Nat
        <4>1. 1..(nextID - b) = 1..0
          BY <1>1, <3>2
        <4> QED
          BY <4>1
      <3> QED
        BY <3>1, <3>2
    <2> HIDE DEF b
    <2>3. [j \in 1..l |-> b + j] \in [1..l -> Id]
      BY <2>1, <2>2
    <2>4. Snapshot(id) = [j \in 1..l |-> b + j]
      BY <1>4, <2>2
    <2> QED
      BY <2>3, <2>4, SeqDef, SMT
  <1> QED
    BY <1>1, <1>4, <1>5
-----------------------------------------------------------------------------
(* Queues.                                                                 *)

\* What Append and Tail do to a sequence of ids.
LEMMA AppendId ==
    ASSUME NEW s \in Seq(Id), NEW e \in Id
    PROVE  /\ Append(s, e) \in Seq(Id)
           /\ Len(Append(s, e)) = Len(s) + 1
           /\ DOMAIN Append(s, e) = 1..(Len(s) + 1)
           /\ \A i \in 1..(Len(s) + 1) :
                Append(s, e)[i] = IF i <= Len(s) THEN s[i] ELSE e
           /\ Ids(Append(s, e)) = Ids(s) \cup {e}
  <1>1. Append(s, e) \in Seq(Id) /\ Len(s) \in Nat /\ DOMAIN s = 1..Len(s)
        /\ Len(Append(s, e)) = Len(s) + 1
    BY AppendProperties, LenProperties
  <1>2. DOMAIN Append(s, e) = 1..(Len(s) + 1)
    BY <1>1, LenProperties
  <1>3. \A i \in 1..(Len(s) + 1) : Append(s, e)[i] = IF i <= Len(s) THEN s[i] ELSE e
    BY <1>1, AppendProperties
  <1>4. Ids(Append(s, e)) = Ids(s) \cup {e}
    BY <1>1, <1>2, <1>3 DEF Ids
  <1> QED
    BY <1>1, <1>2, <1>3, <1>4

LEMMA TailId ==
    ASSUME NEW s \in Seq(Id), s # <<>>
    PROVE  /\ Head(s) \in Id /\ Head(s) = s[1]
           /\ Tail(s) \in Seq(Id)
           /\ Len(s) \in Nat \ {0} /\ DOMAIN s = 1..Len(s)
           /\ Len(Tail(s)) = Len(s) - 1
           /\ DOMAIN Tail(s) = 1..(Len(s) - 1)
           /\ \A i \in 1..(Len(s) - 1) : Tail(s)[i] = s[i + 1]
           /\ Ids(s) = Ids(Tail(s)) \cup {Head(s)}
  <1>1. /\ Head(s) \in Id /\ Tail(s) \in Seq(Id)
        /\ Len(Tail(s)) = Len(s) - 1
        /\ \A i \in 1..(Len(s) - 1) : Tail(s)[i] = s[i + 1]
    BY HeadTailProperties
  <1>2. Len(s) \in Nat \ {0} /\ DOMAIN s = 1..Len(s)
    BY EmptySeq, LenProperties
  <1>3. Head(s) = s[1]
    BY <1>2
  <1>4. DOMAIN Tail(s) = 1..(Len(s) - 1)
    BY <1>1, LenProperties
  <1>5. Ids(s) = Ids(Tail(s)) \cup {Head(s)}
    <2>1. ASSUME NEW i \in 1..Len(s)
          PROVE  s[i] \in Ids(Tail(s)) \cup {Head(s)}
      <3>1. CASE i = 1
        BY <1>3, <3>1
      <3>2. CASE i # 1
        <4>1. i - 1 \in 1..(Len(s) - 1) /\ (i - 1) + 1 = i
          BY <1>2, <2>1, <3>2
        <4>2. s[i] = Tail(s)[i - 1]
          BY <1>1, <4>1
        <4> QED
          BY <1>4, <4>1, <4>2 DEF Ids
      <3> QED
        BY <3>1, <3>2
    <2>2. ASSUME NEW i \in 1..(Len(s) - 1)
          PROVE  Tail(s)[i] \in Ids(s)
      BY <1>1, <1>2, <2>2 DEF Ids
    <2>3. Head(s) \in Ids(s)
      BY <1>2, <1>3 DEF Ids
    <2> QED
      BY <1>2, <1>4, <2>1, <2>2, <2>3 DEF Ids
  <1> QED
    BY <1>1, <1>2, <1>3, <1>4, <1>5

\* Ids are numbers.
LEMMA SeqOfIds ==
    ASSUME NEW s \in Seq(Id)
    PROVE  /\ Len(s) \in Nat /\ DOMAIN s = 1..Len(s)
           /\ \A i \in DOMAIN s : s[i] \in Id /\ s[i] \in Nat
  <1>1. Len(s) \in Nat /\ DOMAIN s = 1..Len(s)
    BY LenProperties
  <1>2. \A i \in 1..Len(s) : s[i] \in Id
    BY ElementOfSeq
  <1> QED
    BY <1>1, <1>2 DEF Id

\* No events at all.
LEMMA NoIds == <<>> \in Seq(Id) /\ Len(<<>>) = 0 /\ DOMAIN <<>> = {} /\ Ids(<<>>) = {}
  <1>1. <<>> \in Seq(Id) /\ Len(<<>>) = 0 /\ DOMAIN <<>> = {}
    BY EmptySeq
  <1> QED
    BY <1>1 DEF Ids

LEMMA IncreasingAppend ==
    ASSUME NEW s \in Seq(Id), NEW e \in Id, MaxEvents \in Nat,
           Increasing(s), \A i \in DOMAIN s : s[i] < e
    PROVE  Increasing(Append(s, e))
  <1>1. DOMAIN s = 1..Len(s) /\ Len(s) \in Nat
    BY LenProperties
  <1>2. SUFFICES ASSUME NEW i \in 1..(Len(s) + 1), NEW j \in 1..(Len(s) + 1), i < j
                 PROVE  Append(s, e)[i] < Append(s, e)[j]
    BY AppendId DEF Increasing
  <1>3. Append(s, e)[i] = s[i] /\ i \in DOMAIN s
    BY <1>1, <1>2, AppendId
  <1>4. CASE j \in DOMAIN s
    BY <1>1, <1>2, <1>3, <1>4, AppendId DEF Increasing
  <1>5. CASE j \notin DOMAIN s
    BY <1>1, <1>2, <1>3, <1>5, AppendId
  <1> QED
    BY <1>4, <1>5

LEMMA IncreasingTail ==
    ASSUME NEW s \in Seq(Id), s # <<>>, MaxEvents \in Nat, Increasing(s)
    PROVE  Increasing(Tail(s)) /\ \A i \in DOMAIN Tail(s) : Head(s) < Tail(s)[i]
  <1>1. SUFFICES ASSUME NEW i \in 1..(Len(s) - 1)
                 PROVE  /\ s[1] < s[i + 1]
                        /\ \A j \in 1..(Len(s) - 1) : i < j => s[i + 1] < s[j + 1]
    BY TailId DEF Increasing
  <1> QED
    BY <1>1, TailId DEF Increasing
LEMMA IncreasingConcat ==
    ASSUME NEW r \in Seq(Id), NEW q \in Seq(Id), NEW low \in Int,
           Increasing(r), Increasing(q),
           \A i \in DOMAIN r : \A j \in DOMAIN q : r[i] < q[j],
           \A i \in DOMAIN r : low < r[i], \A i \in DOMAIN q : low < q[i]
    PROVE  Increasing(r \o q) /\ \A i \in DOMAIN (r \o q) : low < (r \o q)[i]
  <1>1. Len(r) \in Nat /\ Len(q) \in Nat /\ DOMAIN r = 1..Len(r) /\ DOMAIN q = 1..Len(q)
    BY SeqOfIds
  <1>2. PICK s \in Seq(Id) : s = r \o q
    BY ConcatProperties
  <1>3. Len(s) = Len(r) + Len(q)
        /\ \A i \in 1..(Len(r) + Len(q)) : s[i] = IF i <= Len(r) THEN r[i] ELSE q[i - Len(r)]
    BY <1>2, ConcatProperties
  <1>4. DOMAIN s = 1..(Len(r) + Len(q))
    BY <1>3, SeqOfIds
  <1>5. ASSUME NEW i \in DOMAIN s
        PROVE  \/ i \in DOMAIN r /\ s[i] = r[i]
               \/ i \notin DOMAIN r /\ i - Len(r) \in DOMAIN q /\ s[i] = q[i - Len(r)]
    BY <1>1, <1>3, <1>4, <1>5
  <1>6. ASSUME NEW i \in DOMAIN s, NEW j \in DOMAIN s, i < j
        PROVE  s[i] < s[j]
    <2>1. CASE j \in DOMAIN r
      <3>1. i \in DOMAIN r
        BY <1>1, <1>4, <1>6, <2>1
      <3> QED
        BY <1>5, <1>6, <2>1, <3>1 DEF Increasing
    <2>2. CASE i \in DOMAIN r /\ j \notin DOMAIN r
      BY <1>5, <1>6, <2>2
    <2>3. CASE i \notin DOMAIN r /\ j \notin DOMAIN r
      <3>1. i - Len(r) < j - Len(r)
        BY <1>1, <1>4, <1>6
      <3> QED
        BY <1>5, <1>6, <2>3, <3>1 DEF Increasing
    <2> QED
      BY <1>1, <1>4, <1>6, <2>1, <2>2, <2>3
  <1>7. ASSUME NEW i \in DOMAIN s
        PROVE  low < s[i]
    BY <1>5, <1>7
  <1> QED
    BY <1>2, <1>6, <1>7 DEF Increasing

-----------------------------------------------------------------------------
(* Type correctness and the ring.                                          *)

LEMMA TypeInit == Init => TypeOK
  <1> SUFFICES ASSUME Init PROVE TypeOK
    OBVIOUS
  <1>1. events \in Seq(Id) /\ Len(events) <= BufLen /\ next \in 0..(BufLen - 1)
    BY EventBusAssumption, NoIds DEF Init
  <1>2. queue \in [Client -> Seq(Id)] /\ replay \in [Client -> Seq(Id)]
        /\ \A c \in Client : Len(queue[c]) <= ChanLen
    BY EventBusAssumption, NoIds DEF Init
  <1>3. /\ nextID \in 0..MaxEvents /\ restarts \in 0..MaxRestarts
        /\ lastId \in [Client -> 0..MaxEvents]
        /\ from \in [Client -> 0..MaxEvents]
        /\ sent \in [Client -> 0..MaxEvents]
    BY EventBusAssumption DEF Init
  <1> QED
    BY <1>1, <1>2, <1>3 DEF Init, TypeOK

\* What is written to a client goes to its own variables.
LEMMA WriteTypes ==
    ASSUME TypeOK, NEW c \in Client, NEW id \in Id, WriteSSE(c, id)
    PROVE  /\ lastId' \in [Client -> 0..MaxEvents]
           /\ known' \in [Client -> SUBSET Id]
           /\ sent' \in [Client -> 0..MaxEvents]
           /\ loading' = loading
  BY EventBusAssumption DEF TypeOK, WriteSSE, Id

LEMMA PublishTypes ==
    ASSUME TypeOK, RingInv, PublishAutoID
    PROVE  TypeOK'
  <1> DEFINE id == nextID + 1
  <1>1. id \in Id /\ nextID' = id /\ MaxEvents \in Nat
    BY EventBusAssumption DEF TypeOK, PublishAutoID, Id
  <1>2. events' \in Seq(Id) /\ Len(events') <= BufLen /\ next' \in 0..(BufLen - 1)
    <2>1. CASE Len(events) < BufLen
      <3>1. events' = Append(events, id) /\ next' = next
        BY <2>1 DEF PublishAutoID, Keep
      <3> QED
        BY <1>1, <2>1, <3>1, AppendId, EventBusAssumption DEF TypeOK
    <2>2. CASE ~(Len(events) < BufLen)
      <3>1. events' = [events EXCEPT ![next + 1] = id] /\ next' = (next + 1) % BufLen
        BY <2>2 DEF PublishAutoID, Keep
      <3>2. Len(events) = BufLen /\ next + 1 \in 1..Len(events) /\ next + 1 \in 0..(2 * BufLen - 1)
        BY <2>2, EventBusAssumption, LenProperties DEF TypeOK
      <3>3. next' = IF next + 1 < BufLen THEN next + 1 ELSE next + 1 - BufLen
        <4>1. BufLen \in Nat \ {0} /\ next \in Nat
          BY EventBusAssumption DEF TypeOK
        <4> QED
          BY <3>1, <3>2, <4>1, WrapAround
      <3>4. events' \in Seq(Id) /\ Len(events') = Len(events)
        BY <1>1, <3>1, <3>2, ExceptSeq DEF TypeOK
      <3> QED
        BY <3>1, <3>2, <3>3, <3>4, EventBusAssumption DEF TypeOK
    <2> QED
      BY <2>1, <2>2
  <1>3. \A c \in Client : queue'[c] \in Seq(Id) /\ Len(queue'[c]) <= ChanLen
    <2>1. SUFFICES ASSUME NEW c \in Client
                   PROVE  queue'[c] \in Seq(Id) /\ Len(queue'[c]) <= ChanLen
      OBVIOUS
    <2>2. CASE c \in subs /\ ~Full(c)
      <3>1. queue'[c] = Append(queue[c], id) /\ Len(queue[c]) # ChanLen
        BY <2>2 DEF PublishAutoID, Full
      <3>2. queue[c] \in Seq(Id) /\ Len(queue[c]) <= ChanLen /\ Len(queue[c]) \in Nat
        BY LenProperties DEF TypeOK
      <3> QED
        BY <1>1, <3>1, <3>2, AppendId, EventBusAssumption
    <2>3. CASE ~(c \in subs /\ ~Full(c))
      BY <2>3 DEF PublishAutoID, TypeOK
    <2> QED
      BY <2>2, <2>3
  <1>4. queue' \in [Client -> Seq(Id)]
    BY <1>3 DEF PublishAutoID
  <1>5. dropped' \in [Client -> SUBSET Id]
    BY <1>1 DEF PublishAutoID, TypeOK
  <1>6. nextID' \in 0..MaxEvents
    BY <1>1 DEF Id
  <1>7. UNCHANGED <<subs, closed, stage, replay, ended, lastId, loading, known, from, sent, restarts>>
    BY DEF PublishAutoID, page
  <1> QED
    BY <1>2, <1>3, <1>4, <1>5, <1>6, <1>7 DEF TypeOK

LEMMA SubscribeTypes ==
    ASSUME TypeOK, RingInv, NEW c \in Client, SubscribeFrom(c)
    PROVE  TypeOK'
  <1>1. lastId[c] \in Nat /\ Snapshot(lastId[c]) \in Seq(Id)
    BY SnapshotIds, EventBusAssumption DEF TypeOK
  <1>2. replay' \in [Client -> Seq(Id)]
    BY <1>1, NoIds DEF SubscribeFrom, TypeOK
  <1>3. queue' \in [Client -> Seq(Id)] /\ \A k \in Client : Len(queue'[k]) <= ChanLen
    BY NoIds, EventBusAssumption DEF SubscribeFrom, TypeOK
  <1>4. dropped' \in [Client -> SUBSET Id]
    BY DEF SubscribeFrom, TypeOK
  <1>5. from' \in [Client -> 0..MaxEvents]
    BY DEF SubscribeFrom, TypeOK
  <1>6. /\ subs' \subseteq Client
        /\ stage' \in [Client -> {"away", "hello", "gap", "replay", "live"}]
        /\ ended' \in [Client -> BOOLEAN]
    BY DEF SubscribeFrom, TypeOK
  <1>7. UNCHANGED <<events, next, nextID, closed, lastId, loading, known, sent, restarts>>
    BY DEF SubscribeFrom, page
  <1> QED
    BY <1>2, <1>3, <1>4, <1>5, <1>6, <1>7 DEF TypeOK

LEMMA TypeStep ==
    ASSUME TypeOK, RingInv, [Next]_bvars
    PROVE  TypeOK'
  <1>1. CASE PublishAutoID
    BY <1>1, PublishTypes
  <1>2. CASE Close
    BY <1>2 DEF Close, TypeOK, channel, page
  <1>3. ASSUME NEW c \in Client, Connect(c)
        PROVE  TypeOK'
    <2>1. UNCHANGED <<events, next, nextID, subs, closed, replay, queue, ended, from, dropped,
                      restarts>>
      BY <1>3 DEF Connect, bus, channel
    <2>2. /\ lastId' \in [Client -> 0..MaxEvents] /\ known' \in [Client -> SUBSET Id]
          /\ loading' \in [Client -> BOOLEAN]
      <3>1. CASE UNCHANGED page
        BY <3>1 DEF TypeOK, page
      <3>2. CASE /\ lastId' = [lastId EXCEPT ![c] = 0]
                 /\ loading' = [loading EXCEPT ![c] = TRUE]
                 /\ known' = [known EXCEPT ![c] = {}]
        BY <3>2, EventBusAssumption DEF TypeOK
      <3> QED
        BY <1>3, <3>1, <3>2 DEF Connect
    <2>3. /\ stage' \in [Client -> {"away", "hello", "gap", "replay", "live"}]
          /\ sent' \in [Client -> 0..MaxEvents]
      BY <1>3, EventBusAssumption DEF Connect, TypeOK
    <2> QED
      BY <2>1, <2>2, <2>3 DEF TypeOK
  <1>4. ASSUME NEW c \in Client, SubscribeFrom(c)
        PROVE  TypeOK'
    BY <1>4, SubscribeTypes
  <1>5. ASSUME NEW c \in Client, WriteCatchup(c)
        PROVE  TypeOK'
    <2>1. UNCHANGED <<events, next, nextID, subs, closed, replay, queue, ended, lastId, loading, from, sent,
                      dropped, restarts>>
      BY <1>5 DEF WriteCatchup, bus, channel
    <2>2. 1..nextID \subseteq Id
      BY EventBusAssumption DEF TypeOK, Id
    <2>3. /\ stage' \in [Client -> {"away", "hello", "gap", "replay", "live"}]
          /\ known' \in [Client -> SUBSET Id]
      BY <1>5, <2>2 DEF WriteCatchup, TypeOK
    <2> QED
      BY <2>1, <2>3 DEF TypeOK
  <1>6. ASSUME NEW c \in Client, WriteReplay(c)
        PROVE  TypeOK'
    <2>1. CASE replay[c] = <<>>
      BY <1>6, <2>1 DEF WriteReplay, TypeOK, bus, channel, page
    <2>2. CASE replay[c] # <<>>
      <3>1. Head(replay[c]) \in Id /\ Tail(replay[c]) \in Seq(Id)
        BY <2>2, TailId DEF TypeOK
      <3>2. WriteSSE(c, Head(replay[c])) /\ replay' = [replay EXCEPT ![c] = Tail(@)]
            /\ UNCHANGED <<stage, events, next, nextID, subs, closed, queue, ended, from, dropped,
                           restarts>>
        BY <1>6, <2>2 DEF WriteReplay, bus, channel
      <3>3. replay' \in [Client -> Seq(Id)]
        BY <3>1, <3>2 DEF TypeOK
      <3> QED
        BY <3>1, <3>2, <3>3, WriteTypes DEF TypeOK
    <2> QED
      BY <2>1, <2>2
  <1>7. ASSUME NEW c \in Client, Forward(c)
        PROVE  TypeOK'
    <2>1. queue[c] # <<>> /\ queue[c] \in Seq(Id) /\ Len(queue[c]) <= ChanLen
      BY <1>7 DEF Forward, TypeOK
    <2>2. Head(queue[c]) \in Id /\ Tail(queue[c]) \in Seq(Id) /\ Len(Tail(queue[c])) <= ChanLen
      BY <2>1, TailId, EventBusAssumption
    <2>3. WriteSSE(c, Head(queue[c])) /\ queue' = [queue EXCEPT ![c] = Tail(@)]
          /\ UNCHANGED <<stage, events, next, nextID, subs, closed, replay, ended, from, dropped,
                         restarts>>
      BY <1>7 DEF Forward, bus
    <2>4. queue' \in [Client -> Seq(Id)] /\ \A k \in Client : Len(queue'[k]) <= ChanLen
      BY <2>2, <2>3 DEF TypeOK
    <2> QED
      BY <2>2, <2>3, <2>4, WriteTypes DEF TypeOK
  <1>8. ASSUME NEW c \in Client, Return(c)
        PROVE  TypeOK'
    BY <1>8, NoIds, EventBusAssumption DEF Return, TypeOK, page
  <1>9. CASE Restart
    <2>1. /\ events' \in Seq(Id) /\ Len(events') <= BufLen
          /\ next' \in 0..(BufLen - 1) /\ nextID' \in 0..MaxEvents
      BY <1>9, NoIds, EventBusAssumption DEF Restart
    <2>2. queue' \in [Client -> Seq(Id)] /\ replay' \in [Client -> Seq(Id)]
          /\ \A c \in Client : Len(queue'[c]) <= ChanLen
      BY <1>9, NoIds, EventBusAssumption DEF Restart
    <2>3. restarts' \in 0..MaxRestarts
      BY <1>9, EventBusAssumption DEF Restart, TypeOK
    <2> QED
      BY <1>9, <2>1, <2>2, <2>3 DEF Restart, TypeOK
  <1>10. CASE UNCHANGED bvars
    BY <1>10 DEF bvars, bus, channel, page, TypeOK
  <1>11. ASSUME NEW c \in Client, FetchViews(c)
         PROVE  TypeOK'
    <2>1. UNCHANGED <<events, next, nextID, subs, closed, stage, replay, queue, ended, lastId, from,
                      sent, dropped, restarts>>
      BY <1>11 DEF FetchViews, bus, channel
    <2>2. 1..nextID \subseteq Id
      BY EventBusAssumption DEF TypeOK, Id
    <2>3. loading' \in [Client -> BOOLEAN] /\ known' \in [Client -> SUBSET Id]
      BY <1>11, <2>2 DEF FetchViews, TypeOK
    <2> QED
      BY <2>1, <2>3 DEF TypeOK
  <1> QED
    BY <1>1, <1>2, <1>3, <1>4, <1>5, <1>6, <1>7, <1>8, <1>9, <1>10, <1>11
    DEF Next, Handler, ChannelClosed, Disconnect

LEMMA RingStep ==
    ASSUME TypeOK, RingInv, [Next]_bvars
    PROVE  RingInv'
  <1>1. CASE PublishAutoID
    <2> DEFINE id == nextID + 1
    <2>1. id \in Id /\ nextID' = id /\ nextID \in Nat /\ BufLen \in Nat \ {0} /\ next \in Nat
          /\ Len(events) \in Nat
      BY <1>1, EventBusAssumption, LenProperties DEF TypeOK, PublishAutoID, Id
    <2>2. CASE Len(events) < BufLen
      <3>1. events' = Append(events, id) /\ next' = next
        BY <1>1, <2>2 DEF PublishAutoID, Keep
      <3>2. /\ Len(events') = Len(events) + 1
            /\ \A i \in 1..(Len(events) + 1) :
                 events'[i] = IF i <= Len(events) THEN events[i] ELSE id
        BY <2>1, <3>1, AppendId DEF TypeOK
      <3>3. next = 0 /\ nextID = Len(events)
        BY <2>2 DEF RingInv
      <3> QED
        BY <2>1, <2>2, <3>1, <3>2, <3>3 DEF RingInv, SlotId
    <2>3. CASE ~(Len(events) < BufLen)
      <3>1. events' = [events EXCEPT ![next + 1] = id] /\ next' = (next + 1) % BufLen
        BY <1>1, <2>3 DEF PublishAutoID, Keep
      <3>2. Len(events) = BufLen /\ next + 1 \in 1..Len(events) /\ next + 1 \in 0..(2 * BufLen - 1)
        BY <2>1, <2>3, EventBusAssumption DEF TypeOK
      <3>3. next' = IF next + 1 < BufLen THEN next + 1 ELSE next + 1 - BufLen
        BY <2>1, <3>1, <3>2, WrapAround
      <3>4. /\ Len(events') = Len(events)
            /\ \A k \in 1..Len(events) : events'[k] = IF k = next + 1 THEN id ELSE events[k]
        BY <2>1, <3>1, <3>2, ExceptSeq DEF TypeOK
      <3>5. CASE next + 1 < BufLen
        BY <2>1, <3>2, <3>3, <3>4, <3>5 DEF RingInv, SlotId
      <3>6. CASE next + 1 = BufLen
        BY <2>1, <3>2, <3>3, <3>4, <3>6 DEF RingInv, SlotId
      <3> QED
        BY <3>2, <3>5, <3>6
    <2> QED
      BY <2>2, <2>3
  <1>2. CASE Restart
    BY <1>2, NoIds, EventBusAssumption DEF Restart, RingInv, SlotId
  <1>3. CASE UNCHANGED <<events, next, nextID>>
    BY <1>3 DEF RingInv, SlotId
  <1> QED
    BY <1>1, <1>2, <1>3
    DEF Next, Handler, ChannelClosed, Disconnect, Close, Connect, FetchViews, SubscribeFrom, WriteCatchup,
        WriteReplay, Forward, Return, bvars, bus
-----------------------------------------------------------------------------
(* Order and completeness.                                                 *)

LEMMA StageStep ==
    ASSUME TypeOK, StageInv, [Next]_bvars
    PROVE  StageInv'
  <1>1. CASE PublishAutoID
    BY <1>1 DEF PublishAutoID, StageInv, page
  <1>2. CASE Close
    BY <1>2 DEF Close, StageInv, channel, page
  <1>3. ASSUME NEW c \in Client, Connect(c)
        PROVE  StageInv'
    BY <1>3 DEF Connect, TypeOK, StageInv, bus, channel
  <1>4. ASSUME NEW c \in Client, SubscribeFrom(c)
        PROVE  StageInv'
    BY <1>4 DEF SubscribeFrom, TypeOK, StageInv
  <1>5. ASSUME NEW c \in Client, WriteCatchup(c)
        PROVE  StageInv'
    BY <1>5 DEF WriteCatchup, TypeOK, StageInv, bus, channel
  <1>6. ASSUME NEW c \in Client, WriteReplay(c)
        PROVE  StageInv'
    BY <1>6 DEF WriteReplay, WriteSSE, TypeOK, StageInv, bus, channel, page
  <1>7. ASSUME NEW c \in Client, Forward(c)
        PROVE  StageInv'
    BY <1>7 DEF Forward, WriteSSE, TypeOK, StageInv, bus
  <1>8. ASSUME NEW c \in Client, Return(c)
        PROVE  StageInv'
    BY <1>8 DEF Return, TypeOK, StageInv, page
  <1>9. CASE Restart
    BY <1>9 DEF Restart, TypeOK, StageInv
  <1>10. CASE UNCHANGED bvars
    BY <1>10 DEF bvars, bus, channel, page, StageInv
  <1>11. ASSUME NEW c \in Client, FetchViews(c)
         PROVE  StageInv'
    BY <1>11 DEF FetchViews, StageInv, bus, channel
  <1> QED
    BY <1>1, <1>2, <1>3, <1>4, <1>5, <1>6, <1>7, <1>8, <1>9, <1>10, <1>11
    DEF Next, Handler, ChannelClosed, Disconnect

\* A connection that nothing happens to stays in order.
LEMMA OrderFrame ==
    ASSUME TypeOK, TypeOK', NEW c \in Client, Ordered(c),
           replay'[c] = replay[c], queue'[c] = queue[c], from'[c] = from[c],
           sent'[c] = sent[c], stage'[c] # "away" => stage[c] # "away", nextID <= nextID'
    PROVE  Ordered(c)'
  <1>1. nextID \in Int /\ nextID' \in Int /\ sent[c] \in Int /\ from[c] \in Int
    BY EventBusAssumption DEF TypeOK
  <1>2. /\ \A i \in DOMAIN replay[c] : replay[c][i] \in Int
        /\ \A i \in DOMAIN queue[c] : queue[c][i] \in Int
    <2>1. replay[c] \in Seq(Id) /\ queue[c] \in Seq(Id)
      BY DEF TypeOK
    <2> QED
      BY <2>1, SeqOfIds
  <1> QED
    BY <1>1, <1>2 DEF Ordered, Increasing

\* Nothing to write is in order.
LEMMA OrderEmpty ==
    ASSUME NEW c \in Client, replay'[c] = <<>>, queue'[c] = <<>>,
           stage'[c] # "away" => sent'[c] <= nextID'
    PROVE  Ordered(c)'
  BY NoIds DEF Ordered, Increasing

LEMMA PublishOrder ==
    ASSUME TypeOK, TypeOK', OrderInv, StageInv, PublishAutoID
    PROVE  OrderInv'
  <1> DEFINE id == nextID + 1
  <1>1. id \in Id /\ nextID' = id /\ nextID \in Nat /\ MaxEvents \in Nat
    BY EventBusAssumption DEF TypeOK, PublishAutoID, Id
  <1>2. UNCHANGED <<replay, from, sent, stage>>
    BY DEF PublishAutoID
  <1>3. SUFFICES ASSUME NEW c \in Client
                 PROVE  Ordered(c)'
    BY DEF OrderInv
  <1>4. Ordered(c) /\ replay[c] \in Seq(Id) /\ queue[c] \in Seq(Id)
    BY DEF OrderInv, TypeOK
  <1>5. CASE ~(c \in subs /\ ~Full(c))
    <2>1. queue'[c] = queue[c]
      BY <1>5 DEF PublishAutoID
    <2>2. nextID <= nextID'
      BY <1>1
    <2> QED
      BY <1>2, <1>4, <2>1, <2>2, OrderFrame
  <1>6. CASE c \in subs /\ ~Full(c)
    <2>1. queue'[c] = Append(queue[c], id)
      BY <1>6 DEF PublishAutoID
    <2>2. stage[c] # "away" /\ sent[c] <= nextID /\ sent[c] \in Nat
      BY <1>4, <1>6, EventBusAssumption DEF StageInv, Ordered, TypeOK
    <2>3. /\ DOMAIN queue[c] = 1..Len(queue[c]) /\ Len(queue[c]) \in Nat
          /\ \A i \in DOMAIN queue[c] : queue[c][i] \in Nat
          /\ \A i \in DOMAIN replay[c] : replay[c][i] \in Nat
      BY <1>4, SeqOfIds
    <2>4. Increasing(queue'[c])
      <3>1. \A i \in DOMAIN queue[c] : queue[c][i] < id
        BY <1>1, <1>4, <2>3 DEF Ordered
      <3> QED
        BY <1>1, <1>4, <2>1, <3>1, IncreasingAppend DEF Ordered
    <2>5. /\ DOMAIN queue'[c] = 1..(Len(queue[c]) + 1)
          /\ \A i \in DOMAIN queue'[c] : queue'[c][i] = IF i \in DOMAIN queue[c] THEN queue[c][i] ELSE id
      BY <1>1, <1>4, <2>1, <2>3, AppendId
    <2>6. \A i \in DOMAIN queue'[c] : sent[c] < queue'[c][i] /\ queue'[c][i] <= id
      BY <1>1, <1>4, <2>2, <2>3, <2>5 DEF Ordered
    <2>7. \A i \in DOMAIN replay[c] : \A j \in DOMAIN queue'[c] : replay[c][i] < queue'[c][j]
      BY <1>1, <1>4, <2>3, <2>5 DEF Ordered
    <2>8. \A i \in DOMAIN replay[c] :
             from[c] < replay[c][i] /\ sent[c] < replay[c][i] /\ replay[c][i] <= id
      BY <1>1, <1>4, <2>3 DEF Ordered
    <2>9. sent[c] <= id
      BY <1>1, <2>2
    <2> QED
      BY <1>1, <1>2, <1>4, <2>4, <2>6, <2>7, <2>8, <2>9 DEF Ordered
  <1> QED
    BY <1>5, <1>6

LEMMA SubscribeOrder ==
    ASSUME TypeOK, RingInv, StageInv, NEW c \in Client, SubscribeFrom(c)
    PROVE  Ordered(c)'
  <1> DEFINE id == lastId[c]
             a == After(id)
  <1>1. id \in Nat /\ nextID \in Nat /\ sent[c] = 0 /\ sent' = sent /\ nextID' = nextID
    BY EventBusAssumption DEF SubscribeFrom, TypeOK, StageInv
  <1>2. queue'[c] = <<>>
    BY DEF SubscribeFrom, TypeOK
  <1>3. CASE id = 0 \/ Gap(id)
    <2>1. replay'[c] = <<>>
      BY <1>3 DEF SubscribeFrom, TypeOK
    <2> QED
      BY <1>1, <1>2, <2>1, OrderEmpty
  <1>4. CASE ~(id = 0 \/ Gap(id))
    <2>1. replay'[c] = Snapshot(id) /\ from'[c] = id
      BY <1>4 DEF SubscribeFrom, TypeOK
    <2>2. Snapshot(id) = [j \in 1..(nextID - a) |-> a + j] /\ a \in Nat /\ id <= a
      BY <1>1, SnapshotIds
    <2> HIDE DEF a, id
    <2>3. DOMAIN replay'[c] = 1..(nextID - a) /\ \A j \in 1..(nextID - a) : replay'[c][j] = a + j
      BY <2>1, <2>2
    <2>4. Increasing(replay'[c])
      BY <1>1, <2>2, <2>3 DEF Increasing
    <2>5. \A i \in DOMAIN replay'[c] :
            from'[c] < replay'[c][i] /\ sent'[c] < replay'[c][i] /\ replay'[c][i] <= nextID'
      BY <1>1, <2>1, <2>2, <2>3
    <2>6. DOMAIN queue'[c] = {} /\ Increasing(queue'[c])
      BY <1>2, NoIds DEF Increasing
    <2> QED
      BY <1>1, <2>4, <2>5, <2>6 DEF Ordered
  <1> QED
    BY <1>3, <1>4

LEMMA OrderStep ==
    ASSUME TypeOK, TypeOK', RingInv, OrderInv, StageInv, [Next]_bvars
    PROVE  OrderInv'
  <1>0. nextID \in Nat /\ nextID' \in Nat
    BY EventBusAssumption DEF TypeOK
  <1>1. CASE PublishAutoID
    BY <1>1, PublishOrder
  <1>2. CASE Close
    BY <1>0, <1>2, OrderFrame DEF Close, OrderInv
  <1>3. ASSUME NEW c \in Client, Connect(c)
        PROVE  OrderInv'
    <2>1. Ordered(c)'
      <3>1. replay'[c] = <<>> /\ queue'[c] = <<>> /\ sent'[c] = 0 /\ nextID' = nextID
        BY <1>3 DEF Connect, StageInv, TypeOK, bus, channel
      <3> QED
        BY <1>0, <3>1, OrderEmpty
    <2>2. ASSUME NEW k \in Client, k # c
          PROVE  Ordered(k)'
      <3>1. /\ replay'[k] = replay[k] /\ queue'[k] = queue[k] /\ from'[k] = from[k]
            /\ sent'[k] = sent[k] /\ stage'[k] = stage[k] /\ nextID' = nextID
        BY <1>3, <2>2 DEF Connect, TypeOK, bus, channel
      <3>2. Ordered(k)
        BY DEF OrderInv
      <3> QED
        BY <1>0, <3>1, <3>2, OrderFrame
    <2> QED
      BY <2>1, <2>2 DEF OrderInv
  <1>4. ASSUME NEW c \in Client, SubscribeFrom(c)
        PROVE  OrderInv'
    <2>1. Ordered(c)'
      BY <1>4, SubscribeOrder
    <2>2. ASSUME NEW k \in Client, k # c
          PROVE  Ordered(k)'
      <3>1. /\ replay'[k] = replay[k] /\ queue'[k] = queue[k] /\ from'[k] = from[k]
            /\ sent'[k] = sent[k] /\ stage'[k] = stage[k] /\ nextID' = nextID
        BY <1>4, <2>2 DEF SubscribeFrom, TypeOK
      <3>2. Ordered(k)
        BY DEF OrderInv
      <3> QED
        BY <1>0, <3>1, <3>2, OrderFrame
    <2> QED
      BY <2>1, <2>2 DEF OrderInv
  <1>5. ASSUME NEW c \in Client, WriteCatchup(c)
        PROVE  OrderInv'
    <2>1. UNCHANGED <<replay, queue, from, sent, nextID>>
      BY <1>5 DEF WriteCatchup, bus, channel
    <2>2. ASSUME NEW k \in Client
          PROVE  Ordered(k)'
      <3>1. stage'[k] # "away" => stage[k] # "away"
        BY <1>5 DEF WriteCatchup, TypeOK
      <3>2. Ordered(k)
        BY DEF OrderInv
      <3> QED
        BY <1>0, <2>1, <3>1, <3>2, OrderFrame
    <2> QED
      BY <2>2 DEF OrderInv
  <1>6. ASSUME NEW c \in Client, WriteReplay(c)
        PROVE  OrderInv'
    <2>1. UNCHANGED <<nextID, queue, from>>
      BY <1>6 DEF WriteReplay, bus, channel
    <2>2. ASSUME NEW k \in Client, k # c
          PROVE  Ordered(k)'
      <3>1. /\ replay'[k] = replay[k] /\ queue'[k] = queue[k] /\ from'[k] = from[k]
            /\ sent'[k] = sent[k] /\ stage'[k] = stage[k] /\ nextID' = nextID
        BY <1>6, <2>1, <2>2 DEF WriteReplay, WriteSSE, TypeOK, page
      <3>2. Ordered(k)
        BY DEF OrderInv
      <3> QED
        BY <1>0, <3>1, <3>2, OrderFrame
    <2>3. CASE replay[c] = <<>>
      <3>1. /\ replay' = replay /\ sent' = sent
            /\ stage[c] = "replay" /\ stage' = [stage EXCEPT ![c] = "live"]
        BY <1>6, <2>3 DEF WriteReplay, page
      <3>2. Ordered(c)
        BY DEF OrderInv
      <3>3. Ordered(c)'
        BY <1>0, <2>1, <3>1, <3>2, OrderFrame
      <3> QED
        BY <2>2, <3>3 DEF OrderInv
    <2>4. CASE replay[c] # <<>>
      <3>1. replay'[c] = Tail(replay[c]) /\ sent'[c] = Head(replay[c]) /\ stage' = stage
        BY <1>6, <2>4 DEF WriteReplay, WriteSSE, TypeOK
      <3>2. Ordered(c) /\ replay[c] \in Seq(Id) /\ MaxEvents \in Nat
        BY EventBusAssumption DEF OrderInv, TypeOK
      <3>3. /\ Increasing(replay'[c])
            /\ \A i \in DOMAIN replay'[c] : sent'[c] < replay'[c][i]
        BY <2>4, <3>1, <3>2, IncreasingTail DEF Ordered
      <3>4. \A i \in DOMAIN replay'[c] : \E j \in DOMAIN replay[c] : replay'[c][i] = replay[c][j]
        BY <2>4, <3>1, <3>2, TailId
      <3>5. \E j \in DOMAIN replay[c] : sent'[c] = replay[c][j]
        BY <2>4, <3>1, <3>2, TailId
      <3>6. Ordered(c)'
        BY <2>1, <3>1, <3>2, <3>3, <3>4, <3>5 DEF Ordered
      <3> QED
        BY <2>2, <3>6 DEF OrderInv
    <2> QED
      BY <2>3, <2>4
  <1>7. ASSUME NEW c \in Client, Forward(c)
        PROVE  OrderInv'
    <2>1. UNCHANGED <<nextID, replay, from, stage>>
      BY <1>7 DEF Forward, bus
    <2>2. ASSUME NEW k \in Client, k # c
          PROVE  Ordered(k)'
      <3>1. /\ replay'[k] = replay[k] /\ queue'[k] = queue[k] /\ from'[k] = from[k]
            /\ sent'[k] = sent[k] /\ stage'[k] = stage[k] /\ nextID' = nextID
        BY <1>7, <2>1, <2>2 DEF Forward, WriteSSE, TypeOK
      <3>2. Ordered(k)
        BY DEF OrderInv
      <3> QED
        BY <1>0, <3>1, <3>2, OrderFrame
    <2>3. queue[c] # <<>> /\ queue'[c] = Tail(queue[c]) /\ sent'[c] = Head(queue[c])
      BY <1>7 DEF Forward, WriteSSE, TypeOK
    <2>4. Ordered(c) /\ queue[c] \in Seq(Id) /\ MaxEvents \in Nat /\ replay[c] = <<>>
      BY <1>7, EventBusAssumption DEF OrderInv, TypeOK, StageInv, Forward
    <2>5. /\ Increasing(queue'[c])
          /\ \A i \in DOMAIN queue'[c] : sent'[c] < queue'[c][i]
      BY <2>3, <2>4, IncreasingTail DEF Ordered
    <2>6. \A i \in DOMAIN queue'[c] : \E j \in DOMAIN queue[c] : queue'[c][i] = queue[c][j]
      BY <2>3, <2>4, TailId
    <2>7. \E j \in DOMAIN queue[c] : sent'[c] = queue[c][j]
      BY <2>3, <2>4, TailId
    <2>8. DOMAIN replay'[c] = {} /\ Increasing(replay'[c])
      BY <2>1, <2>4, NoIds DEF Increasing
    <2>9. Ordered(c)'
      BY <2>1, <2>4, <2>5, <2>6, <2>7, <2>8 DEF Ordered
    <2> QED
      BY <2>2, <2>9 DEF OrderInv
  <1>8. ASSUME NEW c \in Client, Return(c)
        PROVE  OrderInv'
    <2>1. Ordered(c)'
      BY <1>8, OrderEmpty DEF Return, TypeOK
    <2>2. ASSUME NEW k \in Client, k # c
          PROVE  Ordered(k)'
      <3>1. /\ replay'[k] = replay[k] /\ queue'[k] = queue[k] /\ from'[k] = from[k]
            /\ sent'[k] = sent[k] /\ stage'[k] = stage[k] /\ nextID' = nextID
        BY <1>8, <2>2 DEF Return, TypeOK
      <3>2. Ordered(k)
        BY DEF OrderInv
      <3> QED
        BY <1>0, <3>1, <3>2, OrderFrame
    <2> QED
      BY <2>1, <2>2 DEF OrderInv
  <1>9. CASE Restart
    BY <1>9, OrderEmpty DEF Restart, OrderInv
  <1>10. CASE UNCHANGED bvars
    BY <1>0, <1>10, OrderFrame DEF bvars, bus, channel, OrderInv
  <1>11. ASSUME NEW c \in Client, FetchViews(c)
         PROVE  OrderInv'
    BY <1>0, <1>11, OrderFrame DEF FetchViews, bus, channel, OrderInv
  <1> QED
    BY <1>1, <1>2, <1>3, <1>4, <1>5, <1>6, <1>7, <1>8, <1>9, <1>10, <1>11
    DEF Next, Handler, ChannelClosed, Disconnect
\* What StreamIsComplete says of one connection.
Covered(c) ==
    known[c] \cup Ids(replay[c]) \cup Ids(queue[c]) \cup dropped[c]
        \cup (IF stage[c] = "gap" THEN 1..nextID ELSE {})

Complete(c) == (from[c] + 1)..nextID \subseteq Covered(c)

\* A connection that nothing happens to stays complete.
LEMMA CompleteFrame ==
    ASSUME NEW c \in Client, Complete(c),
           from'[c] = from[c], nextID' = nextID, Covered(c) \subseteq Covered(c)'
    PROVE  Complete(c)'
  BY DEF Complete

LEMMA PublishComplete ==
    ASSUME TypeOK, PublishAutoID, NEW c \in subs, Complete(c)
    PROVE  Complete(c)'
  <1> DEFINE id == nextID + 1
  <1>1. id \in Id /\ nextID' = id /\ nextID \in Nat /\ from[c] \in Nat /\ c \in Client
    BY EventBusAssumption DEF TypeOK, PublishAutoID, Id
  <1>2. UNCHANGED <<known, replay, from, stage>>
    BY DEF PublishAutoID, page
  <1>3. queue[c] \in Seq(Id)
    BY <1>1 DEF TypeOK
  <1>4. Ids(queue'[c]) \cup dropped'[c] = Ids(queue[c]) \cup dropped[c] \cup {id}
    <2>1. CASE Full(c)
      BY <1>1, <2>1 DEF PublishAutoID, TypeOK
    <2>2. CASE ~Full(c)
      <3>1. queue'[c] = Append(queue[c], id) /\ dropped'[c] = dropped[c]
        BY <1>1, <2>2 DEF PublishAutoID, TypeOK
      <3>2. Ids(Append(queue[c], id)) = Ids(queue[c]) \cup {id}
        BY <1>1, <1>3, AppendId
      <3> QED
        BY <3>1, <3>2
    <2> QED
      BY <2>1, <2>2
  <1>5. (from[c] + 1)..id \subseteq ((from[c] + 1)..nextID) \cup {id}
    BY <1>1
  <1>6. 1..nextID \subseteq 1..id
    BY <1>1
  <1>7. Covered(c) \cup {id} \subseteq Covered(c)'
    BY <1>1, <1>2, <1>4, <1>6 DEF Covered
  <1> QED
    BY <1>1, <1>2, <1>5, <1>7 DEF Complete

\* Snapshot and registration are one step: what the ring has lost is what a
\* gap announces, and the rest is in the snapshot.
LEMMA SubscribeComplete ==
    ASSUME TypeOK, RingInv, NEW c \in Client, SubscribeFrom(c), ~closed
    PROVE  Complete(c)'
  <1> DEFINE id == lastId[c]
  <1>1. id \in Nat /\ nextID \in Nat /\ nextID' = nextID /\ Len(events) \in Nat /\ Len(events) <= nextID
    BY EventBusAssumption, LenProperties DEF SubscribeFrom, TypeOK, RingInv
  <1>2. CASE id = 0
    <2>1. from'[c] = nextID
      BY <1>2 DEF SubscribeFrom, TypeOK
    <2>2. (nextID + 1)..nextID = {}
      BY <1>1
    <2> QED
      BY <1>1, <2>1, <2>2 DEF Complete
  <1>3. CASE id # 0 /\ Gap(id)
    <2>1. from'[c] = id /\ stage'[c] = "gap"
      BY <1>3 DEF SubscribeFrom, TypeOK
    <2>2. (id + 1)..nextID \subseteq 1..nextID
      BY <1>1
    <2> QED
      BY <1>1, <2>1, <2>2 DEF Complete, Covered
  <1>4. CASE id # 0 /\ ~Gap(id)
    <2>1. from'[c] = id /\ replay'[c] = Snapshot(id)
      BY <1>4 DEF SubscribeFrom, TypeOK
    <2>2. OldestID # 0 /\ ~(id < OldestID - 1)
      BY <1>4 DEF Gap
    <2>3. events # <<>> /\ OldestID = nextID - Len(events) + 1
      <3>1. events # <<>> /\ OldestID = Rotated[1]
        BY <2>2 DEF OldestID
      <3>2. 1 \in 1..Len(events)
        BY <3>1, EmptySeq DEF TypeOK
      <3> QED
        BY <1>1, <3>1, <3>2, RotatedIds
    <2>4. After(id) = id
      BY <1>1, <2>2, <2>3 DEF After
    <2>5. Snapshot(id) = [j \in 1..(nextID - id) |-> id + j]
      BY <1>1, <2>4, SnapshotIds
    <2> HIDE DEF id
    <2>6. ASSUME NEW e \in (id + 1)..nextID
          PROVE  e \in Ids(replay'[c])
      <3>1. e - id \in 1..(nextID - id) /\ id + (e - id) = e
        BY <1>1, <2>6
      <3> QED
        BY <2>1, <2>5, <3>1 DEF Ids
    <2> QED
      BY <1>1, <2>1, <2>6 DEF Complete, Covered
  <1> QED
    BY <1>2, <1>3, <1>4

LEMMA CompleteStep ==
    ASSUME TypeOK, RingInv, StageInv, StreamIsComplete, [Next]_bvars
    PROVE  StreamIsComplete'
  <1>0. subs \subseteq Client /\ \A c \in subs : Complete(c)
    BY DEF TypeOK, StreamIsComplete, Complete, Covered
  <1>00. SUFFICES \A c \in subs' : Complete(c)'
    BY DEF StreamIsComplete, Complete, Covered
  <1>1. CASE PublishAutoID
    BY <1>0, <1>1, PublishComplete DEF PublishAutoID
  <1>2. CASE Close
    BY <1>2 DEF Close
  <1>3. ASSUME NEW c \in Client, Connect(c), NEW k \in subs'
        PROVE  Complete(k)'
    <2>1. k \in subs /\ k # c /\ k \in Client
      BY <1>0, <1>3 DEF Connect, StageInv, bus
    <2>2. /\ known'[k] = known[k] /\ stage'[k] = stage[k]
          /\ UNCHANGED <<nextID, replay, queue, from, dropped>>
      BY <1>3, <2>1 DEF Connect, TypeOK, bus, channel, page
    <2> QED
      BY <1>0, <2>1, <2>2, CompleteFrame DEF Covered
  <1>4. ASSUME NEW c \in Client, SubscribeFrom(c), NEW k \in subs'
        PROVE  Complete(k)'
    <2>1. CASE k = c
      <3>1. c \notin subs
        BY <1>4 DEF SubscribeFrom, StageInv
      <3>2. ~closed
        BY <1>4, <2>1, <3>1 DEF SubscribeFrom
      <3> QED
        BY <1>4, <2>1, <3>2, SubscribeComplete
    <2>2. CASE k # c
      <3>1. k \in subs /\ k \in Client
        BY <1>0, <1>4, <2>2 DEF SubscribeFrom
      <3>2. /\ known'[k] = known[k] /\ stage'[k] = stage[k] /\ nextID' = nextID
            /\ replay'[k] = replay[k] /\ queue'[k] = queue[k]
            /\ from'[k] = from[k] /\ dropped'[k] = dropped[k]
        BY <1>4, <2>2, <3>1 DEF SubscribeFrom, TypeOK, page
      <3> QED
        BY <1>0, <3>1, <3>2, CompleteFrame DEF Covered
    <2> QED
      BY <2>1, <2>2
  <1>5. ASSUME NEW c \in Client, WriteCatchup(c), NEW k \in subs'
        PROVE  Complete(k)'
    <2>1. k \in subs /\ k \in Client
      BY <1>0, <1>5 DEF WriteCatchup, bus
    <2>2. UNCHANGED <<nextID, replay, queue, from, dropped>>
      BY <1>5 DEF WriteCatchup, bus, channel
    <2>3. CASE k # c
      <3>1. known'[k] = known[k] /\ stage'[k] = stage[k]
        BY <1>5, <2>1, <2>3 DEF WriteCatchup, TypeOK
      <3> QED
        BY <1>0, <2>1, <2>2, <3>1, CompleteFrame DEF Covered
    <2>4. CASE k = c
      <3>1. known'[c] = 1..nextID
        BY <1>5 DEF WriteCatchup, TypeOK
      <3>2. nextID \in Nat /\ from[c] \in Nat
        BY EventBusAssumption DEF TypeOK
      <3>3. (from[c] + 1)..nextID \subseteq 1..nextID
        BY <3>2
      <3> QED
        BY <2>2, <2>4, <3>1, <3>3 DEF Complete, Covered
    <2> QED
      BY <2>3, <2>4
  <1>6. ASSUME NEW c \in Client, WriteReplay(c), NEW k \in subs'
        PROVE  Complete(k)'
    <2>1. k \in subs /\ k \in Client
      BY <1>0, <1>6 DEF WriteReplay, bus
    <2>2. UNCHANGED <<nextID, queue, from, dropped>>
      BY <1>6 DEF WriteReplay, bus, channel
    <2>3. Covered(k) \subseteq Covered(k)'
      <3>1. CASE k # c
        <4>1. known'[k] = known[k] /\ stage'[k] = stage[k] /\ replay'[k] = replay[k]
          BY <1>6, <2>1, <3>1 DEF WriteReplay, WriteSSE, TypeOK, page
        <4> QED
          BY <2>2, <4>1 DEF Covered
      <3>2. CASE k = c /\ replay[c] = <<>>
        <4>1. known'[c] = known[c] /\ stage[c] # "gap" /\ replay'[c] = replay[c]
          BY <1>6, <3>2 DEF WriteReplay, page
        <4> QED
          BY <2>2, <3>2, <4>1 DEF Covered
      <3>3. CASE k = c /\ replay[c] # <<>>
        <4>1. /\ known'[c] = known[c] \cup {Head(replay[c])}
              /\ replay'[c] = Tail(replay[c]) /\ stage[c] # "gap"
          BY <1>6, <3>3 DEF WriteReplay, WriteSSE, TypeOK
        <4>2. Ids(replay[c]) = Ids(Tail(replay[c])) \cup {Head(replay[c])}
          BY <3>3, TailId DEF TypeOK
        <4> QED
          BY <2>2, <3>3, <4>1, <4>2 DEF Covered
      <3> QED
        BY <3>1, <3>2, <3>3
    <2> QED
      BY <1>0, <2>1, <2>2, <2>3, CompleteFrame
  <1>7. ASSUME NEW c \in Client, Forward(c), NEW k \in subs'
        PROVE  Complete(k)'
    <2>1. k \in subs /\ k \in Client
      BY <1>0, <1>7 DEF Forward, bus
    <2>2. UNCHANGED <<nextID, replay, stage, from, dropped>>
      BY <1>7 DEF Forward, bus
    <2>3. Covered(k) \subseteq Covered(k)'
      <3>1. CASE k # c
        <4>1. known'[k] = known[k] /\ queue'[k] = queue[k]
          BY <1>7, <2>1, <3>1 DEF Forward, WriteSSE, TypeOK
        <4> QED
          BY <2>2, <4>1 DEF Covered
      <3>2. CASE k = c
        <4>1. known'[c] = known[c] \cup {Head(queue[c])} /\ queue'[c] = Tail(queue[c])
          BY <1>7 DEF Forward, WriteSSE, TypeOK
        <4>2. Ids(queue[c]) = Ids(Tail(queue[c])) \cup {Head(queue[c])}
          BY <1>7, TailId DEF TypeOK, Forward
        <4> QED
          BY <2>2, <3>2, <4>1, <4>2 DEF Covered
      <3> QED
        BY <3>1, <3>2
    <2> QED
      BY <1>0, <2>1, <2>2, <2>3, CompleteFrame
  <1>8. ASSUME NEW c \in Client, Return(c), NEW k \in subs'
        PROVE  Complete(k)'
    <2>1. k \in subs /\ k # c /\ k \in Client
      BY <1>0, <1>8 DEF Return
    <2>2. /\ replay'[k] = replay[k] /\ queue'[k] = queue[k] /\ stage'[k] = stage[k]
          /\ UNCHANGED <<nextID, known, from, dropped>>
      BY <1>8, <2>1 DEF Return, TypeOK, page
    <2> QED
      BY <1>0, <2>1, <2>2, CompleteFrame DEF Covered
  <1>9. CASE Restart
    BY <1>9 DEF Restart
  <1>10. CASE UNCHANGED bvars
    BY <1>0, <1>10, CompleteFrame DEF bvars, bus, channel, page, Covered
  <1>11. ASSUME NEW c \in Client, FetchViews(c), NEW k \in subs'
         PROVE  Complete(k)'
    <2>1. k \in subs /\ k \in Client
      BY <1>0, <1>11 DEF FetchViews, bus
    <2>2. UNCHANGED <<nextID, replay, queue, stage, from, dropped>> /\ known[k] \subseteq known'[k]
      BY <1>11, <2>1 DEF FetchViews, TypeOK, bus, channel
    <2> QED
      BY <1>0, <2>1, <2>2, CompleteFrame DEF Covered
  <1> QED
    BY <1>1, <1>2, <1>3, <1>4, <1>5, <1>6, <1>7, <1>8, <1>9, <1>10, <1>11
    DEF Next, Handler, ChannelClosed, Disconnect

-----------------------------------------------------------------------------
(* The theorems.                                                           *)

LEMMA InvInit == Init => IInv
  <1> SUFFICES ASSUME Init PROVE IInv
    OBVIOUS
  <1>1. TypeOK
    BY TypeInit
  <1>2. RingInv
    BY NoIds, EventBusAssumption DEF Init, RingInv
  <1>3. OrderInv
    BY NoIds DEF Init, OrderInv, Ordered, Increasing
  <1>4. StageInv /\ StreamIsComplete
    BY DEF Init, StageInv, StreamIsComplete
  <1> QED
    BY <1>1, <1>2, <1>3, <1>4 DEF IInv

LEMMA InvStep == IInv /\ [Next]_bvars => IInv'
  <1> SUFFICES ASSUME IInv, [Next]_bvars PROVE IInv'
    OBVIOUS
  <1>1. TypeOK'
    BY TypeStep DEF IInv
  <1> QED
    BY <1>1, RingStep, StageStep, OrderStep, CompleteStep DEF IInv

LEMMA InvAlways == Spec => []IInv
  BY InvInit, InvStep, PTL DEF Spec

\* The bus, the handlers and the pages keep their types, whatever the number
\* of pages and the sizes of the ring and the channels.
THEOREM TypeCorrect == Spec => []TypeOK
  <1>1. IInv => TypeOK
    BY DEF IInv
  <1> QED
    BY <1>1, InvAlways, PTL

\* From where a registered connection resumed no event falls between its
\* snapshot and its channel, wherever the ring is when it subscribes.
THEOREM StreamComplete == Spec => []StreamIsComplete
  <1>1. IInv => StreamIsComplete
    BY DEF IInv
  <1> QED
    BY <1>1, InvAlways, PTL

\* Every connection receives increasing ids, first the snapshot's, which
\* are newer than the id it resumed from, then the channel's.
THEOREM StreamOrdered == Spec => []StreamIsOrdered
  <1>1. IInv => StreamIsOrdered
    <2> SUFFICES ASSUME IInv, NEW c \in Client
                 PROVE  /\ Increasing(replay[c] \o queue[c])
                        /\ \A i \in DOMAIN (replay[c] \o queue[c]) :
                             sent[c] < (replay[c] \o queue[c])[i]
                        /\ \A i \in DOMAIN replay[c] : from[c] < replay[c][i]
      BY DEF StreamIsOrdered, Increasing
    <2>1. Ordered(c) /\ replay[c] \in Seq(Id) /\ queue[c] \in Seq(Id) /\ sent[c] \in Int
      BY DEF IInv, OrderInv, TypeOK
    <2>2. /\ \A i \in DOMAIN replay[c] : sent[c] < replay[c][i] /\ from[c] < replay[c][i]
          /\ \A i \in DOMAIN queue[c] : sent[c] < queue[c][i]
      BY <2>1 DEF Ordered
    <2> QED
      BY <2>1, <2>2, IncreasingConcat DEF Ordered
  <1> QED
    BY <1>1, InvAlways, PTL
-----------------------------------------------------------------------------
(* While no channel overflows, the server is not restarted and no page     *)
(* resumes without an id what it was told in part, what a page knows has   *)
(* no hole.                                                                *)

Lossless == restarts = 0 /\ \A c \in Client : dropped[c] = {}

\* A page that subscribes without an id has its views still to fetch, or has
\* missed nothing so far.
SubscribesWhole(c) ==
    SubscribeFrom(c) /\ lastId[c] = 0 => loading[c] \/ 1..nextID \subseteq known[c]

\* A registered page that fetched its views knows of every event, or is going
\* to be told.
NothingMissed ==
    \A c \in subs : ~loading[c] =>
        1..nextID \subseteq known[c] \cup Ids(replay[c]) \cup Ids(queue[c])
                             \cup (IF stage[c] = "gap" THEN 1..nextID ELSE {})

\* What the page knows, when it has fetched its views.
Seen(c) == IF loading[c] THEN Id ELSE known[c]

\* What a connection in "replay" has still to write follows its last id one
\* by one; in "live" the page knows what comes before its channel, and all
\* there is when the channel is empty.
Whole(c) ==
    /\ 1..lastId[c] \subseteq Seen(c)
    /\ lastId[c] <= nextID
    /\ \A i, j \in DOMAIN queue[c] : queue[c][j] - queue[c][i] = j - i
    /\ c \in subs /\ queue[c] # <<>> => queue[c][Len(queue[c])] = nextID
    /\ stage[c] = "replay" =>
         /\ \A i \in DOMAIN replay[c] : replay[c][i] = lastId[c] + i
         /\ \A i \in DOMAIN queue[c] : queue[c][i] = lastId[c] + Len(replay[c]) + i
         /\ c \in subs /\ queue[c] = <<>> => lastId[c] + Len(replay[c]) = nextID
    /\ stage[c] = "live" =>
         /\ queue[c] # <<>> => 1..(queue[c][1] - 1) \subseteq Seen(c)
         /\ c \in subs /\ queue[c] = <<>> => 1..nextID \subseteq Seen(c)

HoleFree == \A c \in Client : Whole(c)

\* A connection that nothing happens to stays whole.
LEMMA WholeFrame ==
    ASSUME NEW c \in Client, Whole(c), c \in subs' => c \in subs,
           lastId'[c] = lastId[c], known'[c] = known[c], loading'[c] = loading[c],
           queue'[c] = queue[c], replay'[c] = replay[c], stage'[c] = stage[c], nextID' = nextID
    PROVE  Whole(c)'
  <1>1. Seen(c)' = Seen(c)
    BY DEF Seen
  <1> QED
    BY <1>1 DEF Whole

LEMMA PublishWhole ==
    ASSUME IInv, NEW c \in Client, Whole(c), PublishAutoID, dropped'[c] = {}
    PROVE  Whole(c)'
  <1> DEFINE id == nextID + 1
             q == queue[c]
  <1>1. /\ id \in Id /\ nextID' = id /\ nextID \in Nat
        /\ lastId[c] \in Nat /\ subs' = subs
    BY EventBusAssumption DEF IInv, TypeOK, PublishAutoID, Id
  <1>2. UNCHANGED <<lastId, replay, stage>> /\ Seen(c)' = Seen(c)
    BY DEF PublishAutoID, page, Seen
  <1>3. /\ q \in Seq(Id) /\ Len(q) \in Nat /\ DOMAIN q = 1..Len(q)
        /\ \A i \in DOMAIN q : q[i] \in Nat
    BY SeqOfIds DEF IInv, TypeOK
  <1>4. CASE c \notin subs
    <2>1. queue'[c] = q
      BY <1>4 DEF PublishAutoID
    <2>2. lastId[c] <= id
      BY <1>1 DEF Whole
    <2> QED
      BY <1>1, <1>2, <1>4, <2>1, <2>2 DEF Whole
  <1>5. CASE c \in subs
    <2>1. ~Full(c)
      <3>1. Full(c) => id \in dropped'[c]
        BY <1>5 DEF PublishAutoID
      <3> QED
        BY <3>1
    <2>2. queue'[c] = Append(q, id)
      BY <1>5, <2>1 DEF PublishAutoID
    <2>3. /\ Len(queue'[c]) = Len(q) + 1
          /\ DOMAIN queue'[c] = 1..(Len(q) + 1)
          /\ \A i \in 1..(Len(q) + 1) : queue'[c][i] = IF i <= Len(q) THEN q[i] ELSE id
      BY <1>1, <1>3, <2>2, AppendId
    <2>4. lastId[c] <= id
      BY <1>1 DEF Whole
    <2>5. CASE q = <<>>
      <3>1. Len(q) = 0
        BY <2>5, NoIds
      <3>2. Len(queue'[c]) = 1 /\ DOMAIN queue'[c] = 1..1 /\ queue'[c][1] = id
        BY <2>3, <3>1
      <3>3. stage[c] = "live" => 1..(id - 1) \subseteq Seen(c)
        BY <1>1, <1>5, <2>5 DEF Whole
      <3>4. stage[c] = "replay" => lastId[c] + Len(replay[c]) = nextID
        BY <1>5, <2>5 DEF Whole
      <3>5. queue'[c] # <<>>
        BY <3>2, NoIds
      <3> QED
        BY <1>1, <1>2, <2>4, <3>2, <3>3, <3>4, <3>5 DEF Whole
    <2>6. CASE q # <<>>
      <3>1. Len(q) \in DOMAIN q /\ 1 \in DOMAIN q /\ q[Len(q)] = nextID
        BY <1>3, <1>5, <2>6, EmptySeq DEF Whole
      <3>2. ASSUME NEW i \in DOMAIN q
            PROVE  id - q[i] = (Len(q) + 1) - i
        <4>1. q[Len(q)] - q[i] = Len(q) - i
          BY <3>1 DEF Whole
        <4> HIDE DEF q
        <4>2. q[i] \in Nat /\ i \in Nat /\ Len(q) \in Nat
          BY <1>3
        <4>3. nextID - q[i] = Len(q) - i
          BY <3>1, <4>1
        <4> QED
          BY <1>1, <4>2, <4>3
      <3>3. ASSUME NEW i \in DOMAIN queue'[c], NEW j \in DOMAIN queue'[c]
            PROVE  queue'[c][j] - queue'[c][i] = j - i
        <4>1. \A k, l \in DOMAIN q : q[l] - q[k] = l - k
          BY DEF Whole
        <4> HIDE DEF q
        <4>2. i \in 1..(Len(q) + 1) /\ j \in 1..(Len(q) + 1)
          BY <2>3
        <4>3. CASE i \in DOMAIN q /\ j \in DOMAIN q
          <5>1. queue'[c][i] = q[i] /\ queue'[c][j] = q[j]
            BY <1>3, <2>3, <4>2, <4>3
          <5> QED
            BY <4>1, <4>3, <5>1
        <4>4. CASE i \in DOMAIN q /\ j \notin DOMAIN q
          <5>1. j = Len(q) + 1 /\ queue'[c][j] = id /\ queue'[c][i] = q[i]
            BY <1>3, <2>3, <4>2, <4>4
          <5> QED
            BY <3>2, <4>4, <5>1
        <4>5. CASE i \notin DOMAIN q /\ j \in DOMAIN q
          <5>1. i = Len(q) + 1 /\ queue'[c][i] = id /\ queue'[c][j] = q[j]
            BY <1>3, <2>3, <4>2, <4>5
          <5>2. id - q[j] = (Len(q) + 1) - j /\ q[j] \in Nat /\ j \in Nat
            BY <1>3, <3>2, <4>5
          <5> QED
            BY <1>1, <1>3, <5>1, <5>2
        <4>6. CASE i \notin DOMAIN q /\ j \notin DOMAIN q
          <5>1. i = Len(q) + 1 /\ j = Len(q) + 1 /\ queue'[c][i] = id
            BY <1>3, <2>3, <4>2, <4>6
          <5> QED
            BY <1>1, <1>3, <5>1
        <4> QED
          BY <4>3, <4>4, <4>5, <4>6
      <3>4. queue'[c][Len(queue'[c])] = id /\ queue'[c][1] = q[1] /\ queue'[c] # <<>>
        BY <1>3, <2>3, <3>1, NoIds
      <3>5. stage[c] = "replay" =>
              \A i \in DOMAIN queue'[c] : queue'[c][i] = lastId[c] + Len(replay[c]) + i
        <4> SUFFICES ASSUME stage[c] = "replay", NEW i \in DOMAIN queue'[c]
                     PROVE  queue'[c][i] = lastId[c] + Len(replay[c]) + i
          OBVIOUS
        <4>1. \A k \in DOMAIN q : q[k] = lastId[c] + Len(replay[c]) + k
          BY DEF Whole
        <4>2. Len(replay[c]) \in Nat
          BY SeqOfIds DEF IInv, TypeOK
        <4> HIDE DEF q
        <4>3. i \in 1..(Len(q) + 1)
          BY <2>3
        <4>4. CASE i \in DOMAIN q
          BY <1>3, <2>3, <4>1, <4>3, <4>4
        <4>5. CASE i \notin DOMAIN q
          <5>1. i = Len(q) + 1 /\ queue'[c][i] = id
            BY <1>3, <2>3, <4>3, <4>5
          <5>2. nextID = lastId[c] + Len(replay[c]) + Len(q)
            BY <3>1, <4>1
          <5>3. id = lastId[c] + Len(replay[c]) + (Len(q) + 1)
            <6>1. Len(q) \in Nat /\ Len(replay[c]) \in Nat /\ lastId[c] \in Nat
              BY <1>1, <1>3, <4>2
            <6> QED
              BY <5>2, <6>1
          <5> QED
            BY <5>1, <5>3
        <4> QED
          BY <4>4, <4>5
      <3>6. stage[c] = "live" => 1..(queue'[c][1] - 1) \subseteq Seen(c)
        BY <2>6, <3>4 DEF Whole
      <3>7. 1..lastId[c] \subseteq Seen(c)
        BY DEF Whole
      <3>8. stage[c] = "replay" => \A i \in DOMAIN replay[c] : replay[c][i] = lastId[c] + i
        BY DEF Whole
      <3> HIDE DEF q
      <3> QED
        BY <1>1, <1>2, <2>4, <3>3, <3>4, <3>5, <3>6, <3>7, <3>8 DEF Whole
    <2> QED
      BY <2>5, <2>6
  <1> QED
    BY <1>4, <1>5

LEMMA SubscribeWhole ==
    ASSUME IInv, NEW c \in Client, Whole(c), SubscribeFrom(c), SubscribesWhole(c)
    PROVE  Whole(c)'
  <1> DEFINE id == lastId[c]
  <1>1. /\ id \in Nat /\ nextID \in Nat /\ nextID' = nextID /\ lastId' = lastId
        /\ Len(events) \in Nat /\ Len(events) <= nextID
        /\ 1..id \subseteq Seen(c) /\ id <= nextID /\ Seen(c)' = Seen(c)
    BY EventBusAssumption, LenProperties DEF SubscribeFrom, IInv, TypeOK, RingInv, Whole, Seen, page
  <1>2. queue'[c] = <<>> /\ DOMAIN <<>> = {}
    BY NoIds DEF SubscribeFrom, IInv, TypeOK
  <1>3. CASE id = 0
    <2>1. stage'[c] = "live"
      BY <1>3 DEF SubscribeFrom, IInv, TypeOK
    <2>2. 1..nextID \subseteq Seen(c)
      <3>1. loading[c] \/ 1..nextID \subseteq known[c]
        BY <1>3 DEF SubscribesWhole
      <3>2. 1..nextID \subseteq Id
        BY EventBusAssumption DEF IInv, TypeOK, Id
      <3> QED
        BY <3>1, <3>2 DEF Seen
    <2> QED
      BY <1>1, <1>2, <2>1, <2>2 DEF Whole
  <1>4. CASE id # 0 /\ Gap(id)
    <2>1. stage'[c] = "gap"
      BY <1>4 DEF SubscribeFrom, IInv, TypeOK
    <2> QED
      BY <1>1, <1>2, <2>1 DEF Whole
  <1>5. CASE id # 0 /\ ~Gap(id)
    <2>1. stage'[c] = "replay" /\ replay'[c] = Snapshot(id)
      BY <1>5 DEF SubscribeFrom, IInv, TypeOK
    <2>2. After(id) = id
      <3>1. OldestID # 0 /\ ~(id < OldestID - 1)
        BY <1>5 DEF Gap
      <3>2. events # <<>> /\ OldestID = Rotated[1]
        BY <3>1 DEF OldestID
      <3>3. 1 \in 1..Len(events)
        BY <3>2, EmptySeq DEF IInv, TypeOK
      <3>4. OldestID = nextID - Len(events) + 1
        BY <1>1, <3>2, <3>3, RotatedIds DEF IInv
      <3> QED
        BY <1>1, <3>1, <3>4 DEF After
    <2>3. Snapshot(id) = [j \in 1..(nextID - id) |-> id + j] /\ Snapshot(id) \in Seq(Id)
      BY <1>1, <2>2, SnapshotIds DEF IInv
    <2>4. /\ DOMAIN replay'[c] = 1..(nextID - id)
          /\ \A i \in DOMAIN replay'[c] : replay'[c][i] = id + i
      BY <2>1, <2>3
    <2>5. Len(replay'[c]) = nextID - id
      <3>1. Len(replay'[c]) \in Nat /\ DOMAIN replay'[c] = 1..Len(replay'[c])
        BY <2>1, <2>3, SeqOfIds
      <3>2. \A k \in Nat : Cardinality(1..k) = k
        BY FS_Interval
      <3>3. nextID - id \in Nat /\ 1..(nextID - id) = 1..Len(replay'[c])
        BY <1>1, <2>4, <3>1
      <3>4. Cardinality(1..(nextID - id)) = nextID - id
        BY <3>2, <3>3
      <3>5. Cardinality(1..Len(replay'[c])) = Len(replay'[c])
        BY <3>1, <3>2
      <3> QED
        BY <3>3, <3>4, <3>5, Zenon
    <2>6. id + Len(replay'[c]) = nextID
      BY <1>1, <2>5
    <2> QED
      BY <1>1, <1>2, <2>1, <2>4, <2>6 DEF Whole
  <1> QED
    BY <1>3, <1>4, <1>5

LEMMA ReplayWhole ==
    ASSUME IInv, NEW c \in Client, Whole(c), WriteReplay(c)
    PROVE  Whole(c)'
  <1>1. /\ nextID \in Nat /\ lastId[c] \in Nat
        /\ UNCHANGED <<nextID, subs, queue>> /\ stage[c] = "replay"
    BY EventBusAssumption DEF WriteReplay, IInv, TypeOK, bus, channel
  <1>2. CASE replay[c] = <<>>
    <2>1. lastId'[c] = lastId[c] /\ Seen(c)' = Seen(c) /\ stage'[c] = "live"
      BY <1>2 DEF WriteReplay, IInv, TypeOK, page, Seen
    <2>2. Len(replay[c]) = 0
      BY <1>2, NoIds
    <2>3. queue[c] # <<>> => queue[c][1] = lastId[c] + 1
      <3>1. queue[c] # <<>> => 1 \in DOMAIN queue[c]
        BY EmptySeq, SeqOfIds DEF IInv, TypeOK
      <3> QED
        BY <1>1, <2>2, <3>1 DEF Whole
    <2>4. c \in subs /\ queue[c] = <<>> => lastId[c] = nextID
      BY <1>1, <2>2 DEF Whole
    <2>5. queue[c] # <<>> => 1..(queue[c][1] - 1) \subseteq Seen(c)
      BY <1>1, <2>3 DEF Whole
    <2>6. c \in subs /\ queue[c] = <<>> => 1..nextID \subseteq Seen(c)
      BY <2>4 DEF Whole
    <2> QED
      BY <1>1, <2>1, <2>5, <2>6 DEF Whole
  <1>3. CASE replay[c] # <<>>
    <2> DEFINE r == replay[c]
    <2>1. /\ lastId'[c] = Head(r) /\ Seen(c)' = Seen(c) \cup {Head(r)} /\ stage' = stage
          /\ replay'[c] = Tail(r)
      <3>1. /\ lastId'[c] = Head(r) /\ known'[c] = known[c] \cup {Head(r)} /\ loading' = loading
            /\ stage' = stage /\ replay'[c] = Tail(r)
        BY <1>3 DEF WriteReplay, WriteSSE, IInv, TypeOK
      <3>2. Head(r) \in Id
        BY <1>3, TailId DEF IInv, TypeOK
      <3> QED
        BY <3>1, <3>2 DEF Seen
    <2>2. /\ Head(r) = r[1] /\ Len(r) \in Nat \ {0} /\ DOMAIN r = 1..Len(r)
          /\ Len(Tail(r)) = Len(r) - 1 /\ DOMAIN Tail(r) = 1..(Len(r) - 1)
          /\ \A i \in 1..(Len(r) - 1) : Tail(r)[i] = r[i + 1]
      BY <1>3, TailId DEF IInv, TypeOK
    <2>3. \A i \in DOMAIN r : r[i] = lastId[c] + i /\ r[i] <= nextID
      BY <1>1 DEF Whole, IInv, OrderInv, Ordered
    <2>4. 1 \in DOMAIN r
      BY <2>2
    <2>5. lastId'[c] = lastId[c] + 1 /\ lastId'[c] <= nextID
      BY <2>1, <2>2, <2>3, <2>4
    <2>6. 1..lastId'[c] \subseteq Seen(c)'
      <3>1. 1..(lastId[c] + 1) = (1..lastId[c]) \cup {lastId[c] + 1}
        BY <1>1
      <3> QED
        BY <2>1, <2>5, <3>1 DEF Whole
    <2>7. \A i \in DOMAIN replay'[c] : replay'[c][i] = lastId'[c] + i
      <3> SUFFICES ASSUME NEW i \in 1..(Len(r) - 1)
                   PROVE  Tail(r)[i] = lastId'[c] + i
        BY <2>1, <2>2
      <3>1. i + 1 \in DOMAIN r /\ i \in Nat
        BY <2>2
      <3>2. Tail(r)[i] = r[i + 1] /\ r[i + 1] = lastId[c] + (i + 1)
        BY <2>2, <2>3, <3>1
      <3> QED
        BY <1>1, <2>5, <3>1, <3>2
    <2>8. lastId'[c] + Len(replay'[c]) = lastId[c] + Len(r)
      <3>1. Len(replay'[c]) = Len(r) - 1 /\ Len(r) \in Nat
        BY <2>1, <2>2
      <3> QED
        BY <1>1, <2>5, <3>1
    <2> HIDE DEF r
    <2>9. /\ \A i \in DOMAIN queue[c] : queue[c][i] = lastId[c] + Len(r) + i
          /\ c \in subs /\ queue[c] = <<>> => lastId[c] + Len(r) = nextID
      BY <1>1 DEF Whole, r
    <2> QED
      BY <1>1, <2>1, <2>5, <2>6, <2>7, <2>8, <2>9 DEF Whole
  <1> QED
    BY <1>2, <1>3

LEMMA ForwardWhole ==
    ASSUME IInv, NEW c \in Client, Whole(c), Forward(c)
    PROVE  Whole(c)'
  <1> DEFINE q == queue[c]
  <1>1. /\ nextID \in Nat /\ lastId[c] \in Nat
        /\ UNCHANGED <<nextID, subs, stage, replay>> /\ stage[c] = "live"
        /\ q # <<>>
    BY EventBusAssumption DEF Forward, IInv, TypeOK, bus
  <1>2. /\ lastId'[c] = Head(q) /\ Seen(c)' = Seen(c) \cup {Head(q)}
        /\ queue'[c] = Tail(q)
    <2>1. /\ lastId'[c] = Head(q) /\ known'[c] = known[c] \cup {Head(q)} /\ loading' = loading
          /\ queue'[c] = Tail(q)
      BY DEF Forward, WriteSSE, IInv, TypeOK
    <2>2. Head(q) \in Id
      BY <1>1, TailId DEF IInv, TypeOK
    <2> QED
      BY <2>1, <2>2 DEF Seen
  <1>3. /\ Head(q) = q[1] /\ Len(q) \in Nat \ {0} /\ DOMAIN q = 1..Len(q)
        /\ Tail(q) \in Seq(Id)
        /\ Len(Tail(q)) = Len(q) - 1 /\ DOMAIN Tail(q) = 1..(Len(q) - 1)
        /\ \A i \in 1..(Len(q) - 1) : Tail(q)[i] = q[i + 1]
    BY <1>1, TailId DEF IInv, TypeOK
  <1>4. \A i \in DOMAIN q : q[i] \in Nat /\ q[i] >= 1 /\ q[i] <= nextID
    <2>1. \A i \in DOMAIN q : q[i] \in Id
      BY SeqOfIds DEF IInv, TypeOK
    <2> QED
      BY <2>1, EventBusAssumption DEF IInv, OrderInv, Ordered, Id
  <1>5. /\ \A i, j \in DOMAIN q : q[j] - q[i] = j - i
        /\ c \in subs => q[Len(q)] = nextID
        /\ 1..(q[1] - 1) \subseteq Seen(c)
    BY <1>1 DEF Whole
  <1> HIDE DEF q
  <1>6. 1 \in DOMAIN q
    BY <1>3
  <1>7. 1..q[1] \subseteq Seen(c)'
    <2>1. 1..q[1] = (1..(q[1] - 1)) \cup {q[1]}
      BY <1>4, <1>6
    <2> QED
      BY <1>2, <1>3, <1>5, <2>1
  <1>8. ASSUME NEW i \in DOMAIN queue'[c], NEW j \in DOMAIN queue'[c]
        PROVE  queue'[c][j] - queue'[c][i] = j - i
    <2>1. i + 1 \in DOMAIN q /\ j + 1 \in DOMAIN q /\ i \in Nat /\ j \in Nat
      BY <1>2, <1>3, <1>8
    <2>2. q[j + 1] - q[i + 1] = (j + 1) - (i + 1)
      BY <1>5, <2>1
    <2>3. queue'[c][i] = q[i + 1] /\ queue'[c][j] = q[j + 1]
      BY <1>2, <1>3, <1>8
    <2> QED
      BY <2>1, <2>2, <2>3
  <1>9. CASE Tail(q) = <<>>
    <2>0. Len(Tail(q)) = 0
      BY <1>9, NoIds
    <2>1. Len(q) = 1
      <3>1. Len(Tail(q)) = Len(q) - 1 /\ Len(q) \in Nat
        BY <1>3
      <3> QED
        BY <2>0, <3>1
    <2>2. c \in subs => 1..nextID \subseteq Seen(c)'
      BY <1>5, <1>7, <2>1
    <2>3. 1..lastId'[c] \subseteq Seen(c)' /\ lastId'[c] <= nextID
      BY <1>2, <1>3, <1>4, <1>6, <1>7
    <2> QED
      BY <1>1, <1>2, <1>5, <1>8, <1>9, <2>2, <2>3 DEF Whole
  <1>10. CASE Tail(q) # <<>>
    <2>1. Len(q) - 1 \in Nat \ {0}
      BY <1>3, <1>10, EmptySeq
    <2>2. queue'[c][1] = q[2] /\ queue'[c][Len(queue'[c])] = q[Len(q)] /\ 2 \in DOMAIN q
      BY <1>2, <1>3, <2>1
    <2>3. q[2] - 1 = q[1]
      <3>1. q[2] - q[1] = 2 - 1
        BY <1>5, <1>6, <2>2
      <3> QED
        BY <1>4, <1>6, <2>2, <3>1
    <2>4. 1..lastId'[c] \subseteq Seen(c)' /\ lastId'[c] <= nextID
      BY <1>2, <1>3, <1>4, <1>6, <1>7
    <2>5. 1..(queue'[c][1] - 1) \subseteq Seen(c)'
      BY <1>7, <2>2, <2>3
    <2> QED
      BY <1>1, <1>2, <1>5, <1>8, <1>10, <2>2, <2>4, <2>5 DEF Whole
  <1> QED
    BY <1>9, <1>10

\* A page that has seen every event is whole, wherever its connection is.
LEMMA SeenAll ==
    ASSUME IInv, NEW c \in Client, Whole(c), 1..nextID \subseteq Seen(c)', nextID' = nextID,
           lastId'[c] = lastId[c], queue'[c] = queue[c], replay'[c] = replay[c], subs' = subs,
           stage'[c] = stage[c] \/ stage'[c] = "live"
    PROVE  Whole(c)'
  <1>1. nextID \in Nat /\ lastId[c] \in Nat /\ lastId[c] <= nextID
    BY EventBusAssumption DEF IInv, TypeOK, Whole
  <1>2. queue[c] # <<>> => 1..(queue[c][1] - 1) \subseteq 1..nextID
    <2>1. queue[c] # <<>> => 1 \in DOMAIN queue[c]
      BY EmptySeq, SeqOfIds DEF IInv, TypeOK
    <2>2. \A i \in DOMAIN queue[c] : queue[c][i] \in Nat /\ queue[c][i] <= nextID
      BY SeqOfIds DEF IInv, TypeOK, OrderInv, Ordered
    <2> QED
      BY <1>1, <2>1, <2>2
  <1>3. 1..lastId[c] \subseteq 1..nextID
    BY <1>1
  <1> QED
    BY <1>1, <1>2, <1>3 DEF Whole

LEMMA WholeStep ==
    ASSUME IInv, HoleFree, Lossless', [Next]_bvars, [\A c \in Client : SubscribesWhole(c)]_bvars
    PROVE  HoleFree'
  <1>0. \A k \in Client : Whole(k)
    BY DEF HoleFree
  <1>1. CASE PublishAutoID
    BY <1>0, <1>1, PublishWhole DEF HoleFree, Lossless
  <1>2. CASE Close
    BY <1>0, <1>2, WholeFrame DEF Close, HoleFree, page
  <1>3. ASSUME NEW c \in Client, Connect(c)
        PROVE  HoleFree'
    <2>1. ASSUME NEW k \in Client, k # c
          PROVE  Whole(k)'
      <3>1. /\ lastId'[k] = lastId[k] /\ known'[k] = known[k] /\ loading'[k] = loading[k] /\ stage'[k] = stage[k]
            /\ UNCHANGED <<queue, replay, nextID, subs>>
        BY <1>3, <2>1 DEF Connect, IInv, TypeOK, bus, channel, page
      <3> QED
        BY <1>0, <3>1, WholeFrame
    <2>2. Whole(c)'
      <3>1. /\ stage'[c] = "hello" /\ queue'[c] = <<>> /\ nextID' = nextID /\ nextID \in Nat
            /\ lastId[c] \in Nat
        BY <1>3, EventBusAssumption DEF Connect, IInv, TypeOK, StageInv, bus, channel
      <3>2. 1..lastId'[c] \subseteq Seen(c)' /\ lastId'[c] <= nextID
        <4>1. CASE UNCHANGED page
          BY <1>0, <4>1 DEF Whole, page, Seen
        <4>2. CASE lastId'[c] = 0
          <5>1. 1..lastId'[c] = {}
            BY <4>2
          <5> QED
            BY <3>1, <4>2, <5>1
        <4> QED
          BY <1>3, <4>1, <4>2 DEF Connect, IInv, TypeOK
      <3> QED
        BY <3>1, <3>2, NoIds DEF Whole
    <2> QED
      BY <2>1, <2>2 DEF HoleFree
  <1>4. ASSUME NEW c \in Client, SubscribeFrom(c)
        PROVE  HoleFree'
    <2>1. ASSUME NEW k \in Client, k # c
          PROVE  Whole(k)'
      <3>1. /\ lastId'[k] = lastId[k] /\ known'[k] = known[k] /\ loading'[k] = loading[k] /\ stage'[k] = stage[k]
            /\ queue'[k] = queue[k] /\ replay'[k] = replay[k]
            /\ nextID' = nextID /\ (k \in subs' => k \in subs)
        BY <1>4, <2>1 DEF SubscribeFrom, IInv, TypeOK, page
      <3> QED
        BY <1>0, <3>1, WholeFrame
    <2>2. SubscribesWhole(c)
      <3>1. stage[c] = "hello" /\ stage'[c] # "hello"
        BY <1>4 DEF SubscribeFrom, IInv, TypeOK
      <3> QED
        BY <3>1 DEF bvars
    <2> QED
      BY <1>0, <1>4, <2>1, <2>2, SubscribeWhole DEF HoleFree
  <1>5. ASSUME NEW c \in Client, WriteCatchup(c)
        PROVE  HoleFree'
    <2>1. UNCHANGED <<lastId, queue, replay, nextID, subs>>
      BY <1>5 DEF WriteCatchup, bus, channel
    <2>2. ASSUME NEW k \in Client, k # c
          PROVE  Whole(k)'
      <3>1. known'[k] = known[k] /\ loading'[k] = loading[k] /\ stage'[k] = stage[k]
        BY <1>5, <2>2 DEF WriteCatchup, IInv, TypeOK
      <3> QED
        BY <1>0, <2>1, <3>1, WholeFrame
    <2>3. Whole(c)'
      <3>1. /\ nextID \in Nat /\ lastId[c] \in Nat /\ lastId[c] <= nextID
            /\ stage'[c] = "live"
        BY <1>0, <1>5, EventBusAssumption DEF WriteCatchup, IInv, TypeOK, Whole
      <3>2. 1..nextID \subseteq Seen(c)'
        <4>1. known'[c] = 1..nextID
          BY <1>5 DEF WriteCatchup, IInv, TypeOK
        <4>2. 1..nextID \subseteq Id
          BY EventBusAssumption DEF IInv, TypeOK, Id
        <4> QED
          BY <4>1, <4>2 DEF Seen
      <3> QED
        BY <1>0, <2>1, <3>1, <3>2, SeenAll
    <2> QED
      BY <2>2, <2>3 DEF HoleFree
  <1>6. ASSUME NEW c \in Client, WriteReplay(c)
        PROVE  HoleFree'
    <2>1. ASSUME NEW k \in Client, k # c
          PROVE  Whole(k)'
      <3>1. /\ lastId'[k] = lastId[k] /\ known'[k] = known[k] /\ loading'[k] = loading[k] /\ stage'[k] = stage[k]
            /\ replay'[k] = replay[k] /\ UNCHANGED <<queue, nextID, subs>>
        BY <1>6, <2>1 DEF WriteReplay, WriteSSE, IInv, TypeOK, bus, channel, page
      <3> QED
        BY <1>0, <3>1, WholeFrame
    <2> QED
      BY <1>0, <1>6, <2>1, ReplayWhole DEF HoleFree
  <1>7. ASSUME NEW c \in Client, Forward(c)
        PROVE  HoleFree'
    <2>1. ASSUME NEW k \in Client, k # c
          PROVE  Whole(k)'
      <3>1. /\ lastId'[k] = lastId[k] /\ known'[k] = known[k] /\ loading'[k] = loading[k] /\ queue'[k] = queue[k]
            /\ UNCHANGED <<stage, replay, nextID, subs>>
        BY <1>7, <2>1 DEF Forward, WriteSSE, IInv, TypeOK, bus
      <3> QED
        BY <1>0, <3>1, WholeFrame
    <2> QED
      BY <1>0, <1>7, <2>1, ForwardWhole DEF HoleFree
  <1>8. ASSUME NEW c \in Client, Return(c)
        PROVE  HoleFree'
    <2>1. ASSUME NEW k \in Client, k # c
          PROVE  Whole(k)'
      <3>1. /\ queue'[k] = queue[k] /\ replay'[k] = replay[k] /\ stage'[k] = stage[k]
            /\ UNCHANGED <<lastId, loading, known, nextID>> /\ (k \in subs' => k \in subs)
        BY <1>8, <2>1 DEF Return, IInv, TypeOK, page
      <3> QED
        BY <1>0, <3>1, WholeFrame
    <2>2. Whole(c)'
      <3>1. /\ stage'[c] = "away" /\ queue'[c] = <<>>
            /\ UNCHANGED <<lastId, loading, known, nextID>>
        BY <1>8 DEF Return, IInv, TypeOK, page
      <3>2. Seen(c)' = Seen(c)
        BY <3>1 DEF Seen
      <3> QED
        BY <1>0, <3>1, <3>2, NoIds DEF Whole
    <2> QED
      BY <2>1, <2>2 DEF HoleFree
  <1>9. CASE Restart
    BY <1>9, EventBusAssumption DEF Restart, Lossless, IInv, TypeOK
  <1>10. CASE UNCHANGED bvars
    BY <1>0, <1>10, WholeFrame DEF bvars, bus, channel, page, HoleFree
  <1>11. ASSUME NEW c \in Client, FetchViews(c)
         PROVE  HoleFree'
    <2>1. UNCHANGED <<lastId, queue, replay, stage, nextID, subs>>
      BY <1>11 DEF FetchViews, bus, channel
    <2>2. ASSUME NEW k \in Client, k # c
          PROVE  Whole(k)'
      <3>1. known'[k] = known[k] /\ loading'[k] = loading[k]
        BY <1>11, <2>2 DEF FetchViews, IInv, TypeOK
      <3> QED
        BY <1>0, <2>1, <3>1, WholeFrame
    <2>3. Whole(c)'
      <3>1. nextID \in Nat /\ lastId[c] \in Nat /\ lastId[c] <= nextID
        BY <1>0, EventBusAssumption DEF IInv, TypeOK, Whole
      <3>2. 1..nextID \subseteq Seen(c)'
        <4>1. known'[c] = known[c] \cup 1..nextID
          BY <1>11 DEF FetchViews, IInv, TypeOK
        <4>2. 1..nextID \subseteq Id
          BY EventBusAssumption DEF IInv, TypeOK, Id
        <4> QED
          BY <4>1, <4>2 DEF Seen
      <3> QED
        BY <1>0, <2>1, <3>1, <3>2, SeenAll
    <2> QED
      BY <2>2, <2>3 DEF HoleFree
  <1> QED
    BY <1>1, <1>2, <1>3, <1>4, <1>5, <1>6, <1>7, <1>8, <1>9, <1>10, <1>11
    DEF Next, Handler, ChannelClosed, Disconnect

\* What is whole misses nothing: after what the page knows comes what its
\* snapshot and its channel hold, up to the newest event.
LEMMA WholeMissesNothing ==
    ASSUME IInv, NEW c \in subs, Whole(c), ~loading[c], NEW e \in 1..nextID
    PROVE  \/ stage[c] = "gap"
           \/ e \in known[c] \cup Ids(replay[c]) \cup Ids(queue[c])
  <1>1. /\ c \in Client /\ nextID \in Nat /\ e \in Nat /\ e >= 1 /\ e <= nextID
        /\ lastId[c] \in Nat /\ Seen(c) = known[c]
    BY EventBusAssumption DEF IInv, TypeOK, Seen
  <1>2. /\ Len(replay[c]) \in Nat /\ DOMAIN replay[c] = 1..Len(replay[c])
        /\ Len(queue[c]) \in Nat /\ DOMAIN queue[c] = 1..Len(queue[c])
        /\ \A i \in DOMAIN queue[c] : queue[c][i] \in Nat
        /\ queue[c] # <<>> => Len(queue[c]) # 0
    BY <1>1, SeqOfIds, EmptySeq DEF IInv, TypeOK
  <1>3. stage[c] \in {"gap", "replay", "live"}
    BY <1>1 DEF IInv, TypeOK, StageInv
  <1>4. /\ 1..lastId[c] \subseteq known[c]
        /\ queue[c] # <<>> => queue[c][Len(queue[c])] = nextID
    BY <1>1 DEF Whole
  <1>5. CASE stage[c] = "replay"
    <2>1. /\ \A i \in DOMAIN replay[c] : replay[c][i] = lastId[c] + i
          /\ \A i \in DOMAIN queue[c] : queue[c][i] = lastId[c] + Len(replay[c]) + i
          /\ queue[c] = <<>> => lastId[c] + Len(replay[c]) = nextID
      BY <1>5 DEF Whole
    <2>2. CASE e <= lastId[c]
      BY <1>1, <1>4, <2>2
    <2>3. CASE e > lastId[c] /\ e <= lastId[c] + Len(replay[c])
      <3>1. e - lastId[c] \in DOMAIN replay[c] /\ lastId[c] + (e - lastId[c]) = e
        BY <1>1, <1>2, <2>3
      <3>2. replay[c][e - lastId[c]] = e
        BY <2>1, <3>1
      <3> QED
        BY <3>1, <3>2 DEF Ids
    <2>4. CASE e > lastId[c] + Len(replay[c])
      <3> DEFINE i == e - (lastId[c] + Len(replay[c]))
      <3>1. queue[c] # <<>>
        BY <1>1, <2>1, <2>4
      <3>2. nextID = lastId[c] + Len(replay[c]) + Len(queue[c])
        <4>1. Len(queue[c]) \in DOMAIN queue[c]
          BY <1>2, <3>1
        <4> QED
          BY <1>4, <2>1, <3>1, <4>1
      <3>3. i \in DOMAIN queue[c] /\ lastId[c] + Len(replay[c]) + i = e
        BY <1>1, <1>2, <2>4, <3>2
      <3> HIDE DEF i
      <3>4. queue[c][i] = e
        BY <2>1, <3>3
      <3> QED
        BY <3>3, <3>4 DEF Ids
    <2> QED
      BY <1>1, <1>2, <2>2, <2>3, <2>4
  <1>6. CASE stage[c] = "live"
    <2>1. CASE queue[c] = <<>>
      BY <1>1, <1>6, <2>1 DEF Whole
    <2>2. CASE queue[c] # <<>> /\ e < queue[c][1]
      <3>1. 1 \in DOMAIN queue[c] /\ 1..(queue[c][1] - 1) \subseteq known[c]
        BY <1>1, <1>2, <1>6, <2>2 DEF Whole
      <3>2. queue[c][1] \in Nat
        BY <1>2, <3>1
      <3> QED
        BY <1>1, <2>2, <3>1, <3>2
    <2>3. CASE queue[c] # <<>> /\ ~(e < queue[c][1])
      <3> DEFINE i == e - queue[c][1] + 1
      <3>1. 1 \in DOMAIN queue[c] /\ Len(queue[c]) \in DOMAIN queue[c]
        BY <1>2, <2>3
      <3>2. queue[c][1] \in Nat /\ \A k \in DOMAIN queue[c] : queue[c][k] - queue[c][1] = k - 1
        BY <1>2, <3>1 DEF Whole
      <3>3. nextID - queue[c][1] = Len(queue[c]) - 1
        BY <1>4, <2>3, <3>1, <3>2
      <3>4. i \in DOMAIN queue[c] /\ i - 1 = e - queue[c][1]
        BY <1>1, <1>2, <2>3, <3>2, <3>3
      <3> HIDE DEF i
      <3>5. queue[c][i] \in Nat /\ queue[c][i] - queue[c][1] = e - queue[c][1]
        BY <1>2, <3>2, <3>4
      <3>6. queue[c][i] = e
        BY <1>1, <3>2, <3>5
      <3> QED
        BY <3>4, <3>6 DEF Ids
    <2> QED
      BY <2>1, <2>2, <2>3
  <1> QED
    BY <1>3, <1>5, <1>6

\* The comment of Publish is right as far as this: while no channel
\* overflows, the server is not restarted and no page subscribes without an
\* id after it missed an event, every page that fetched its views knows all
\* that happened or is about to be told, whatever the ring has forgotten.
THEOREM LosslessMissesNothing ==
    Spec /\ []Lossless /\ [][\A c \in Client : SubscribesWhole(c)]_bvars => []NothingMissed
  <1>1. Init => HoleFree
    <2> SUFFICES ASSUME Init, NEW c \in Client PROVE Whole(c)
      BY DEF HoleFree
    <2>1. 1..0 = {}
      OBVIOUS
    <2> QED
      BY <2>1, NoIds DEF Init, Whole
  <1>2. IInv /\ HoleFree /\ Lossless' /\ [Next]_bvars
          /\ [\A c \in Client : SubscribesWhole(c)]_bvars => HoleFree'
    BY WholeStep
  <1>3. IInv /\ HoleFree => NothingMissed
    BY WholeMissesNothing DEF HoleFree, NothingMissed, IInv, TypeOK
  <1> QED
    BY <1>1, <1>2, <1>3, InvAlways, PTL DEF Spec
=============================================================================
