-------------------------- MODULE ShareOutboxProofs --------------------------
(***************************************************************************)
(* Safety of the share outbox for every set of scopes and albums, every    *)
(* limit of attempts, and with or without late calls.                      *)
(***************************************************************************)
EXTENDS ShareRefinement, TLAPS

\* What a batch in memory still knows about the rows it was read from: the
\* owner can only have moved a pending row to revoking, and as long as the
\* phase is unchanged so are the attempts.
SnapInv ==
    \A s \in Scope :
        /\ snap[s] = "pending" => status[s] \in {"pending", "revoking"}
        /\ snap[s] = "revoking" => status[s] = "revoking"
        /\ snap[s] # "none" /\ status[s] = snap[s] => snapAttempts[s] = attempts[s]

\* revoked_at and broker_status agree, and a row is inserted with no attempts.
RevokedInv ==
    \A s \in Scope :
        /\ status[s] = "absent" => attempts[s] = 0
        /\ status[s] \in {"absent", "pending", "active"} => ~revoked[s]
        /\ status[s] \in {"revoking", "revoked_remote", "purged"} => revoked[s]

\* The call in flight belongs to the batch, and once it took effect the
\* broker is as the call left it, a late publish aside.
CallInv ==
    /\ calling # NoScope => snap[calling] # "none"
    /\ applied => calling # NoScope
    /\ applied /\ snap[calling] = "pending" => grant[calling]
    /\ applied /\ snap[calling] = "revoking" /\ grant[calling]
         => <<calling, "pending">> \in stray

\* An abandoned revoke is of a scope that stays revoked.
StrayInv ==
    \A s \in Scope : <<s, "revoking">> \in stray => revoked[s] /\ snap[s] # "pending"

IInv ==
    /\ TypeOK
    /\ SnapInv
    /\ RevokedInv
    /\ CallInv
    /\ StrayInv
    /\ ActiveIsGranted
    /\ ClosedIsUngranted
    /\ WaitingIsReachable

USE DEF Phase, BrokerStatus

LEMMA InitIInv == Init => IInv
  <1> SUFFICES ASSUME Init
               PROVE  IInv
    OBVIOUS
  <1> USE ShareAssumption DEF Init
  <1>1. TypeOK
    <2>1. RowOK
      BY DEF RowOK
    <2>2. BatchOK
      BY DEF BatchOK
    <2>4. CallOK
      BY DEF CallOK
    <2>3. BrokerOK
      BY DEF BrokerOK
    <2> QED
      BY <2>1, <2>2, <2>3, <2>4 DEF TypeOK
  <1>2. SnapInv /\ RevokedInv /\ CallInv /\ StrayInv
    BY DEF SnapInv, RevokedInv, CallInv, StrayInv
  <1>3. ActiveIsGranted /\ ClosedIsUngranted /\ WaitingIsReachable
    BY DEF ActiveIsGranted, ClosedIsUngranted, WaitingIsReachable, Closed
  <1> QED
    BY <1>1, <1>2, <1>3 DEF IInv

LEMMA NextIInv == IInv /\ [Next]_vars => IInv'
  <1> SUFFICES ASSUME IInv, [Next]_vars
               PROVE  IInv'
    OBVIOUS
  <1> USE ShareAssumption
      DEF IInv, TypeOK, RowOK, BatchOK, CallOK, BrokerOK, SnapInv, RevokedInv, CallInv, StrayInv, ActiveIsGranted,
          ClosedIsUngranted, WaitingIsReachable, Closed, row, worker, broker
  <1>1. ASSUME NEW s \in Scope, NEW a \in Album \cup {NoAlbum}, Create(s, a)
        PROVE  IInv'
    <2> USE <1>1 DEF Create
    <2>1. RowOK' /\ BrokerOK'
      OBVIOUS
    <2>7. BatchOK'
      OBVIOUS
    <2>8. CallOK'
      OBVIOUS
    <2>2. SnapInv'
      OBVIOUS
    <2>3. RevokedInv'
      OBVIOUS
    <2>4. CallInv'
      OBVIOUS
    <2>5. StrayInv'
      OBVIOUS
    <2>6. ActiveIsGranted' /\ ClosedIsUngranted'
      OBVIOUS
    <2>9. WaitingIsReachable'
      OBVIOUS
    <2> QED
      BY <2>1, <2>2, <2>3, <2>4, <2>5, <2>6, <2>7, <2>8, <2>9
  <1>2. ASSUME NEW s \in Scope, SetRevoking(s)
        PROVE  IInv'
    BY <1>2 DEF SetRevoking
  <1>3. ASSUME NEW s \in Scope, RetryPublish(s)
        PROVE  IInv'
    BY <1>3 DEF RetryPublish, RetryTo
  <1>4. ASSUME NEW s \in Scope, RetryRevoke(s)
        PROVE  IInv'
    BY <1>4 DEF RetryRevoke, RetryTo
  <1>5. ASSUME NEW a \in Album, DeleteAlbum(a)
        PROVE  IInv'
    BY <1>5 DEF DeleteAlbum, Purgeable
  <1>6. ASSUME NEW s \in Scope, Due(s)
        PROVE  IInv'
    BY <1>6 DEF Due
  <1>7. ASSUME NEW s \in Scope, StartCall(s)
        PROVE  IInv'
    BY <1>7 DEF StartCall
  <1>8. CASE ListReady
    BY <1>8 DEF ListReady, Idle, IsBatch, Ready
  <1>9. CASE BrokerApply
    <2> USE <1>9 DEF BrokerApply, Effect
    <2>1. TypeOK' /\ SnapInv' /\ RevokedInv'
      OBVIOUS
    <2>2. CallInv' /\ StrayInv'
      OBVIOUS
    <2>3. ActiveIsGranted' /\ ClosedIsUngranted'
      OBVIOUS
    <2>4. WaitingIsReachable'
      OBVIOUS
    <2> QED
      BY <2>1, <2>2, <2>3, <2>4
  <1>10. CASE MarkPublished
    <2> USE <1>10 DEF MarkPublished, EndCall
    <2>0. calling \in Scope
      OBVIOUS
    <2>1. RowOK' /\ BrokerOK'
      OBVIOUS
    <2>7. BatchOK'
      OBVIOUS
    <2>8. CallOK'
      OBVIOUS
    <2>2. SnapInv'
      OBVIOUS
    <2>3. RevokedInv'
      OBVIOUS
    <2>4. CallInv'
      OBVIOUS
    <2>5. StrayInv'
      OBVIOUS
    <2>6. ActiveIsGranted' /\ ClosedIsUngranted' /\ WaitingIsReachable'
      OBVIOUS
    <2> QED
      BY <2>1, <2>2, <2>3, <2>4, <2>5, <2>6, <2>7, <2>8
  <1>11. CASE MarkRevoked
    <2> USE <1>11 DEF MarkRevoked, EndCall
    <2>0. calling \in Scope
      OBVIOUS
    <2>1. RowOK' /\ BrokerOK'
      OBVIOUS
    <2>7. BatchOK'
      OBVIOUS
    <2>8. CallOK'
      OBVIOUS
    <2>2. SnapInv'
      OBVIOUS
    <2>3. RevokedInv'
      OBVIOUS
    <2>4. CallInv'
      OBVIOUS
    <2>5. StrayInv'
      OBVIOUS
    <2>6. ActiveIsGranted' /\ ClosedIsUngranted' /\ WaitingIsReachable'
      OBVIOUS
    <2> QED
      BY <2>1, <2>2, <2>3, <2>4, <2>5, <2>6, <2>7, <2>8
  <1>12. CASE MarkAttemptFailed
    <2> USE <1>12 DEF MarkAttemptFailed, EndCall, Abandon, Fenced, LastAttempt
    <2>0. calling \in Scope
      OBVIOUS
    <2>1. RowOK' /\ BrokerOK'
      OBVIOUS
    <2>7. BatchOK'
      OBVIOUS
    <2>8. CallOK'
      OBVIOUS
    <2>2. SnapInv'
      OBVIOUS
    <2>3. RevokedInv'
      OBVIOUS
    <2>4. CallInv'
      OBVIOUS
    <2>5. StrayInv'
      OBVIOUS
    <2>6. ActiveIsGranted' /\ ClosedIsUngranted' /\ WaitingIsReachable'
      OBVIOUS
    <2> QED
      BY <2>1, <2>2, <2>3, <2>4, <2>5, <2>6, <2>7, <2>8
  <1>13. CASE MarkFailed
    <2> USE <1>13 DEF MarkFailed, EndCall, Abandon, Fenced
    <2>0. calling \in Scope
      OBVIOUS
    <2>1. RowOK' /\ BrokerOK'
      OBVIOUS
    <2>7. BatchOK'
      OBVIOUS
    <2>8. CallOK'
      OBVIOUS
    <2>2. SnapInv'
      OBVIOUS
    <2>3. RevokedInv'
      OBVIOUS
    <2>4. CallInv'
      OBVIOUS
    <2>5. StrayInv'
      OBVIOUS
    <2>6. ActiveIsGranted' /\ ClosedIsUngranted' /\ WaitingIsReachable'
      OBVIOUS
    <2> QED
      BY <2>1, <2>2, <2>3, <2>4, <2>5, <2>6, <2>7, <2>8
  <1>14. CASE MarkLost
    <2> USE <1>14 DEF MarkLost, EndCall, Abandon
    <2>0. calling \in Scope
      OBVIOUS
    <2>1. RowOK' /\ BrokerOK'
      OBVIOUS
    <2>7. BatchOK'
      OBVIOUS
    <2>8. CallOK'
      OBVIOUS
    <2>2. SnapInv'
      OBVIOUS
    <2>3. RevokedInv'
      OBVIOUS
    <2>4. CallInv'
      OBVIOUS
    <2>5. StrayInv'
      OBVIOUS
    <2>6. ActiveIsGranted' /\ ClosedIsUngranted' /\ WaitingIsReachable'
      OBVIOUS
    <2> QED
      BY <2>1, <2>2, <2>3, <2>4, <2>5, <2>6, <2>7, <2>8
  <1>15. CASE Stop
    <2> USE <1>15 DEF Stop, Abandon, Idle
    <2>1. RowOK' /\ BrokerOK'
      OBVIOUS
    <2>7. BatchOK'
      OBVIOUS
    <2>8. CallOK'
      OBVIOUS
    <2>2. SnapInv'
      OBVIOUS
    <2>3. RevokedInv'
      OBVIOUS
    <2>4. CallInv'
      OBVIOUS
    <2>5. StrayInv'
      OBVIOUS
    <2>6. ActiveIsGranted' /\ ClosedIsUngranted' /\ WaitingIsReachable'
      OBVIOUS
    <2> QED
      BY <2>1, <2>2, <2>3, <2>4, <2>5, <2>6, <2>7, <2>8
  <1>16. ASSUME NEW c \in Scope \X Phase, LateApply(c)
         PROVE  IInv'
    BY <1>16 DEF LateApply, Effect
  <1>17. CASE UNCHANGED vars
    BY <1>17 DEF vars
  <1> QED
    BY <1>1, <1>2, <1>3, <1>4, <1>5, <1>6, <1>7, <1>8, <1>9, <1>10, <1>11,
       <1>12, <1>13, <1>14, <1>15, <1>16, <1>17
    DEF Next, Owner, CallReturns

(***************************************************************************)
(* The theorems.                                                           *)
(***************************************************************************)

\* The inductive invariant holds in every reachable state.
LEMMA SpecIInv == Spec => []IInv
  BY InitIInv, NextIInv, PTL DEF Spec

\* Every row, batch, call and grant keeps its type; in particular no stale
\* batch drives broker_attempts past MaxBrokerAttempts.
THEOREM TypeCorrect == Spec => []TypeOK
  BY SpecIInv, PTL DEF IInv

\* A scope is active only while the broker holds its grant (MarkPublished
\* after PublishScope, against any race with the owner's Revoke).
THEOREM ActiveGranted == Spec => []ActiveIsGranted
  BY SpecIInv, PTL DEF IInv

\* A revoked_remote or purged scope has no grant left, but for an abandoned
\* publish that lands late (MarkRevoked, PrepareAlbumDeleteTx).
THEOREM ClosedUngranted == Spec => []ClosedIsUngranted
  BY SpecIInv, PTL DEF IInv

LEMMA NoLateCalls ==
  ASSUME ~LateCalls
  PROVE  Spec => [](stray = {})
  <1>1. Init => stray = {}
    BY DEF Init
  <1>2. stray = {} /\ [Next]_vars => (stray = {})'
    BY DEF Next, Owner, CallReturns, vars, row, worker, broker, Create, SetRevoking,
           RetryPublish, RetryRevoke, RetryTo, DeleteAlbum, Due, StartCall, ListReady,
           BrokerApply, MarkPublished, MarkRevoked, MarkAttemptFailed, MarkFailed,
           MarkLost, Stop, Abandon, LateApply
  <1> QED
    BY <1>1, <1>2, PTL DEF Spec

\* When no abandoned call takes effect late, revoked_remote is as terminal as
\* PrepareAlbumDeleteTx takes it to be.
THEOREM RevokedRemoteSafe ==
  ASSUME ~LateCalls
  PROVE  Spec => []RevokedRemoteIsSafe
  <1>1. stray = {} /\ ClosedIsUngranted => RevokedRemoteIsSafe
    BY DEF ClosedIsUngranted, RevokedRemoteIsSafe
  <1> QED
    BY <1>1, NoLateCalls, ClosedUngranted, PTL

\* A waiting row is always one that ListReady returns again (isTerminal
\* against the WHERE clause of ListReady).
THEOREM WaitingReachable == Spec => []WaitingIsReachable
  BY SpecIInv, PTL DEF IInv

\* Revocation is final (SetRevoking against MarkPublished, MarkFailed and the
\* retries).
THEOREM RevocationFinal == Spec => RevocationIsFinal
  <1> DEFINE Final == \A s \in Scope : revoked[s] =>
                 /\ revoked'[s]
                 /\ status'[s] \in {"revoking", "failed", "revoked_remote", "purged"}
  <1>1. IInv /\ [Next]_vars => [Final]_vars
    <2> SUFFICES ASSUME IInv, Next
                 PROVE  Final
      OBVIOUS
    <2> USE DEF IInv, TypeOK, RowOK, BatchOK, CallOK, RevokedInv, SnapInv, CallInv, row, worker
    <2>1. ASSUME NEW s \in Scope, NEW a \in Album \cup {NoAlbum}, Create(s, a)
          PROVE  Final
      BY <2>1 DEF Create
    <2>2. ASSUME NEW s \in Scope, SetRevoking(s)
          PROVE  Final
      BY <2>2 DEF SetRevoking
    <2>3. ASSUME NEW s \in Scope, RetryPublish(s) \/ RetryRevoke(s)
          PROVE  Final
      BY <2>3 DEF RetryPublish, RetryRevoke, RetryTo
    <2>4. ASSUME NEW a \in Album, DeleteAlbum(a)
          PROVE  Final
      BY <2>4 DEF DeleteAlbum, Purgeable
    <2>5. CASE MarkPublished
      BY <2>5 DEF MarkPublished
    <2>6. CASE MarkRevoked
      BY <2>6 DEF MarkRevoked
    <2>7. CASE MarkFailed
      BY <2>7 DEF MarkFailed
    <2>8. CASE \/ \E s \in Scope : Due(s) \/ StartCall(s)
               \/ ListReady \/ BrokerApply \/ MarkAttemptFailed \/ MarkLost \/ Stop
               \/ \E c \in Scope \X Phase : LateApply(c)
      BY <2>8 DEF Due, StartCall, ListReady, BrokerApply, MarkAttemptFailed, MarkLost,
                  Stop, LateApply
    <2> QED
      BY <2>1, <2>2, <2>3, <2>4, <2>5, <2>6, <2>7, <2>8 DEF Next, Owner, CallReturns
  <1>2. QED
    BY <1>1, SpecIInv, PTL DEF Spec, RevocationIsFinal

(***************************************************************************)
(* Refinement: the initial states map to GrantInit, and each step to a     *)
(* step of ShareGrant or to a stutter.                                     *)
(***************************************************************************)
Mapped == [s \in Scope |-> Promise(s)]

LEMMA InitImplements == Init => G!GrantInit
  BY DEF Init, G!GrantInit, Promise, Open

\* Only one scope changes its promise, and the broker does not change.
LEMMA MoveImplements ==
  ASSUME NEW s \in Scope, UNCHANGED grant,
         \A t \in Scope \ {s} : Promise(t)' = Promise(t)
  PROVE  /\ Promise(s)' = Promise(s) => UNCHANGED G!gvars
         /\ Promise(s) = "none" /\ Promise(s)' = "offered" => G!Offer(s)
         /\ grant[s] /\ Promise(s) = "offered" /\ Promise(s)' = "live" => G!Confirm(s)
         /\ Promise(s) \in {"offered", "live"} /\ Promise(s)' = "withdrawn" => G!Withdraw(s)
         /\ ~grant[s] /\ Promise(s) = "withdrawn" /\ Promise(s)' = "closed" => G!Close(s)
  <1>1. Mapped' = [Mapped EXCEPT ![s] = Promise(s)']
    BY DEF Mapped
  <1>2. Mapped[s] = Promise(s)
    BY DEF Mapped
  <1>3. Promise(s)' = Promise(s) => Mapped' = Mapped
    BY DEF Mapped
  <1> QED
    BY <1>1, <1>2, <1>3 DEF G!gvars, G!Offer, G!Confirm, G!Withdraw, G!Close, G!Move, Mapped

\* The broker changes the grant of one scope, and no promise changes.
LEMMA RemoteImplements ==
  ASSUME NEW s \in Scope, NEW b \in BOOLEAN, UNCHANGED <<status, revoked>>,
         grant' = [grant EXCEPT ![s] = b]
  PROVE  /\ b /\ Promise(s) \in {"offered", "withdrawn"} => G!Arrive(s)
         /\ ~b /\ Promise(s) = "withdrawn" => G!Leave(s)
  <1>1. Mapped' = Mapped
    BY DEF Mapped, Promise, Open
  <1>2. Mapped[s] = Promise(s)
    BY DEF Mapped
  <1> QED
    BY <1>1, <1>2 DEF G!Arrive, G!Leave, Mapped

LEMMA StepImplements ==
  ASSUME IInv, stray = {}, [Next]_vars
  PROVE  [G!GrantNext]_(G!gvars)
  <1> USE DEF IInv, TypeOK, RowOK, BatchOK, CallOK, BrokerOK, SnapInv, RevokedInv,
              CallInv, row, worker, broker
  <1>0. UNCHANGED <<status, revoked, grant>> => UNCHANGED G!gvars
    BY DEF G!gvars, Promise, Open
  <1>1. ASSUME NEW s \in Scope, NEW a \in Album \cup {NoAlbum}, Create(s, a)
        PROVE  G!Offer(s)
    BY <1>1, MoveImplements DEF Create, Promise, Open
  <1>2. ASSUME NEW s \in Scope, SetRevoking(s)
        PROVE  G!Withdraw(s)
    BY <1>2, MoveImplements DEF SetRevoking, Promise, Open
  <1>3. ASSUME NEW s \in Scope, RetryPublish(s) \/ RetryRevoke(s)
        PROVE  UNCHANGED G!gvars
    BY <1>3, MoveImplements DEF RetryPublish, RetryRevoke, RetryTo, Promise, Open
  <1>4. ASSUME NEW a \in Album, DeleteAlbum(a)
        PROVE  G!Forget({s \in Scope : target[s] = a})
    <2> DEFINE S == {s \in Scope : target[s] = a}
    <2>1. \A s \in S : Promise(s) = "closed" /\ Promise(s)' = "gone"
      BY <1>4 DEF DeleteAlbum, Purgeable, Promise, Open
    <2>2. \A s \in Scope \ S : Promise(s)' = Promise(s)
      BY <1>4 DEF DeleteAlbum, Promise, Open
    <2>3. UNCHANGED grant
      BY <1>4 DEF DeleteAlbum
    <2> HIDE DEF S
    <2>4. S \subseteq Scope
      BY DEF S
    <2>5. Mapped' = [s \in Scope |-> IF s \in S THEN "gone" ELSE Mapped[s]]
      BY <2>1, <2>2, <2>4 DEF Mapped
    <2>6. \A s \in S : Mapped[s] = "closed"
      BY <2>1, <2>4 DEF Mapped
    <2>7. G!Forget(S)
      BY <2>3, <2>5, <2>6 DEF G!Forget, Mapped
    <2> QED
      BY <2>7 DEF S
  <1>5. CASE MarkPublished
    <2>0. PICK s \in Scope : s = calling
      BY <1>5 DEF MarkPublished
    <2>1. UNCHANGED grant /\ \A t \in Scope \ {s} : Promise(t)' = Promise(t)
      BY <1>5, <2>0 DEF MarkPublished, Promise, Open
    <2>2. CASE status[calling] = "pending"
      <3>1. Promise(s) = "offered" /\ Promise(s)' = "live" /\ grant[s]
        BY <1>5, <2>0, <2>2 DEF MarkPublished, Promise, Open
      <3>2. G!Confirm(s)
        BY <2>1, <3>1, MoveImplements
      <3> QED
        BY <2>1, <3>2 DEF G!GrantNext
    <2>3. CASE status[calling] # "pending"
      BY <1>0, <1>5, <2>3 DEF MarkPublished
    <2> QED
      BY <2>2, <2>3
  <1>6. CASE MarkRevoked
    <2>0. PICK s \in Scope : s = calling
      BY <1>6 DEF MarkRevoked
    <2>1. UNCHANGED grant /\ \A t \in Scope \ {s} : Promise(t)' = Promise(t)
      BY <1>6, <2>0 DEF MarkRevoked, Promise, Open
    <2>2. Promise(s) = "withdrawn" /\ Promise(s)' = "closed" /\ ~grant[s]
      BY <1>6, <2>0 DEF MarkRevoked, Promise, Open
    <2>3. G!Close(s)
      BY <2>1, <2>2, MoveImplements
    <2> QED
      BY <2>1, <2>3 DEF G!GrantNext
  <1>7. CASE MarkFailed
    BY <1>7, MoveImplements DEF MarkFailed, Fenced, Promise, Open
  <1>8. CASE BrokerApply
    <2>1. G!Arrive(calling) \/ G!Leave(calling)
      BY <1>8, RemoteImplements DEF BrokerApply, Effect, Promise, Open
    <2> QED
      BY <1>8, <2>1 DEF G!GrantNext, BrokerApply
  <1>9. ASSUME NEW c \in Scope \X Phase, LateApply(c)
        PROVE  FALSE
    BY <1>9 DEF LateApply
  <1>10. CASE \/ \E s \in Scope : Due(s) \/ StartCall(s)
              \/ ListReady \/ MarkAttemptFailed \/ MarkLost \/ Stop \/ UNCHANGED vars
    BY <1>0, <1>10 DEF Due, StartCall, ListReady, MarkAttemptFailed, MarkLost, Stop, vars
  <1> QED
    BY <1>1, <1>2, <1>3, <1>4, <1>5, <1>6, <1>7, <1>8, <1>9, <1>10
    DEF Next, Owner, CallReturns, G!GrantNext

\* When no abandoned call lands late, the rows of "scopes", the worker and the
\* broker together keep the promise of ShareGrant.
THEOREM OutboxImplementsGrant ==
  ASSUME ~LateCalls
  PROVE  Spec => ImplementsGrant
  <1>1. Spec => [](stray = {})
    BY NoLateCalls
  <1> QED
    BY <1>1, InitImplements, StepImplements, SpecIInv, PTL
    DEF Spec, ImplementsGrant, G!GrantSpec
=============================================================================
