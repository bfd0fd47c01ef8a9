----------------------------- MODULE ShareOutbox -----------------------------
(***************************************************************************)
(* The life of a share scope: the owner's operations on its row in         *)
(* "scopes" (internal/share, internal/service), the outbox worker that     *)
(* carries them to the broker (internal/shareworker), and the broker       *)
(* itself, known only through the calls of internal/brokerexec.            *)
(*                                                                         *)
(* Every UPDATE of the repository is one transaction of the single         *)
(* read-write connection, so it is one atomic action here.  A broker call  *)
(* runs outside any transaction: it is started from a row read earlier     *)
(* (snap, snapAttempts), takes effect or not, and its outcome is recorded  *)
(* in a later step; the owner may act in between, and the process may stop.*)
(***************************************************************************)
EXTENDS Integers, FiniteSets

CONSTANTS
    Scope,        \* UUIDs of scopes
    Album,        \* albums that a scope may target
    NoAlbum,      \* target_album_id IS NULL: a media_set scope
    NoScope,      \* the worker is not in a broker call
    MaxAttempts,  \* share.MaxBrokerAttempts
    Batch,        \* shareworker Config.Batch
    MaxFaults,    \* bound on stops of the process and on failed writes
    LateCalls     \* may an abandoned broker call still take effect?

ASSUME ShareAssumption ==
    /\ NoAlbum \notin Album
    /\ NoScope \notin Scope
    /\ MaxAttempts \in Nat \ {0}
    /\ Batch \in Nat \ {0}
    /\ MaxFaults \in Nat
    /\ LateCalls \in BOOLEAN

VARIABLES
    status,        \* broker_status, or "absent" / "purged" without a row
    revoked,       \* revoked_at IS NOT NULL
    attempts,      \* broker_attempts
    next,          \* broker_next_attempt_at: NULL, in the past, in the future
    target,        \* target_album_id
    albums,        \* albums that exist
    snap,          \* status of the row as the worker's current batch read it
    snapAttempts,  \* broker_attempts as the batch read it
    calling,       \* the scope whose broker call is in flight
    applied,       \* the call in flight has taken effect at the broker
    grant,         \* the broker holds a grant for the scope
    stray,         \* abandoned calls that may still reach the broker
    faults

row == <<status, revoked, attempts, next>>
worker == <<snap, snapAttempts, calling, applied>>
broker == <<grant, stray>>
vars == <<row, target, albums, worker, broker, faults>>

BrokerStatus == {"pending", "active", "failed", "revoking", "revoked_remote"}
Phase == {"pending", "revoking"}

RowOK ==
    /\ status \in [Scope -> BrokerStatus \cup {"absent", "purged"}]
    /\ revoked \in [Scope -> BOOLEAN]
    /\ attempts \in [Scope -> 0..MaxAttempts]
    /\ next \in [Scope -> {"null", "past", "future"}]
    /\ target \in [Scope -> Album \cup {NoAlbum}]
    /\ albums \in SUBSET Album

BatchOK ==
    /\ snap \in [Scope -> Phase \cup {"none"}]
    /\ snapAttempts \in [Scope -> 0..MaxAttempts]

CallOK ==
    /\ calling \in Scope \cup {NoScope}
    /\ applied \in BOOLEAN

BrokerOK ==
    /\ grant \in [Scope -> BOOLEAN]
    /\ stray \in SUBSET (Scope \X Phase)
    /\ faults \in 0..MaxFaults

TypeOK == RowOK /\ BatchOK /\ CallOK /\ BrokerOK

Init ==
    /\ status = [s \in Scope |-> "absent"]
    /\ revoked = [s \in Scope |-> FALSE]
    /\ attempts = [s \in Scope |-> 0]
    /\ next = [s \in Scope |-> "null"]
    /\ target = [s \in Scope |-> NoAlbum]
    /\ albums = Album
    /\ snap = [s \in Scope |-> "none"]
    /\ snapAttempts = [s \in Scope |-> 0]
    /\ calling = NoScope
    /\ applied = FALSE
    /\ grant = [s \in Scope |-> FALSE]
    /\ stray = {}
    /\ faults = 0

-----------------------------------------------------------------------------
(* The owner.  The services read the row first to check its owner; what    *)
(* decides is the WHERE clause of the UPDATE, which is the guard here.     *)

\* A media_set scope has no album; the foreign key keeps an album_live one
\* from naming an album that was deleted since Create looked at it.
Create(s, a) ==
    /\ status[s] = "absent"
    /\ a \in albums \cup {NoAlbum}
    /\ status' = [status EXCEPT ![s] = "pending"]
    /\ target' = [target EXCEPT ![s] = a]
    /\ UNCHANGED <<revoked, attempts, next, albums, worker, broker, faults>>

\* Mutant: the attempts of the publication count against the revocation.
RevokeKeepsAttempts(s) ==
    /\ status[s] \in {"pending", "active", "failed"}
    /\ ~revoked[s]
    /\ status' = [status EXCEPT ![s] = "revoking"]
    /\ revoked' = [revoked EXCEPT ![s] = TRUE]
    /\ next' = [next EXCEPT ![s] = "null"]
    /\ UNCHANGED <<attempts, target, albums, worker, broker, faults>>

SetRevoking(s) ==
    /\ status[s] \in {"pending", "active", "failed"}
    /\ ~revoked[s]
    /\ status' = [status EXCEPT ![s] = "revoking"]
    /\ revoked' = [revoked EXCEPT ![s] = TRUE]
    /\ attempts' = [attempts EXCEPT ![s] = 0]
    /\ next' = [next EXCEPT ![s] = "null"]
    /\ UNCHANGED <<target, albums, worker, broker, faults>>

\* Mutant: a retry does not start counting again.
RetryKeepsAttempts(s, phase) ==
    /\ status[s] = "failed"
    /\ status' = [status EXCEPT ![s] = phase]
    /\ next' = [next EXCEPT ![s] = "null"]
    /\ UNCHANGED <<revoked, attempts, target, albums, worker, broker, faults>>

RetryTo(s, phase) ==
    /\ status[s] = "failed"
    /\ status' = [status EXCEPT ![s] = phase]
    /\ attempts' = [attempts EXCEPT ![s] = 0]
    /\ next' = [next EXCEPT ![s] = "null"]
    /\ UNCHANGED <<revoked, target, albums, worker, broker, faults>>

\* Mutant: the revoked_at IS NULL guard is dropped.
PublishAnyFailed(s) == RetryTo(s, "pending")

RetryPublish(s) == ~revoked[s] /\ RetryTo(s, "pending")

RetryRevoke(s) == revoked[s] /\ RetryTo(s, "revoking")

\* Mutant: a failed revocation counts as terminal.
PurgeableIfFailed(s) == status[s] \in {"revoked_remote", "failed"} /\ revoked[s]

\* PrepareAlbumDeleteTx and DeleteTx, one transaction: it rolls back if a
\* scope that is not revoked_remote targets the album.
Purgeable(s) == status[s] = "revoked_remote"

DeleteAlbum(a) ==
    /\ a \in albums
    /\ \A s \in Scope : target[s] = a => Purgeable(s)
    /\ albums' = albums \ {a}
    /\ status' = [s \in Scope |-> IF target[s] = a THEN "purged" ELSE status[s]]
    /\ target' = [s \in Scope |-> IF target[s] = a THEN NoAlbum ELSE target[s]]
    /\ UNCHANGED <<revoked, attempts, next, worker, broker, faults>>

-----------------------------------------------------------------------------
(* The outbox worker: one goroutine.                                       *)

\* broker_next_attempt_at passes.
Due(s) ==
    /\ next[s] = "future"
    /\ next' = [next EXCEPT ![s] = "past"]
    /\ UNCHANGED <<status, revoked, attempts, target, albums, worker, broker, faults>>

\* Mutant: the WHERE clause forgets the status.
ReadyAnyStatus(s) == next[s] # "future" /\ attempts[s] < MaxAttempts

Ready(s) ==
    /\ status[s] \in Phase
    /\ next[s] # "future"
    /\ attempts[s] < MaxAttempts

\* A batch is full or holds every ready row, and takes rows that were never
\* scheduled before those whose time has come (ORDER BY ... NULLS FIRST).
IsBatch(B) ==
    LET ready == {s \in Scope : Ready(s)}
    IN  /\ B \subseteq ready
        /\ B # {}
        /\ \/ B = ready
           \/ Cardinality(B) = Batch
        /\ Cardinality(B) <= Batch
        /\ \A s \in B, t \in ready \ B : next[t] = "null" => next[s] = "null"

Idle == calling = NoScope /\ \A s \in Scope : snap[s] = "none"

ListReady ==
    /\ Idle
    /\ \E B \in SUBSET Scope :
         /\ IsBatch(B)
         /\ snap' = [s \in Scope |-> IF s \in B THEN status[s] ELSE "none"]
         /\ snapAttempts' = [s \in Scope |-> IF s \in B THEN attempts[s] ELSE 0]
    /\ UNCHANGED <<row, target, albums, calling, applied, broker, faults>>

\* PublishScope or RevokeScope, chosen by the status the batch read.
StartCall(s) ==
    /\ calling = NoScope
    /\ snap[s] # "none"
    /\ calling' = s
    /\ applied' = FALSE
    /\ UNCHANGED <<row, target, albums, snap, snapAttempts, broker, faults>>

EndCall ==
    /\ calling' = NoScope
    /\ applied' = FALSE
    /\ snap' = [snap EXCEPT ![calling] = "none"]
    /\ snapAttempts' = [snapAttempts EXCEPT ![calling] = 0]

\* What becomes of a call the worker stops waiting for: the command is
\* killed at its timeout, or left behind by a process that died.
Abandon ==
    stray' = IF LateCalls /\ ~applied
               THEN stray \cup {<<calling, snap[calling]>>} ELSE stray

\* Mutant: no CASE on broker_status.
MarkPublishedAnyway ==
    /\ calling # NoScope /\ snap[calling] = "pending" /\ applied
    /\ status' = [status EXCEPT ![calling] = "active"]
    /\ next' = [next EXCEPT ![calling] = "null"]
    /\ EndCall
    /\ UNCHANGED <<revoked, attempts, target, albums, broker, faults>>

MarkPublished ==
    /\ calling # NoScope /\ snap[calling] = "pending" /\ applied
    /\ IF status[calling] = "pending"
         THEN /\ status' = [status EXCEPT ![calling] = "active"]
              /\ next' = [next EXCEPT ![calling] = "null"]
         ELSE UNCHANGED <<status, next>>
    /\ EndCall
    /\ UNCHANGED <<revoked, attempts, target, albums, broker, faults>>

\* Mutant: any return of RevokeScope counts as success.
MarkRevokedAlways ==
    /\ calling # NoScope /\ snap[calling] = "revoking"
    /\ status[calling] = "revoking"
    /\ status' = [status EXCEPT ![calling] = "revoked_remote"]
    /\ next' = [next EXCEPT ![calling] = "null"]
    /\ EndCall
    /\ Abandon
    /\ UNCHANGED <<revoked, attempts, target, albums, grant, faults>>

MarkRevoked ==
    /\ calling # NoScope /\ snap[calling] = "revoking" /\ applied
    /\ IF status[calling] = "revoking" /\ revoked[calling]
         THEN /\ status' = [status EXCEPT ![calling] = "revoked_remote"]
              /\ next' = [next EXCEPT ![calling] = "null"]
         ELSE UNCHANGED <<status, next>>
    /\ EndCall
    /\ UNCHANGED <<revoked, attempts, target, albums, broker, faults>>

\* Mutant: off by one.
LastAttemptLate(n) == n + 1 > MaxAttempts

\* isTerminal without a permanent error: decided on the attempts the batch
\* read, not on those of the row.
LastAttempt(n) == n + 1 >= MaxAttempts

\* The phase of the call must still be the phase of the row.
Fenced(s) == status[s] = snap[s]

\* A transient error, an unknown exit code or the call's own timeout.
MarkAttemptFailed ==
    /\ calling # NoScope
    /\ ~LastAttempt(snapAttempts[calling])
    /\ IF Fenced(calling)
         THEN /\ attempts' = [attempts EXCEPT ![calling] = @ + 1]
              /\ next' = [next EXCEPT ![calling] = "future"]
         ELSE UNCHANGED <<attempts, next>>
    /\ EndCall
    /\ Abandon
    /\ UNCHANGED <<status, revoked, target, albums, grant, faults>>

\* The last attempt, or a permanent error at any attempt.
MarkFailed ==
    /\ calling # NoScope
    /\ IF Fenced(calling)
         THEN /\ status' = [status EXCEPT ![calling] = "failed"]
              /\ attempts' = [attempts EXCEPT ![calling] = @ + 1]
              /\ next' = [next EXCEPT ![calling] = "null"]
         ELSE UNCHANGED <<status, attempts, next>>
    /\ EndCall
    /\ Abandon
    /\ UNCHANGED <<revoked, target, albums, grant, faults>>

\* The broker call returned but the UPDATE that records it failed: the error
\* is logged and the row is left for a later batch.
MarkLost ==
    /\ calling # NoScope
    /\ faults < MaxFaults
    /\ faults' = faults + 1
    /\ EndCall
    /\ Abandon
    /\ UNCHANGED <<row, target, albums, grant>>

\* The process is stopped or dies.  Batch and call live in memory only.
Stop ==
    /\ ~Idle
    /\ faults < MaxFaults
    /\ faults' = faults + 1
    /\ calling' = NoScope
    /\ applied' = FALSE
    /\ snap' = [s \in Scope |-> "none"]
    /\ snapAttempts' = [s \in Scope |-> 0]
    /\ IF calling # NoScope THEN Abandon ELSE UNCHANGED stray
    /\ UNCHANGED <<row, target, albums, grant>>

-----------------------------------------------------------------------------
(* The broker.  PublishScope creates the grant, RevokeScope removes it;    *)
(* both may be repeated, and revoking an unknown scope succeeds.           *)

Effect(s, phase) == grant' = [grant EXCEPT ![s] = (phase = "pending")]

BrokerApply ==
    /\ calling # NoScope
    /\ ~applied
    /\ applied' = TRUE
    /\ Effect(calling, snap[calling])
    /\ UNCHANGED <<row, target, albums, snap, snapAttempts, calling, stray, faults>>

LateApply(c) ==
    /\ c \in stray
    /\ Effect(c[1], c[2])
    /\ UNCHANGED <<row, target, albums, worker, stray, faults>>

-----------------------------------------------------------------------------
Owner ==
    \/ \E s \in Scope : \/ \E a \in Album \cup {NoAlbum} : Create(s, a)
                        \/ SetRevoking(s)
                        \/ RetryPublish(s)
                        \/ RetryRevoke(s)
    \/ \E a \in Album : DeleteAlbum(a)

CallReturns == MarkPublished \/ MarkRevoked \/ MarkAttemptFailed \/ MarkFailed \/ MarkLost

Next ==
    \/ Owner
    \/ \E s \in Scope : Due(s) \/ StartCall(s)
    \/ ListReady
    \/ BrokerApply
    \/ CallReturns
    \/ Stop
    \/ \E c \in Scope \X Phase : LateApply(c)

Spec == Init /\ [][Next]_vars

\* The ticker fires, time passes, and a broker call returns within its
\* timeout.  Nothing is asked of the owner, and nothing of the broker: it may
\* fail every call.
Fairness ==
    /\ WF_vars(ListReady)
    /\ WF_vars(\E s \in Scope : StartCall(s))
    /\ WF_vars(CallReturns)
    /\ \A s \in Scope : WF_vars(Due(s))

FairSpec == Spec /\ Fairness

-----------------------------------------------------------------------------
(* Properties.                                                             *)

Closed(s) == status[s] \in {"revoked_remote", "purged"}

\* A scope shown as active has its grant at the broker, whatever the owner,
\* the timeouts and the restarts did between the call and MarkPublished.
ActiveIsGranted == \A s \in Scope : status[s] = "active" => grant[s]

\* A scope recorded as revoked at the broker, or purged with its album, has
\* no grant left there, unless a publish call of it was abandoned before it
\* took effect: that is the only way a grant outlives the row.
ClosedIsUngranted ==
    \A s \in Scope : Closed(s) /\ grant[s] => <<s, "pending">> \in stray

\* A row waiting for the worker is one ListReady will return again: the
\* attempts a stale batch read never push a waiting row past the limit of
\* its WHERE clause, where nothing would ever process it.
WaitingIsReachable ==
    \A s \in Scope : status[s] \in Phase => attempts[s] < MaxAttempts

\* Revocation is final: after the owner's SetRevoking no outcome of a call
\* started before it, and no retry, makes the scope pending or active again.
RevocationIsFinal ==
    [][\A s \in Scope : revoked[s] =>
          /\ revoked'[s]
          /\ status'[s] \in {"revoking", "failed", "revoked_remote", "purged"}]_vars

\* Every revocation settles: the broker confirmed it, or the owner is shown a
\* failed scope to retry.
RevocationSettles ==
    \A s \in Scope : status[s] = "revoking" ~> Closed(s) \/ status[s] = "failed"

\* So does every publication, unless the owner revokes first.
PublicationSettles ==
    \A s \in Scope : status[s] = "pending" ~> status[s] # "pending"

\* What the comment of PrepareAlbumDeleteTx takes for granted: revoked_remote
\* is safely terminal, so its row may be purged with the album.
RevokedRemoteIsSafe == \A s \in Scope : Closed(s) => ~grant[s]
=============================================================================
