--------------------------- MODULE ShareRefinement ---------------------------
(***************************************************************************)
(* The outbox implements the promise of ShareGrant.                        *)
(***************************************************************************)
EXTENDS ShareOutbox

\* The promise, read off the row.  A failed scope is still offered, or still
\* withdrawn: revoked_at tells which.
Open(s) == status[s] \in {"pending", "failed", "revoking"}

Promise(s) ==
    CASE status[s] = "absent"         -> "none"
      [] status[s] = "active"         -> "live"
      [] status[s] = "revoked_remote" -> "closed"
      [] status[s] = "purged"         -> "gone"
      [] Open(s) /\ revoked[s]        -> "withdrawn"
      [] Open(s) /\ ~revoked[s]       -> "offered"

G == INSTANCE ShareGrant WITH
        promise <- [s \in Scope |-> Promise(s)],
        remote  <- grant

\* Refinement: as long as no abandoned call lands late, the outbox
\* implements the promise step by step.
ImplementsGrant == G!GrantSpec
=============================================================================
