------------------------------ MODULE ShareGrant ------------------------------
(***************************************************************************)
(* What sharing promises, without outbox, retries or failures: a scope is  *)
(* offered, goes live only once the broker holds the grant, can be         *)
(* withdrawn at any time and is closed only when the grant is gone.        *)
(***************************************************************************)
CONSTANT Scope

VARIABLES promise, remote

gvars == <<promise, remote>>

GrantInit ==
    /\ promise = [s \in Scope |-> "none"]
    /\ remote = [s \in Scope |-> FALSE]

Move(s, from, to) ==
    /\ promise[s] \in from
    /\ promise' = [promise EXCEPT ![s] = to]
    /\ UNCHANGED remote

Offer(s) == Move(s, {"none"}, "offered")

Confirm(s) == remote[s] /\ Move(s, {"offered"}, "live")

Withdraw(s) == Move(s, {"offered", "live"}, "withdrawn")

Close(s) == ~remote[s] /\ Move(s, {"withdrawn"}, "closed")

\* An album goes, and its closed scopes with it.
Forget(S) ==
    /\ \A s \in S : promise[s] = "closed"
    /\ promise' = [s \in Scope |-> IF s \in S THEN "gone" ELSE promise[s]]
    /\ UNCHANGED remote

\* A publication under way may still arrive after the owner withdrew.
Arrive(s) ==
    /\ promise[s] \in {"offered", "withdrawn"}
    /\ remote' = [remote EXCEPT ![s] = TRUE]
    /\ UNCHANGED promise

Leave(s) ==
    /\ promise[s] = "withdrawn"
    /\ remote' = [remote EXCEPT ![s] = FALSE]
    /\ UNCHANGED promise

GrantNext ==
    \/ \E s \in Scope : Offer(s) \/ Confirm(s) \/ Withdraw(s) \/ Close(s)
    \/ \E S \in SUBSET Scope : Forget(S)
    \/ \E s \in Scope : Arrive(s) \/ Leave(s)

GrantSpec == GrantInit /\ [][GrantNext]_gvars
=============================================================================
