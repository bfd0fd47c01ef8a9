---------------------------- MODULE ImportLedger ----------------------------
(***************************************************************************)
(* What an import promises, without processes, calls or interruptions: a   *)
(* set of contents is reserved as a whole for a new asset, the contents    *)
(* reach Docbank in any order, and the asset then becomes ready as a whole *)
(* or is refused as a whole.  Nothing of that is ever undone.              *)
(***************************************************************************)
CONSTANTS Digest, Asset, NoAsset

VARIABLES
    holder,    \* the asset a content is reserved for
    state,     \* the state of each asset
    stored     \* the contents Docbank holds under their reserved paths

vars == <<holder, state, stored>>

Contents(a) == {d \in Digest : holder[d] = a}

Init ==
    /\ holder = [d \in Digest |-> NoAsset]
    /\ state = [a \in Asset |-> "none"]
    /\ stored = {}

Reserve(a, D) ==
    /\ state[a] = "none"
    /\ \A d \in D : holder[d] = NoAsset
    /\ state' = [state EXCEPT ![a] = "pending"]
    /\ holder' = [d \in Digest |-> IF d \in D THEN a ELSE holder[d]]
    /\ UNCHANGED stored

Store(d) ==
    /\ holder[d] # NoAsset
    /\ stored' = stored \cup {d}
    /\ UNCHANGED <<holder, state>>

Finish(a) ==
    /\ state[a] = "pending"
    /\ Contents(a) \subseteq stored
    /\ state' = [state EXCEPT ![a] = "ready"]
    /\ UNCHANGED <<holder, stored>>

Refuse(a) ==
    /\ state[a] = "pending"
    /\ state' = [state EXCEPT ![a] = "conflict"]
    /\ UNCHANGED <<holder, stored>>

Next ==
    \/ \E a \in Asset :
          \/ \E D \in (SUBSET Digest) \ {{}} : Reserve(a, D)
          \/ Finish(a)
          \/ Refuse(a)
    \/ \E d \in Digest : Store(d)

Spec == Init /\ [][Next]_vars
=============================================================================
