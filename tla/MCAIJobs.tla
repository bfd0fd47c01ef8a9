------------------------------ MODULE MCAIJobs ------------------------------
(* Small libraries of AIJobs: whose photos they are, and which fingerprint  *)
(* is in force at first.  Any other is an instance with the names changed.  *)
EXTENDS AIJobs

CONSTANTS a, b

OneOwner == [m \in Asset |-> CHOOSE p \in Principal : TRUE]

StartInit == Init /\ config = a
StartSpec == StartInit /\ [][Next]_avars /\ Fairness
=============================================================================
