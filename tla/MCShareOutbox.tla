---------------------------- MODULE MCShareOutbox ----------------------------
(***************************************************************************)
(* Instances of ShareOutbox for TLC.                                       *)
(***************************************************************************)
EXTENDS ShareRefinement, TLC

CONSTANTS s1, s2, a1

ScopeSymmetry == Permutations(Scope)
=============================================================================
