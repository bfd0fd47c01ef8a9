----------------------------- MODULE MCEmbedding -----------------------------
(***************************************************************************)
(* Instances of Embedding for TLC.                                         *)
(***************************************************************************)
EXTENDS Embedding, TLC

\* Safety runs: photos and models are interchangeable.
Symmetry == Permutations(Asset) \cup Permutations(Model)
=============================================================================
