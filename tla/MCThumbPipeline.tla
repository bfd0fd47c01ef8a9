--------------------------- MODULE MCThumbPipeline ---------------------------
(***************************************************************************)
(* Instances of ThumbPipeline for TLC.                                     *)
(***************************************************************************)
EXTENDS ThumbPipeline
=============================================================================
