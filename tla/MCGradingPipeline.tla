-------------------------- MODULE MCGradingPipeline --------------------------
(***************************************************************************)
(* Instances of GradingPipeline for TLC.                                   *)
(***************************************************************************)
EXTENDS GradingPipeline, TLC

Symmetry == Permutations(Graders) \cup Permutations(Workers)
=============================================================================
