--------------------------- MODULE MCJudgePipeline ---------------------------
(***************************************************************************)
(* Instances of JudgePipeline for TLC.  Jobs and workers are               *)
(* interchangeable, but both runs check liveness, which excludes the use   *)
(* of their symmetry.                                                      *)
(***************************************************************************)
EXTENDS JudgePipeline, TLC
=============================================================================
