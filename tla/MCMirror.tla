------------------------------ MODULE MCMirror ------------------------------
(***************************************************************************)
(* MirrorHistory with the instances of MCIngestion, for TLC.               *)
(***************************************************************************)
EXTENDS MirrorHistory, MCIngestion
=============================================================================
