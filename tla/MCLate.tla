------------------------------- MODULE MCLate -------------------------------
(***************************************************************************)
(* Instances of LateRequests for TLC, with the contents of MCIngestion.    *)
(***************************************************************************)
EXTENDS LateRequests, MCIngestion
=============================================================================
