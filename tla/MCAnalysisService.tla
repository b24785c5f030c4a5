---------------------------- MODULE MCAnalysisService ----------------------------
(* Instances of AnalysisService for TLC: see the .cfg files. *)
EXTENDS AnalysisService
=============================================================================
