--------------------------- MODULE MCAnalyzeRequests ----------------------------
(* Instances of AnalyzeRequests for TLC: see the .cfg file. *)
EXTENDS AnalyzeRequests
=============================================================================
