----------------------------- MODULE MCBatchAnalyzer -----------------------------
(* Instances of BatchAnalyzer for TLC: see the .cfg files. *)
EXTENDS BatchAnalyzer
=============================================================================
