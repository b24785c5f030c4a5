------------------------------ MODULE MCOcrEngine ------------------------------
(* Instances of OcrEngine for TLC: see the .cfg files. *)
EXTENDS OcrEngine
=============================================================================
