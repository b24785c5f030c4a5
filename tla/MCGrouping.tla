------------------------------- MODULE MCGrouping -------------------------------
(* Instances of Grouping for TLC: see the .cfg file. *)
EXTENDS Grouping
=============================================================================
