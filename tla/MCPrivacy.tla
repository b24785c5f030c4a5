-------------------------------- MODULE MCPrivacy --------------------------------
(* Instances of Privacy for TLC: see the .cfg files. *)
EXTENDS Privacy
=============================================================================
