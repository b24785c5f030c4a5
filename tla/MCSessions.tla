------------------------------- MODULE MCSessions -------------------------------
(* Instances of Sessions for TLC: see the .cfg files. *)
EXTENDS Sessions, TLC

CONSTANTS s1, s2

Pair(access, refresh) ==
    (ACCESS_TOKEN_TYPE :> access) @@ (REFRESH_TOKEN_TYPE :> refresh)

(* One secret for both kinds of token, one of the two missing, and the access secret
   changed.  The last instance cannot sign, which keeps the tokens to one secret:
   they differ in kind and times, and it is secrets of instances that vary.      *)
MCSettings == {Pair(s1, s1), Pair(NoSecret, s1), Pair(s1, NoSecret), Pair(s2, NoSecret)}

(* Copies of the backend are interchangeable. *)
Symmetry == Permutations(Instances)
=============================================================================
