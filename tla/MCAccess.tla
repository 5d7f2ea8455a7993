------------------------------- MODULE MCAccess -------------------------------
(* Instances of Access for TLC. *)
EXTENDS Access, TLC

AccessSymmetry ==
    Permutations(Setups) \cup Permutations(Logins) \cup Permutations(Plugins)
=============================================================================
