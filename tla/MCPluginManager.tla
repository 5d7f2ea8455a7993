--------------------------- MODULE MCPluginManager ---------------------------
(* Instances of PluginManager for TLC. *)
EXTENDS PluginManager, TLC

RequestSymmetry == Permutations(Requests)
AdminSymmetry == Permutations(Admins)
=============================================================================
