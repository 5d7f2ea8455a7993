---------------------------- MODULE MCCommandLine ----------------------------
(* Instances of CommandLine for TLC. *)
EXTENDS CommandLine, TLC

Symmetry == Permutations(Commands) \cup Permutations(Panels) \cup Permutations(Secrets)
=============================================================================
