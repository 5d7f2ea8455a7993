------------------------------ MODULE MCAccounts ------------------------------
(* Instances of Accounts for TLC. *)
EXTENDS Accounts, TLC

AccountSymmetry ==
    Permutations(Handlers) \cup Permutations(Sessions) \cup Permutations(Names)
        \cup Permutations(Passwords)
=============================================================================
