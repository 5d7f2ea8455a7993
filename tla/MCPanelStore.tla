----------------------------- MODULE MCPanelStore -----------------------------
(* Instances of PanelStore for TLC. *)
EXTENDS PanelStore, TLC

ChangeSymmetry == Permutations(Changes)
=============================================================================
