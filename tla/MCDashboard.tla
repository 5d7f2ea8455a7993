----------------------------- MODULE MCDashboard -----------------------------
(* Instances of Dashboard for TLC. *)
EXTENDS Dashboard

\* Every plugin is there, some run, one of them is kept alive.
MCServers == {[in |-> Plugins, on |-> Plugins \ Menus, kept |-> {}]}
=============================================================================
