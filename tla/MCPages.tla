------------------------------- MODULE MCPages -------------------------------
(* Instances of Pages for TLC. *)
EXTENDS Pages

\* The settings page, with any two languages in the browser and in the server.
MCLoads == [server: [lang: Langs \cup Foreign, theme: {"sage"}], lang: Langs,
            theme: {"sage"}, hash: {"settings"}]
=============================================================================
