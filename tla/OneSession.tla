------------------------------ MODULE OneSession ------------------------------
(***************************************************************************)
(* What the panel promises about the sessions of an account, without user  *)
(* names, passwords and handlers: at any time at most one is accepted.  A  *)
(* login puts its own session, never one that was used before, in the      *)
(* place of the accepted one, in one step; a session that is no longer     *)
(* accepted never is again.                                                *)
(***************************************************************************)
CONSTANT Sessions

VARIABLES
    accepted,  \* the session that requests are accepted with, or none
    used       \* the sessions of all logins so far

Init == accepted = {} /\ used = {}

\* With a new session.  Of two logins at the same time each may take the session of the other
\* down.
LogIn(s) ==
    /\ used' = used \cup {s}
    /\ accepted' \subseteq {s}

\* A logout, a revocation, or its time is over.
End == accepted # {} /\ accepted' = {} /\ UNCHANGED used

Next == (\E s \in Sessions \ used : LogIn(s)) \/ End

Spec == Init /\ [][Next]_<<accepted, used>>
=============================================================================
