------------------------------ MODULE PortLease ------------------------------
(***************************************************************************)
(* What the plugin manager promises about ports, without its mutex, its    *)
(* processes and its timers: a plugin holds at most one port of the pool,  *)
(* no two plugins hold the same one, and a plugin that holds a port        *)
(* changes it only by giving it up first.  The leases are noted in a book  *)
(* that survives the manager, each time all of them or, when the disk      *)
(* fails, none.  The next manager starts from the book, in which it may    *)
(* find several leases void at once.                                       *)
(***************************************************************************)
CONSTANTS Plugins, Ports, NoPort

VARIABLES up, lease, book

NoLease == [n \in Plugins |-> NoPort]

Init == up = FALSE /\ lease = NoLease /\ book = NoLease

\* After every change.
Note == book' \in {book, lease'}

\* A plugin without a port takes one that nobody holds.
Take(n, q) ==
    /\ up /\ lease[n] = NoPort
    /\ \A m \in Plugins : lease[m] # q
    /\ lease' = [lease EXCEPT ![n] = q]
    /\ Note /\ UNCHANGED up

Release(n) == up /\ lease' = [lease EXCEPT ![n] = NoPort] /\ Note /\ UNCHANGED up

Fail == up /\ up' = FALSE /\ lease' = NoLease /\ UNCHANGED book

\* The plugins in void lose their ports.
TakeOver(void) ==
    /\ ~up /\ up' = TRUE
    /\ lease' = [n \in Plugins |-> IF n \in void THEN NoPort ELSE book[n]]
    /\ Note

Next ==
    \/ \E n \in Plugins : Release(n) \/ \E q \in Ports : Take(n, q)
    \/ Fail
    \/ \E void \in SUBSET Plugins : TakeOver(void)

Spec == Init /\ [][Next]_<<up, lease, book>>
=============================================================================
