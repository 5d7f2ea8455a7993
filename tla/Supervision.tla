----------------------------- MODULE Supervision -----------------------------
(***************************************************************************)
(* What the plugin manager promises about processes, without its mutex,    *)
(* its goroutines and its timers: it starts a process for a plugin that    *)
(* has none, takes a living one out of its books only to kill it, and      *)
(* never starts one twice.  The supervisor itself may fail, which leaves   *)
(* the processes alone; the one that takes over goes by the book that the  *)
(* first has left, and may strike out entries that it finds void.  The     *)
(* book is brought up to date whole or, when the disk fails, not at all.   *)
(***************************************************************************)
CONSTANTS Plugins, Procs, None

VARIABLES
    up,      \* a supervisor runs
    entry,   \* the process of a plugin
    book,    \* what the supervisor has noted of that
    alive,   \* processes
    doomed,  \* those of them that are being killed
    born     \* all processes there have been

Init ==
    /\ up = FALSE /\ entry = [n \in Plugins |-> None] /\ book = entry
    /\ alive = {} /\ doomed = {} /\ born = {}

\* After every change of the entries.
Note == book' \in {book, entry'}

Start(n, p) ==
    /\ up /\ entry[n] = None /\ p \notin born
    /\ entry' = [entry EXCEPT ![n] = p] /\ Note
    /\ alive' = alive \cup {p} /\ born' = born \cup {p}
    /\ UNCHANGED <<up, doomed>>

\* A process that lives is killed next.
Drop(n) ==
    /\ up /\ entry[n] # None
    /\ entry' = [entry EXCEPT ![n] = None] /\ Note
    /\ doomed' = doomed \cup ({entry[n]} \cap alive)
    /\ UNCHANGED <<up, alive, born>>

\* By itself or killed.
End(p) ==
    /\ p \in alive
    /\ alive' = alive \ {p} /\ doomed' = doomed \ {p}
    /\ UNCHANGED <<up, entry, book, born>>

\* Only the book is left; nobody goes on with the killing.
Gone == up /\ up' = FALSE /\ entry' = [n \in Plugins |-> None] /\ doomed' = {} /\ book' = book

Fail == Gone /\ UNCHANGED <<alive, born>>

\* It has started a process that it has not entered yet.
FailStarting(p) ==
    /\ Gone
    /\ p \notin born
    /\ alive' = alive \cup {p} /\ born' = born \cup {p}

TakeOver(void) ==
    /\ ~up /\ up' = TRUE
    /\ entry' = [n \in Plugins |-> IF n \in void THEN None ELSE book[n]] /\ Note
    /\ UNCHANGED <<alive, doomed, born>>

Next ==
    \/ \E n \in Plugins : Drop(n) \/ \E p \in Procs : Start(n, p)
    \/ \E p \in Procs : End(p) \/ FailStarting(p)
    \/ Fail
    \/ \E void \in SUBSET Plugins : TakeOver(void)

Spec == Init /\ [][Next]_<<up, entry, book, alive, doomed, born>>
=============================================================================
