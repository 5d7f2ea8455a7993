------------------------------- MODULE SetupJob -------------------------------
(***************************************************************************)
(* What the set-up wizard promises, without requests, user names and the   *)
(* document: one job at a time, which makes an administrator, then         *)
(* installs the wanted plugins one by one.  It is reported complete only   *)
(* with all of them installed and an administrator who outlives the panel. *)
(***************************************************************************)
CONSTANT Plugins

VARIABLES
    job,     \* what the progress page is told
    wanted,  \* the plugins of the job that began last
    done,    \* those of them it has installed
    admin    \* whether there is an administrator, and whether only until the panel ends

Init == job = "idle" /\ wanted = {} /\ done = {} /\ admin = "none"

Begin(chose) ==
    /\ job # "running" /\ job' = "running"
    /\ wanted' = chose /\ done' = {} /\ UNCHANGED admin

MakeAdmin ==
    /\ job = "running" /\ done = {}
    /\ admin' = "disk" /\ UNCHANGED <<job, wanted, done>>

\* The administrator may be there although the job has failed.
GiveUp ==
    /\ job = "running" /\ job' = "idle"
    /\ \/ UNCHANGED admin
       \/ done = {} /\ admin = "none" /\ admin' = "memory"
    /\ UNCHANGED <<wanted, done>>

Install(p) ==
    /\ job = "running" /\ admin = "disk" /\ p \notin done
    /\ done' = done \cup {p} /\ UNCHANGED <<job, wanted, admin>>

Finish ==
    /\ job = "running" /\ admin = "disk" /\ done = wanted
    /\ job' = "complete" /\ UNCHANGED <<wanted, done, admin>>

\* Some other write of the document takes the administrator along.
Keep ==
    /\ admin = "memory" /\ admin' = "disk"
    /\ UNCHANGED <<job, wanted, done>>

\* The panel ends and starts again: a job that runs is lost.
Restart ==
    /\ job' = "idle"
    /\ admin' = IF admin = "memory" THEN "none" ELSE admin
    /\ UNCHANGED <<wanted, done>>

Next ==
    \/ \E chose \in SUBSET Plugins : Begin(chose)
    \/ \E p \in wanted : Install(p)
    \/ MakeAdmin \/ GiveUp \/ Finish \/ Keep \/ Restart

Spec == Init /\ [][Next]_<<job, wanted, done, admin>>
=============================================================================
